SPECIFICATION Spec
CONSTANTS
    MaxRequests = 3
    MaxCancels  = 0
    MaxPushes   = 0
    MaxResets   = 1
    MaxCloses   = 0
    MaxMisreads = 2
    TxnCommands = 1
    ReplyKinds <- AllKinds
INVARIANTS
    MisreadsContained
