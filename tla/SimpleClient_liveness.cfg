SPECIFICATION FairSpec
CONSTANTS
    MaxRequests = 2
    MaxCancels  = 0
    MaxPushes   = 0
    MaxResets   = 1
    MaxCloses   = 1
    MaxMisreads = 0
    TxnCommands = 1
    ReplyKinds <- Plain
PROPERTIES
    UpdateReturns
    RequestsResolved
