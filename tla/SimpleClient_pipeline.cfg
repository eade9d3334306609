SPECIFICATION Spec
CONSTANTS
    MaxRequests = 3
    MaxCancels  = 1
    MaxPushes   = 1
    MaxResets   = 1
    MaxCloses   = 0
    MaxMisreads = 0
    TxnCommands = 1
    ReplyKinds <- Plain
INVARIANTS
    TypeOK
    SemaphoreBacked
    PipelineInOrder
    NothingVanishes
    InFlightAccounts
    CallbacksInOrder
    CancelHonoured
    TransactionNotSplit
    ResponseMatches
    ResponseAwaited
    ReaderHasStream
PROPERTIES
    ImplementsRequestQueue
