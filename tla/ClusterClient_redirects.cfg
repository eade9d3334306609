SPECIFICATION Spec
CONSTANTS
    node_a = node_a
    node_b = node_b
    node_c = node_c
    key_k = key_k
    None = None
    Nodes <- AB
    Seed = node_a
    Slots <- TwoSlots
    FirstOwner <- OneEach
    Keys <- OneKey
    KeySlot <- InSlot0
    MaxRequests = 2
    MaxTransactions = 1
    MaxMoves = 2
    MaxLosses = 1
    MaxErrors = 1
    GossipPending = TRUE
    Orderly = FALSE
    RetryUpdates = 1
INVARIANTS
    TypeOK
    CallbackFindsRequest
    CommandsAtListedNodes
    OneQuery
    ReducesConfigured
    AnswersTrue
CHECK_DEADLOCK FALSE
