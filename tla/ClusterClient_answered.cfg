SPECIFICATION FairSpec
CONSTANTS
    node_a = node_a
    node_b = node_b
    node_c = node_c
    key_k = key_k
    None = None
    Nodes <- ABC
    Seed = node_a
    Slots <- ThreeSlots
    FirstOwner <- Interleaved
    Keys <- OneKey
    KeySlot <- InSlot0
    MaxRequests = 2
    MaxTransactions = 0
    MaxMoves = 1
    MaxLosses = 0
    MaxErrors = 0
    GossipPending = TRUE
    Orderly = TRUE
    RetryUpdates = 1
PROPERTIES
    RequestsAnswered
