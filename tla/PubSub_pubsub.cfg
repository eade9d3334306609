SPECIFICATION FairSpec
CONSTANTS
    Channels <- TwoChannels
    MaxCalls = 2
    MaxPublishes = 2
    MaxLosses = 1
INVARIANTS
    MapAgreesWithServer
    DeliveredInOrder
PROPERTIES
    SubscribedAtLast
