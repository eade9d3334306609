SPECIFICATION FairSpec
CONSTANTS
    server_a = server_a
    server_b = server_b
    None = None
    Addresses <- TwoServers
    Streams <- ThreeStreams
    MaxClients = 2
    MaxRequests = 1
    MaxFaults = 1
INVARIANTS
    OneOwner
    OwnResponses
PROPERTIES
    DestroyReturns
CHECK_DEADLOCK FALSE
