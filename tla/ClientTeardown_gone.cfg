SPECIFICATION Spec
CONSTANTS
    server_a = server_a
    server_b = server_b
    None = None
    Addresses <- OneServer
    Streams <- ThreeStreams
    MaxClients = 1
    MaxRequests = 1
    MaxFaults = 0
INVARIANT StreamOutlivesReader
CHECK_DEADLOCK FALSE
