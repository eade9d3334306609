SPECIFICATION FairSpec
CONSTANTS
    key_a = key_a
    key_b = key_b
    None = None
    NumMasters = 3
    NumSlavesPerMaster = 1
    TotalSlots = 7
    SlotsPerCommand = 1
    GossipCountdown = 1
    Keys <- TwoKeys
    KeySlot <- InSlot1
    MaxMigrations = 2
    MaxFaults = 1
INVARIANTS
    TypeOK
    SetupComplete
    KeysFound
PROPERTIES
    MigrationEnds
CHECK_DEADLOCK FALSE
