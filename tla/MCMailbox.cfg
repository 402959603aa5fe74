SPECIFICATION FairSpec
CONSTANTS
    MsgsA = 2
    MsgsB = 0
    TicksPerSlot = 2
    Window = 24
    RepublishAfter = 0
    DropTtl = 2
    AckRetention = 0
    MaxClock = 2
    MaxFaults = 1
INVARIANTS
    RowsSound

    
CHECK_DEADLOCK FALSE
