SPECIFICATION Spec
CONSTANTS
    MaxSkip = 2
    MsgsA = 2
    MsgsB = 1
    OtpkCount = 1
    MaxFetches = 2
    MaxRestarts = 1
    OfflineSends = TRUE
INVARIANTS
    KeySealsOnce
    NothingComesBack
    OutboxKept
PROPERTY
    PersistedSessionKept
CHECK_DEADLOCK FALSE
