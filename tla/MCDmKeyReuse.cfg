SPECIFICATION Spec
CONSTANTS
    MaxSkip = 2
    MsgsA = 2
    MsgsB = 1
    OtpkCount = 1
    MaxFetches = 0
    MaxRestarts = 1
    OfflineSends = TRUE
INVARIANT
    KeySealsOnceAlways
CHECK_DEADLOCK FALSE
