SPECIFICATION Spec
CONSTANTS
    OtpkCount = 2
    MaxSends = 3
    MaxRestarts = 2
    MaxRegens = 2
    StoreFails = TRUE
    Loses = TRUE
INVARIANTS
    
    HelloOpens
    StaysHybrid
CHECK_DEADLOCK FALSE
