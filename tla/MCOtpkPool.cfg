SPECIFICATION Spec
CONSTANTS
    Peers = {p1, p2}
    Target = 1
    Cooldown = 2
    StoreFails = TRUE
    MaxClock = 2
    MaxRuns = 2
INVARIANTS
    TypeOK
    ServedOnce
    RateLimited
    KeyDerivesOnce
    PoolLevel

    
