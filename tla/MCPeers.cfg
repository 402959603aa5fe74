SPECIFICATION Spec
CONSTANTS
    NoPeer = NoPeer
    p1 = p1
    p2 = p2
    boot = boot
    ghost = ghost
    Peers = {p1, p2}
    Addrs = {1, 2}
    DEFAULT_BOOTSTRAPS <- mcDefaults
    MAINTAINER_PUBKEY = "zero"
    Flags <- mcFlags
    Manifest <- mcManifest
    Dns <- mcDns
    DisableMdns = FALSE
    CacheMax = 1
    StoreFails = TRUE
    MaxConns = 2
    MaxQueued = 1
    MaxClock = 1
    MaxStarts = 1
INVARIANTS
    
    SeedsVouched

    
CHECK_DEADLOCK FALSE
