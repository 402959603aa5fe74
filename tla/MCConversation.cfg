SPECIFICATION FairSpec
CONSTANTS
    Peers = {a, b}
    Alias = alias
    CmdCap = 1
    GuiCap = 1
    Window = 1
    Ttl = 0
    MaxMsgs = 2
    MaxInvokes = 2
    MaxClock = 1
    MaxStarts = 1
CHECK_DEADLOCK FALSE
INVARIANTS
    
    
    ShowsAll
PROPERTY SendsHandled
