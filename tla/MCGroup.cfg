SPECIFICATION Spec
CONSTANTS
    Peers = {F, M, N}
    Founder = F
    Invitations = {{M}, {M, N}}
    Targets = {N}
    Senders = {M}
    Leavers = {N}
    MaxSkip = 1
    MaxChanges = 2
    MaxSends = 2
    MaxCrashes = 1
INVARIANTS
    RostersSound
    DepartedLockedOut
    
    InFlightOpens
CHECK_DEADLOCK FALSE
