SPECIFICATION Spec
CONSTANTS
    Ttl = 1
    MaxClock = 2
    MaxSent = 1
    MaxStarts = 2
    MaxFaults = 1
INVARIANTS
    SignedSound
    SenderIsBuilder
    DeliverableAdmitted
CHECK_DEADLOCK FALSE
