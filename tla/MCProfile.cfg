SPECIFICATION Spec
CONSTANTS
    Peers = {1, 2}
    MaxKeys = 6
    MaxStarts = 3
    MaxDamage = 1
    MaxOtpks = 2
    Outages = TRUE
INVARIANTS
    PrekeysSound
    OneIdentity
    MigrationsSound
CHECK_DEADLOCK FALSE
