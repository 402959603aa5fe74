SPECIFICATION ChannelSpec
CONSTANTS
    MaxSkip = 2
    MaxMsgs = 4
    MaxDup = 1
INVARIANTS
    SessionsSound
    InFlightOpens
    DeliveredAtMostOnce
    ForwardSecrecy
CHECK_DEADLOCK FALSE
