SPECIFICATION FairSpec
CONSTANTS
    Quantum = 3
    QuantaPerFrame = 2
    Jitter = TRUE
    Capacity = 2
    MaxBytes <- MCMaxBytes
INVARIANTS
    FramesSound
    KeystreamsSound
PROPERTIES
    ImplementsBytePipe
    AcceptedArrives
CHECK_DEADLOCK FALSE
