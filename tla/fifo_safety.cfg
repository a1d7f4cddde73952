SPECIFICATION FairSpec
CONSTANTS
    Size = 3
    MaxBytes = 6
    MaxChunk = 3
    MaxRead = 4
INVARIANTS
    InUseIsLive
    Accounted
    NoLostWakeup
PROPERTIES
    ImplementsQueue
    ReadEnds
CHECK_DEADLOCK FALSE
