SPECIFICATION Spec
CONSTANTS
    Size = 3
    MaxBytes = 6
    MaxChunk = 3
    MaxRead = 4
INVARIANTS
    FifoThere
CHECK_DEADLOCK FALSE
