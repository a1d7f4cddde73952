SPECIFICATION Spec
CONSTANTS
    Buf = 8
    Hdr = 2
    Cap = 8
    Room = 44
    MaxBlocks = 4
    MaxBlock = 4
    Layouts <- MCLayouts
INVARIANTS
    DecodedReachesRawSize
CHECK_DEADLOCK FALSE
