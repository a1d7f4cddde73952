SPECIFICATION FairSpec
CONSTANTS
    Buf = 8
    Hdr = 2
    Cap = 8
    Room = 44
    MaxBlocks = 4
    MaxBlock = 9
    Layouts <- MCLayouts
INVARIANTS
    TypeOK
    KeepsItsPlace
    RepeatsOnlyFlush
    InstallsExactly
    CopyReadsInside
PROPERTIES
    Advances
    CopyEnds
CHECK_DEADLOCK FALSE
