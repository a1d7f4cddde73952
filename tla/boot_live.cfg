SPECIFICATION FairSpec
CONSTANTS
    small = small
    large = large
    gzip = gzip
    short = short
    huge = huge
    alien = alien
    LargeChunks = 3
    NoImage = NoImage
    Images = {small, large, gzip}
    Version <- MCVersion
    Fresh = "0001"
    Accepted <- MCAccepted
    Rejected <- MCRejected
    Chunks <- MCChunks
    Decodes <- MCDecodes
    AppChunks = 4
    SectorChunks = 2
    PackChunks = 3
    Faults = FALSE
    Keys = {}
    Commands = {}
INVARIANTS
    HungOnlyAfterRestore
PROPERTIES
    StagedGetsInstalled
    ImplementsFairPromise
    FallsBackToFactory
    BootEnds
