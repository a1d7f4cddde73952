SPECIFICATION Spec
CONSTANTS
    small = small
    large = large
    gzip = gzip
    short = short
    huge = huge
    alien = alien
    LargeChunks = 2
    NoImage = NoImage
    Images = {small, large}
    Version <- MCVersion
    Fresh = "0001"
    Accepted <- MCAccepted
    Rejected <- MCRejected
    Chunks <- MCChunks
    Decodes <- MCDecodes
    AppChunks = 2
    SectorChunks = 1
    PackChunks = 2
    Faults = TRUE
    Keys = {"default", "enter"}
    Commands = {"probe", "clone", "exec", "ymdown"}
INVARIANTS
    IndInv
PROPERTIES
    OverwritesOnlyForNews
    CopiesOntoErased
