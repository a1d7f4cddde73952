SPECIFICATION Spec
CONSTANTS
    small = small
    large = large
    gzip = gzip
    short = short
    huge = huge
    alien = alien
    LargeChunks = 3
    NoImage = NoImage
    Images = {small, large, gzip, short, huge, alien}
    Version <- MCVersion
    Fresh = "0001"
    Accepted <- MCAccepted
    Rejected <- MCRejected
    Chunks <- MCChunks
    Decodes <- MCDecodes
    AppChunks = 4
    SectorChunks = 2
    PackChunks = 5
    Faults = TRUE
    Keys = {"default", "enter"}
    Commands = {"probe", "exec"}
INVARIANTS
    NoSourceLost
    CommittedIsInstalled
PROPERTIES
    ImplementsPromise
    BootAdvances
