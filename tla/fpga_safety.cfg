SPECIFICATION FairSpec
CONSTANTS
    Capacity = 6
    Page = 2
    Large = 4
    Bits = {1}
    MaxSlots = 7
    MaxPeeks = 1
    MaxFaults = 1
INVARIANTS
    TypeOK
    SuccessIsStored
    CleanVerifies
PROPERTIES
    CommandsStartClean
    SessionEnds
