SPECIFICATION FairSpec
CONSTANTS
    Uploads = {1, 2}
    Kinds = {"mcu", "fpga"}
    Units = 2
    Numbers = 2
    Tries = 2
    Cans = 2
    MaxFaults = 1
INVARIANTS
    CommitsWholeFile
    FinishIsKnown
    SaysDoneOfWhole
    NothingLeftSet
PROPERTIES
    SessionEnds
    RetriesFail
CHECK_DEADLOCK FALSE
