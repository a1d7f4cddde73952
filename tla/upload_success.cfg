SPECIFICATION Spec
CONSTANTS
    Uploads = {1, 2}
    Kinds = {"mcu", "fpga"}
    Units = 2
    Numbers = 2
    Tries = 2
    Cans = 2
    MaxFaults = 1
INVARIANTS
    TrueMeansSucceeded
CHECK_DEADLOCK FALSE
