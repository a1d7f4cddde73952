SPECIFICATION FairSpec
CONSTANTS
    Bytes <- MCBytes
    STX_L = "fe"
    STX_R = "ef"
    STX_F = "ff"
    Body = 5
    CheckOf <- MCCheckOf
    Commands <- MCCommands
    Ring = 4
    QueueSize = 5
    Lag = 2
    MaxEvents = 1
INVARIANTS
    TypeOK
    HandedInOrder
    NothingLeftBehind
    ResyncsAtOnce
PROPERTIES
    AllHandedOn
CHECK_DEADLOCK FALSE
