SPECIFICATION Spec
CONSTANTS
    NumBackups = 1
    MaxElemCount = 23
    InHeader = 2
    InOneByte = 5
    InTwoBytes = 9
    InFourBytes = 20
    Totals = {0, 1, 2, 3, 5}
    Rooms = {1, 2, 5}
    MaxRead = 3
    MaxChunk = 5
    MaxFaults = 2
INVARIANTS
    TypeOK
    DeliveredWhole
    ValidJoinWholeOrNothing
    LastFragmentCompletes
    BytesAccounted
PROPERTIES
    EveryStepProgresses
    TransferEnds
CHECK_DEADLOCK FALSE
