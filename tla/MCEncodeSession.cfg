SPECIFICATION Spec
CONSTANTS
    NumBackups = 3
    MaxElemCount = 23
    InHeader = 1
    InOneByte = 4
    InTwoBytes = 8
    InFourBytes = 20
    ValueLens = {1}
    StringLens = {1, 2}
    Hints = {0, 2}
    Rooms = {1, 4}
    MaxRoom = 4
    Slack = 2
    MaxText = 4
    MaxSections = 1
INVARIANTS
    TypeOK
    NothingPastEnd
    BackupsMatchFrames
PROPERTIES
    ImplementsDocument
    ExactHintCloses
    EndFailsOnlyForHint
CHECK_DEADLOCK FALSE
