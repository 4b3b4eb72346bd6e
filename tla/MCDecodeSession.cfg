SPECIFICATION Spec
CONSTANTS
    NumBackups = 3
    MaxElemCount = 23
    HeaderLens = {1}
    Counts = {0, 1, 12}
    Lengths = {1}
    MaxMessage = 3
    MaxSections = 1
    NestedStrings = TRUE
INVARIANTS
    TypeOK
    BackupsMatchFrames
    RestorePointsSound
    OffsetsFollowSections
PROPERTIES
    RollbackExact
    ParentResumed
    StringEndsExactly
CHECK_DEADLOCK FALSE
