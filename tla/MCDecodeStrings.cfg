SPECIFICATION Spec
CONSTANTS
    NumBackups = 2
    MaxElemCount = 23
    HeaderLens = {1}
    Counts = {1}
    Lengths = {1, 2}
    MaxMessage = 4
    MaxSections = 2
    NestedStrings = FALSE
INVARIANTS
    StringOffsetIsLogical
    InsideCborFlag
    ClampedAfterSwitch
PROPERTY OverrunOnlyInFirstSection
CHECK_DEADLOCK FALSE
