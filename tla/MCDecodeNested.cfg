SPECIFICATION Spec
CONSTANTS
    NumBackups = 2
    MaxElemCount = 23
    HeaderLens = {1}
    Counts = {1}
    Lengths = {0, 1}
    MaxMessage = 3
    MaxSections = 1
    NestedStrings = TRUE
INVARIANT InsideCborFlag
CHECK_DEADLOCK FALSE
