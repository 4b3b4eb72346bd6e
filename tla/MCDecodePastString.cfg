SPECIFICATION Spec
CONSTANTS
    NumBackups = 1
    MaxElemCount = 23
    HeaderLens = {1}
    Counts = {1}
    Lengths = {1}
    MaxMessage = 3
    MaxSections = 1
    NestedStrings = TRUE
INVARIANT NoDecodePastString
CHECK_DEADLOCK FALSE
