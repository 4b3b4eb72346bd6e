SPECIFICATION Spec
CONSTANTS
    UnorderedMaps = TRUE
    RepeatIn = {}
    InlineChoices = TRUE
    MaxQty = 2
    MaxTypes = 6
    MaxMembers = 2
INVARIANTS
    FragCountExact
CHECK_DEADLOCK FALSE
