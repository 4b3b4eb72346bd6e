SPECIFICATION Spec
CONSTANTS
    UnorderedMaps = TRUE
    RepeatIn = {"array"}
    InlineChoices = FALSE
    MaxQty = 2
    MaxTypes = 5
    MaxMembers = 2
INVARIANTS
    FragBudgetSuffices
CHECK_DEADLOCK FALSE
