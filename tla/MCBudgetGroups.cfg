SPECIFICATION Spec
CONSTANTS
    UnorderedMaps = TRUE
    RepeatIn = {"array", "group"}
    InlineChoices = FALSE
    MaxQty = 2
    MaxTypes = 7
    MaxMembers = 1
INVARIANTS
    EntryBudgetSuffices
CHECK_DEADLOCK FALSE
