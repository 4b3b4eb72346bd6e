SPECIFICATION Spec
CONSTANTS
    UnorderedMaps = TRUE
    RepeatIn = {"map"}
    InlineChoices = FALSE
    MaxQty = 2
    MaxTypes = 5
    MaxMembers = 2
INVARIANTS
    TypeOK
    EntryBudgetSuffices
    FragCountExact
    FragBudgetSuffices
CHECK_DEADLOCK FALSE
