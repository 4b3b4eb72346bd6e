SPECIFICATION Spec
CONSTANTS
    NumBackups = 1
    MaxElemCount = 35
    KeyA = KeyA
    KeyB = KeyB
    KeyX = KeyX
    MaxPairs = 3
    Keys <- MCKeys
    Cases <- RepeatedFirstCases
INVARIANT MatchingAccepted
CHECK_DEADLOCK FALSE
