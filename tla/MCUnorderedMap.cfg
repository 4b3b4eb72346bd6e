SPECIFICATION Spec
CONSTANTS
    NumBackups = 1
    MaxElemCount = 35
    KeyA = KeyA
    KeyB = KeyB
    KeyX = KeyX
    MaxPairs = 3
    Keys <- MCKeys
    Cases <- AllCases
INVARIANTS
    TypeOK
    MatchingAccepted
    AcceptedMatches
    ResultFaithful
    CursorAligned
PROPERTIES
    FailedSearchRestores
    DecoderReturns
CHECK_DEADLOCK FALSE
