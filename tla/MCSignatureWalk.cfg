SPECIFICATION DiagnosisSpec
CONSTANTS
    k1 = k1
    k2 = k2
    k3 = k3
    k4 = k4
    KeyLists <- MCKeyLists
    Texts <- MCTexts
    Limits <- MCLimits
    MaxMembers = 3
CHECK_DEADLOCK FALSE
INVARIANTS
    VerdictIsExact
    WorkBounded
    DiagnosisIsExact
