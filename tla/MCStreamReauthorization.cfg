SPECIFICATION Spec
CONSTANTS
    s = s
    d = d
    k1 = k1
    k2 = k2
    Participant <- MCParticipant
    Key <- MCKey
    Records <- MCRecords
    Interval = 2
    ViewBound = 1
    Latency = 1
    Allowance = 2
    MaxPublished = 3
    MaxTime = 6
CHECK_DEADLOCK FALSE
INVARIANTS
    ClosesWithinWindow
    CloseReasonsAreTrue
    OneAllowancePerRecheck
