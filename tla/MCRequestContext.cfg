SPECIFICATION FairSpec
CONSTANTS
    o1 = o1
    o2 = o2
    o3 = o3
    hostA = hostA
    hostB = hostB
    hostC = hostC
    org = org
    unit = unit
    lead = lead
    agent = agent
    Op <- MCOp
    View <- MCView
    Honest <- MCHonest
    Participant <- MCParticipant
    LogLength <- MCLogLength
    MaxKeys = 1
    Requests <- MCRequests
    LocalCeiling <- MCLocalCeiling
    OuterCeilings = {8, 20}
CHECK_DEADLOCK FALSE
INVARIANTS
    MetersAddUp
    AcceptedOnOwnView
    CostRefusalHasASpentMeter
    MemoKeepsReplayedLogs
PROPERTIES
    OperationsEnd
