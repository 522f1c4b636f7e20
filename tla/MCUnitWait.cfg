SPECIFICATION FairUnitSpec
CONSTANTS
    MaxKeys = 2
    MaxEvents = 3
    MaxMinted = 4
    Shapes <- MCShapes
    Session = 20
    Outside = 30
    Allowances = {9}
CHECK_DEADLOCK FALSE
INVARIANTS
    LaggingViewsWait
