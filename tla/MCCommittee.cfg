SPECIFICATION IssuingSpec
CONSTANTS
    MaxKeys = 3
    MaxEvents = 3
    MaxMinted = 7
    Outside = 30
    Shapes <- MCShapes
CHECK_DEADLOCK FALSE
INVARIANTS
    CommitteeSatisfiesItsThreshold
