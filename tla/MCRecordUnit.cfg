SPECIFICATION FairUnitSpec
CONSTANTS
    MaxKeys = 2
    MaxEvents = 3
    MaxMinted = 5
    Shapes <- MCShapes
    Session = 20
    Outside = 30
    Allowances = {4, 9}
CHECK_DEADLOCK FALSE
INVARIANTS
    AcceptedOnPrincipalsAuthority
    OneAcceptedSpelling
    MembersAgree
PROPERTIES
    WaitsEnd
    VerdictsAreFinal
