SPECIFICATION DirectorySpec
CONSTANTS
    MaxKeys = 2
    MaxEvents = 3
    MaxMinted = 5
    MaxHeld = 2
    Outside = 9
    Shapes <- MCShapes
    SelfKinds = {"profile"}
    Cards <- MCCards
    KeptShapes <- MCKeptShapes
    MaxKeptEvents = 2
    MaxMade = 3
    MaxRestarts = 1
CHECK_DEADLOCK FALSE
INVARIANTS
    SuccessionNeedsQuorum
    ForksRevealTheSameKeys
    RevocationTakesEffect
    OwnWordsAreTaken
    SavedIdentityLoads
