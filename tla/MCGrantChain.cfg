SPECIFICATION Spec
CONSTANTS
    s = s
    a = a
    b = b
    k = k
    v = v
    w = w
    Participant <- MCParticipant
    Key <- MCKey
    LogLength <- MCLogLength
    Calls <- MCCalls
    MaxLinks = 3
    MaxLog = 2
    MaxKeys = 1
    MaxRevoked = 1
    Currency <- MCCurrency
    MaxPlaces = 2
    MaxUnits = 9999
    MaxTier = 3
CHECK_DEADLOCK FALSE
INVARIANTS
    AcceptedChainNarrows
    SpendingWithinEveryLink
    RevocationIsNoticed
    ForgedRevocationNeverCounts
    WorkBounded
