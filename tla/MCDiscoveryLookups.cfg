SPECIFICATION FairSpec
CONSTANTS
    l1 = l1
    l2 = l2
    l3 = l3
    a = a
    b = b
    request = request
    Lookup <- MCLookup
    MaxConcurrent = 1
    MaxQueued = 1
    Participant <- MCParticipant
    MaxVersion <- MCMaxVersion
    MaxKeyStates = 1
    MaxSignatureVerifications = 1
    Budget = {request}
    Issuers <- MCIssuers
    MaxIssuers = 1
    Revokers <- MCRevokers
    AsksAbout <- MCAsksAbout
    Brings <- MCBrings
    Ttl = 1
    FetchDeadline = 1
    KeyLookup <- MCKeyLookup
    Allowance <- MCAllowance
INVARIANTS
    NoIdleSlotWhileWaiting
    AnswersTheLogInHand
    RevocationsComplete
PROPERTIES
    EveryLookupSettles
