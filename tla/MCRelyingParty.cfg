SPECIFICATION SurfaceSpec
CONSTANTS
    h1 = h1
    h2 = h2
    a = a
    b = b
    absent = absent
    malformed = malformed
    alice = alice
    bob = bob
    carol = carol
    dave = dave
    org = org
    erin = erin
    frank = frank
    gail = gail
    hugh = hugh
    k1 = k1
    k2 = k2
    k3 = k3
    k4 = k4
    kb = kb
    Request <- MCRequest
    Handler <- MCHandler
    Nonce <- MCNonce
    Created <- MCCreated
    NonceOf <- MCNonceOf
    BrokenReadings <- MCBroken
    WallSteps <- ForwardSteps
    MaxWallSteps = 1
    MaxEntries = 1
    MaxSkew = 1
    TicksPerSecond = 2
    MaxLatency = 3
    MaxTime = 11
    Absent = absent
    Malformed = malformed
    MaxVerifications = 7
    KeyLogs <- MCKeyLogs
    Relationships <- MCRelationships
    Revocations <- MCRevocations
    Sent <- MCSent
    Delivery <- MCDelivery
    Participant <- MCParticipant
    BareKey <- MCBareKey
    Empty = "none"
    Decoding <- MCDecoding
    RequireAbilities <- MCAbilities
    RequireRepresents = org
CONSTRAINT FewMeet
SYMMETRY HandlerSymmetry
INVARIANTS
    AtMostOnce
    AcceptedAsSigned
    BlamesWhomItConcerns
    ActsForOrganization
PROPERTIES
    ReplayRefusedBeforeAuthorization
    RefusedLeavesNoTrace
