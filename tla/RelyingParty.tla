----------------------------- MODULE RelyingParty -----------------------------
(***************************************************************************)
(* A surface that answers HTTP requests: the adapters and the request path *)
(* of packages/verify/src/verifier.ts, from the delivered message to the   *)
(* status, over a view of records in hand.  It carries out RequestVerifier *)
(* with every rung spelled out: what the message says, what the adapter    *)
(* hands over, which keys it is held against and why it is refused.        *)
(*                                                                         *)
(* Signers sign requests; what is delivered is one of them or what became  *)
(* of one on the way: a body rewritten, a header lost, a chain added.      *)
(* What the resolver says of a chain is a field of the chain (GrantChain   *)
(* has the resolver): the reason it gives, the curve checks after which it  *)
(* gives it, what it says instead when it cannot afford them, and the       *)
(* issuers whose logs it has then replayed.                                 *)
(*                                                                         *)
(* One operation has one allowance.  The key state, the signature, the      *)
(* chain and the edge draw on it in this order, and each is offered what    *)
(* the ones before it left.                                                *)
(***************************************************************************)
EXTENDS RequestVerifier, HttpSignature, StaticView

CONSTANTS
    Sent,               \* the messages that were signed, as sent
    Delivery,           \* Delivery[r]: the message r is, and the adapter it comes in by
    Participant,        \* keyids that are ids of participants
    BareKey,            \* keyids that are keys
    Empty,              \* the octets of a body that is not there
    Decoding,           \* Decoding[o]: octets of the text o decodes to
    RequireAbilities,   \* what a delegated request must be granted
    RequireRepresents   \* the organization to be represented, or Absent

(* isVerifyCapacityReason: 503 asks for a retry, 401 for other credentials; *)
(* whatever ends in _too_expensive is one.                                  *)
CostReasons ==
    {"agent_key_log_too_expensive", "issuer_key_log_too_expensive",
     "grant_issuer_key_log_too_expensive", "grant_signature_check_too_expensive",
     "request_signature_too_expensive"}
CapacityReasons == CostReasons \cup {"clock_invalid", "nonce_capacity"}

ASSUME RelyingPartyAssumption ==
    /\ \A r \in Request :
          /\ Delivery[r].adapter \in {"fetch", "raw", "text", "unparsed"}
          /\ \/ Delivery[r].input \in {Absent, Malformed}
             \/ /\ Delivery[r].input.created = Created[r]
                /\ Delivery[r].input.nonce = NonceOf[r]
          /\ Delivery[r].grants # Absent => Delivery[r].grants.reason # "none"

(* What was sent was signed by signRequest, and nobody but a signer makes a   *)
(* signature that verifies.                                                   *)
ASSUME SignaturesAreUnforgeable ==
    /\ \A s \in Sent :
          /\ {Absent, Malformed} \cap {s.digest, s.input, s.signature} = {}
          /\ s.digest = ContentDigest(s.body)
          /\ s.input.grants = (s.grants # Absent)
          /\ s.signature.base = SignatureBase(s.method, s.url, s.digest, s.input, s.grants)
    /\ \A r \in Request :
          Delivery[r].signature \in {Absent, Malformed} \cup {s.signature : s \in Sent}

(* The resolver blames the cost only when it cannot afford the chain, and a    *)
(* chain it calls valid is one whose subject's log it has replayed.           *)
ASSUME ChainsAreVerdicts ==
    \A r \in Request : Delivery[r].grants # Absent =>
        LET chain == Delivery[r].grants
        IN  /\ chain.reason \notin CapacityReasons
            /\ chain.cost \in Nat /\ chain.short \in CostReasons
            /\ chain.reason = "valid" => chain.subject \in chain.replayed

VARIABLE answer   \* what was answered in the last step, or NoAnswer

surfaceVars == <<vars, answer>>

NoAnswer == << >>
Accepted == "accepted"

Answer(r, reason, now) == answer' = [request |-> r, reason |-> reason, now |-> now]

SurfaceInit == Init /\ answer = NoAnswer

-------------------------------------------------------------------------------
(* The adapters: verifyFetch reads the octets, and none for GET; middleware   *)
(* takes the bytes of express.raw, or no body, and nothing that was decoded.  *)
Handed == [r \in Request |->
    CASE Delivery[r].adapter = "fetch" -> IF Delivery[r].method = "GET" THEN Empty ELSE Delivery[r].body
      [] Delivery[r].adapter = "raw" -> Delivery[r].body
      [] Delivery[r].adapter = "text" -> Decoding[Delivery[r].body]
      [] Delivery[r].adapter = "unparsed" -> Empty]

(* A fault to be caught: a body that express.text decoded is good enough. *)
FaultyNotRaw(r) == FALSE

NotRaw(r) == Delivery[r].adapter = "text"

(* The keyid is looked for before the header is parsed; a Malformed one here   *)
(* has none.                                                                  *)
NamesKeyId(r) == Delivery[r].input \notin {Absent, Malformed}

(* What verify decides before it asks for any key. *)
DoorRefusal == [r \in Request |->
    IF NotRaw(r) THEN "body_not_raw"
    ELSE IF ~NamesKeyId(r) THEN "missing_signature"
    ELSE IF Delivery[r].input.keyId \notin BareKey \cup Participant THEN "keyid_invalid"
    ELSE IF Delivery[r].input.keyId \in BareKey /\ Delivery[r].grants = Absent THEN "delegation_required"
    ELSE "none"]

RefuseAtTheDoor(h, r) ==
    /\ pc[h] = "idle"
    /\ DoorRefusal[r] # "none"
    /\ Answer(r, DoorRefusal[r], 0)
    /\ UNCHANGED vars

ArriveAt(h, r) ==
    /\ DoorRefusal[r] = "none"
    /\ Arrive(h, r)
    /\ answer' = NoAnswer

-------------------------------------------------------------------------------
(* The keys the signature must verify against: the key itself, or the state   *)
(* the log in hand replays to.                                                *)
KeyState == [r \in Request |->
    IF DoorRefusal[r] # "none" THEN NoState
    ELSE IF Delivery[r].input.keyId \in BareKey THEN [keys |-> <<Delivery[r].input.keyId>>, threshold |-> 1]
    ELSE GetKeyState(Delivery[r].input.keyId)]

(* The replay is paid for by the operation, and is not remembered by it.       *)
StateCost == [r \in Request |->
    IF DoorRefusal[r] # "none" \/ Delivery[r].input.keyId \in BareKey THEN 0
    ELSE ReplayCost(Delivery[r].input.keyId)]

LeftForSignature == [r \in Request |-> MaxVerifications - StateCost[r]]

Verified(r, now) ==
    VerifyRequest(Delivery[r], Handed[r], KeyState[r].keys, KeyState[r].threshold, now, MaxSkew,
                  LeftForSignature[r])

(* A fault to be caught: the clock is left to verifyRequest to look at. *)
FaultySignatureRefusal(r, now) ==
    IF LeftForSignature[r] < 0 THEN "agent_key_log_too_expensive"
    ELSE IF KeyState[r] = NoState THEN "agent_key_log_unresolved"
    ELSE IF ~UsableClock(now) THEN "signature_invalid"
    ELSE LET verdict == Verified(r, now)
         IN  IF verdict # "verified" THEN verdict
             ELSE IF Peek(Delivery[r].input.nonce, now) = "replayed" THEN "nonce_replayed"
             ELSE "none"

(* From the key state to the peek, in the order of the code. *)
SignatureRefusal(r, now) ==
    IF LeftForSignature[r] < 0 THEN "agent_key_log_too_expensive"
    ELSE IF KeyState[r] = NoState THEN "agent_key_log_unresolved"
    ELSE IF ~UsableClock(now) THEN "clock_invalid"
    ELSE LET verdict == Verified(r, now)
         IN  IF verdict # "verified" THEN verdict
             ELSE IF Peek(Delivery[r].input.nonce, now) = "replayed" THEN "nonce_replayed"
             ELSE "none"

RefuseSignature(h, now) ==
    /\ RefuseEarly(h)
    /\ Answer(request[h], SignatureRefusal(request[h], now), now)
    /\ answer'.reason # "none"

AskNonce(h, now) ==
    /\ PeekNonce(h, now)
    /\ SignatureRefusal(request[h], now) = "none"
    /\ answer' = NoAnswer

-------------------------------------------------------------------------------
(* The agent that acts: the subject of the chain, or the signer itself. *)
AgentOf(r) == IF Delivery[r].grants = Absent THEN Delivery[r].input.keyId ELSE Delivery[r].grants.subject

LeftForChain(r) == LeftForSignature[r] - ProbeCost(Delivery[r], KeyState[r].keys)

ChainCost(r) == IF Delivery[r].grants = Absent THEN 0 ELSE Delivery[r].grants.cost

LeftForEdge(r) == LeftForChain(r) - ChainCost(r)

(* A log that the operation has replayed for a chain is not replayed again.     *)
AgentCost(r) ==
    IF Delivery[r].grants # Absent /\ AgentOf(r) \in Delivery[r].grants.replayed THEN 0
    ELSE ReplayCost(AgentOf(r))

OrganizationCost(r) ==
    IF \/ RequireRepresents = AgentOf(r)
       \/ Delivery[r].grants # Absent /\ RequireRepresents \in Delivery[r].grants.replayed
    THEN 0 ELSE ReplayCost(RequireRepresents)

(* A relationship may be signed by a key its issuer held at any time, a         *)
(* revocation by one of the state it names.                                     *)
Genuine(edge) == SignedAtAnyTime(edge.issuer, edge.signer)
Withdraws(revocation, edge) ==
    /\ revocation.revokes = edge.digest
    /\ revocation.issuer = edge.issuer
    /\ SignedAt(revocation.issuer, revocation.anchor, revocation.signer)

Found(edge) == GetRevocations(edge.digest, {edge.issuer})

RevocationCost(edge) ==
    Cardinality(UNION {{i} \X (1 .. AnchoredCost(i.issuer, i.anchor, i.signer)) : i \in Found(edge)})

(* verifyRelationship: the log of the organization, the search for the state    *)
(* that signed the edge and, when there is one, the candidate to revoke it.     *)
EdgeCost(r, edge) ==
    OrganizationCost(r) + SearchCost(edge.issuer, edge.signer)
        + IF Genuine(edge) THEN RevocationCost(edge) ELSE 0

(* What verifyRepresentsChain asks before it looks at the organization's log.   *)
Apt(r, edge) ==
    /\ Resolves(AgentOf(r))
    /\ edge.subject = AgentOf(r)
    /\ edge.object = RequireRepresents
    /\ edge.issuer = RequireRepresents
    /\ ~edge.expired

Standing(edge) ==
    Genuine(edge) /\ ~\E revocation \in Found(edge) : Withdraws(revocation, edge)

(* verifyRepresentsChain of the edge the lookup returned, if it returned one.   *)
RepresentsReason(r, edge) ==
    IF AgentCost(r) > LeftForEdge(r) THEN "agent_key_log_too_expensive"
    ELSE IF ~Apt(r, edge) THEN "represents_chain_unverified"
    ELSE IF AgentCost(r) + EdgeCost(r, edge) > LeftForEdge(r) THEN "issuer_key_log_too_expensive"
    ELSE IF ~Standing(edge) THEN "represents_chain_unverified"
    ELSE "none"

EdgesFor(r) == GetRelationshipEdge(RequireRepresents, AgentOf(r), RequireRepresents)

(* The one the lookup returned, when it returned one. *)
EdgeFor(r) == CHOOSE edge \in EdgesFor(r) : TRUE

(* From the chain to the edge. *)
AuthorizationRefusal == [r \in Request |->
    IF DoorRefusal[r] # "none" THEN DoorRefusal[r]
    ELSE IF Delivery[r].grants # Absent /\ LeftForEdge(r) < 0 THEN Delivery[r].grants.short
    ELSE IF Delivery[r].grants # Absent /\ Delivery[r].grants.reason # "valid" THEN Delivery[r].grants.reason
    ELSE IF Delivery[r].grants # Absent /\ Delivery[r].grants.audience # Delivery[r].input.keyId
    THEN "grants_leaf_audience_mismatch"
    ELSE IF Delivery[r].grants # Absent /\ ~(RequireAbilities \subseteq Delivery[r].grants.abilities)
    THEN "grants_abilities_insufficient"
    ELSE IF RequireRepresents = Absent THEN "none"
    ELSE IF EdgesFor(r) = {} THEN "represents_chain_unverified"
    ELSE RepresentsReason(r, EdgeFor(r))]

RefuseAuthorization(h) ==
    /\ RefuseUnauthorized(h)
    /\ AuthorizationRefusal[request[h]] # "none"
    /\ Answer(request[h], AuthorizationRefusal[request[h]], reading[h])

(* The nonce is committed, and the guard has the last word. *)
ReasonOf(verdict) ==
    CASE verdict = "fresh" -> Accepted
      [] verdict = "replayed" -> "nonce_replayed"
      [] verdict = "at_capacity" -> "nonce_capacity"
      [] verdict = "clock_invalid" -> "clock_invalid"

CommitNonce(h) ==
    /\ AuthorizationRefusal[request[h]] = "none"
    /\ Commit(h)
    /\ \E verdict \in Verdict :
          /\ Check(NonceOf[request[h]], reading[h], verdict)
          /\ Answer(request[h], ReasonOf(verdict), reading[h])

Clocks == (Tick \/ StepWallClock) /\ answer' = NoAnswer

SurfaceNext ==
    \/ Clocks
    \/ \E h \in Handler :
          \/ \E r \in Request : RefuseAtTheDoor(h, r) \/ ArriveAt(h, r)
          \/ \E now \in {NowSeconds} \cup BrokenReadings : RefuseSignature(h, now) \/ AskNonce(h, now)
          \/ RefuseAuthorization(h)
          \/ CommitNonce(h)

SurfaceSpec == SurfaceInit /\ [][SurfaceNext]_surfaceVars

-------------------------------------------------------------------------------
Status(reason) == IF reason \in CapacityReasons THEN 503 ELSE 401

(* What a delivery says outside its body, less how it came in. *)
Content(m) == <<m.method, m.url, m.grants, m.digest, m.input, m.signature>>

(* What the application gets to read: the bytes of a decoded body are not the *)
(* ones the text was digested from.                                           *)
Read(r) == IF Delivery[r].adapter = "text" THEN Delivery[r].body ELSE Handed[r]

CurrentKeys(r) == {KeyState[r].keys[i] : i \in DOMAIN KeyState[r].keys}

SignedJustSo == [r \in Request |->
    \E s \in Sent : /\ Content(s) = Content(Delivery[r])
                   /\ Read(r) = s.body
                   /\ s.signature.key \in CurrentKeys(r)]

(* Whatever happens to requests on their way, what verify returns for was      *)
(* signed just so: the method, the target, the octets the application reads    *)
(* and the chain are what the holder of a key of the current state signed.     *)
AcceptedAsSigned == \A r \in Request : accepted[r] > 0 => SignedJustSo[r]

(* A request whose sender did everything right: signed with a current key of a *)
(* 1-of-n state, delivered as signed through an adapter that reads bytes,      *)
(* fresh, authorized, and not presented before.                                *)
Faultless(r) ==
    /\ DoorRefusal[r] = "none"
    /\ SignedJustSo[r]
    /\ KeyState[r].threshold = 1
    /\ AuthorizationRefusal[r] = "none"
    /\ \A other \in Request : accepted[other] > 0 => NonceOf[other] # NonceOf[r]
    /\ FreshAt(r, NowSeconds)

(* What the edge costs to verify, and all there is to do about a request. *)
RepresentsCost(r) ==
    IF RequireRepresents = Absent \/ EdgesFor(r) = {} THEN 0
    ELSE AgentCost(r) + IF Apt(r, EdgeFor(r)) THEN EdgeCost(r, EdgeFor(r)) ELSE 0

Work == [r \in Request |->
    IF DoorRefusal[r] # "none" THEN 0
    ELSE StateCost[r] + ProbeCost(Delivery[r], KeyState[r].keys) + ChainCost(r) + RepresentsCost(r)]

(* What the surface lacks when it asks for a retry. *)
SurfaceFault(r, now) ==
    \/ ~UsableClock(now)
    \/ Full(seen) /\ \A n \in DOMAIN seen : LiveIn(seen, n)
    \/ Work[r] > MaxVerifications

(* 401 and 503 say whose fault it is: a sender who did everything right is     *)
(* never told that its credentials are wrong, however late, crowded or broken  *)
(* the clock of the surface is, and a request is called too much for the       *)
(* surface only when the surface lacks something: its clock, a place for a     *)
(* nonce although every one it holds is live, or the means for the work: the   *)
(* curve checks of the whole request, each log counted as often as verify      *)
(* replays it, come to more than the one allowance of the operation.           *)
BlamesWhomItConcerns ==
    answer # NoAnswer /\ answer.reason # Accepted =>
        IF Status(answer.reason) = 401 THEN ~Faultless(answer.request)
        ELSE SurfaceFault(answer.request, answer.now)

(* A record a lookup of the view never reaches. *)
Shadowed(j) ==
    \E k \in 1 .. j - 1 : /\ Revocations[k].revokes = Revocations[j].revokes
                          /\ Revocations[k].issuer = Revocations[j].issuer

(* The agents the organization has an edge for, signed with a key it once *)
(* held, current, and without a genuine revocation the view would return. *)
Represented ==
    {Relationships[i].subject : i \in {i \in DOMAIN Relationships :
        LET edge == Relationships[i]
        IN  /\ edge.issuer = RequireRepresents /\ edge.object = RequireRepresents
            /\ Genuine(edge) /\ ~edge.expired
            /\ ~\E j \in DOMAIN Revocations : Withdraws(Revocations[j], edge) /\ ~Shadowed(j)}}

(* An agent that is let in for the organization has an edge of the             *)
(* organization's own, signed with a key it once held, current, and with no    *)
(* genuine revocation in hand; except one that an earlier record with the      *)
(* same issuer and digest, genuine or not, keeps the view from returning.      *)
ActsForOrganization ==
    RequireRepresents # Absent =>
        \A r \in Request : accepted[r] > 0 => AgentOf(r) \in Represented
===============================================================================
