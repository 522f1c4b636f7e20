------------------------ MODULE StreamReauthorization ------------------------
(***************************************************************************)
(* reauthorizeStream of packages/verify/src/reauthorize-stream.ts: the     *)
(* authority a long-lived stream was opened under is checked again, with   *)
(* no new request.  A re-check awaits the view once per link of the chain  *)
(* and then, a second time, for the key state of whoever signed; rotations *)
(* and revocations are published between its steps.                        *)
(*                                                                         *)
(* The view is the contract BoundedStaleness states and DiscoveryCache     *)
(* meets: an answer may be old, but lacks nothing that has been there for  *)
(* more than ViewBound.  A key state may also be somebody else's, and the  *)
(* view may fail.  verifyGrantChain is GrantChain's: here it is what it    *)
(* says of one link at a time.  The caller, which re-checks periodically   *)
(* and closes the stream, is not part of the repository: it is what spec   *)
(* 013 (2.4.2) asks of a node.                                             *)
(***************************************************************************)
EXTENDS Integers, Sequences

CONSTANTS
    Participant, Key,
    Records,        \* the subscriptions a stream may be opened under
    Interval,       \* recheckInterval: from the start of a re-check to the next
    ViewBound,      \* how old an answer of the view may be
    Latency,        \* how long a re-check may take
    Allowance,      \* options.budget of one re-check
    MaxPublished,   \* bound: key states published by one participant
    MaxTime         \* bound: the clock

Never == -1

ASSUME StreamAssumption ==
    /\ Interval \in Nat /\ ViewBound \in Nat /\ Latency \in Nat /\ Allowance \in Nat
    /\ Latency <= Interval
    /\ \A r \in Records :
          /\ r.satisfiedKey \in Key
          /\ r.shape \notin {"grant_expired", "grant_revoked"}
          /\ Len(r.chain) \in Nat /\ DOMAIN r.chain = 1 .. Len(r.chain)
          /\ \A i \in DOMAIN r.chain : r.chain[i].expiresAt \in Nat \cup {Never}

VARIABLES
    now,          \* the clock
    keyStates,    \* the key states KeyHolder published, each with the instant it did
    revokedAt,    \* link of the chain -> when its revocation was published, or Never
    record,       \* the StreamAuthRecord captured at open
    stream,       \* "open", or the reason it was closed for
    at,           \* where the re-check in progress is, or "idle"
    link,         \* the link it looks at
    started,      \* when the last re-check started: its options.now
    authorized,   \* history: when the last re-check that authorized started
    remaining,    \* options.budget.remaining
    spent         \* history: verifications the last re-check performed

world == <<keyStates, revokedAt>>
vars == <<now, world, record, stream, at, link, started, authorized, remaining, spent>>

-------------------------------------------------------------------------------
(* Owner mode asks for the subject's key state; delegated mode for the leaf    *)
(* principal's, when that is a participant.                                    *)
KeyIsRechecked == record.mode = "owner" \/ record.principal \in Participant
KeyHolder == IF record.mode = "owner" THEN record.subject ELSE record.principal

(* What getKeyState may answer. *)
NoState == [id |-> "none", keys |-> {}]

IsCurrent(v) == \A w \in v + 1 .. Len(keyStates) : now <= keyStates[w].at + ViewBound

Genuine == {[id |-> KeyHolder, keys |-> keyStates[v].keys] :
                v \in {v \in DOMAIN keyStates : IsCurrent(v)}}

Substituted == {[id |-> q, keys |-> keys] :
                   q \in Participant \ {KeyHolder}, keys \in {Key, Key \ {record.satisfiedKey}}}

(* A fault to be caught: the state of whoever the view names is taken. *)
FaultyBound(state, p) == state

BoundKeyState(state, p) == IF state.id = p THEN state ELSE NoState

(* verdict.reason of the chain, as a close reason of spec 013. *)
CloseReason(verdict) ==
    CASE verdict = "grant_expired" -> "expired"
      [] verdict = "grant_revoked" -> "revoked"
      [] verdict \in {"grant_audience_not_admitted", "grant_audience_required"}
            -> "audience_not_admitted"
      [] OTHER -> "unverifiable"

-------------------------------------------------------------------------------
Init ==
    /\ now = 0
    /\ record \in Records
    /\ keyStates = <<[keys |-> Key, at |-> 0]>>
    /\ revokedAt = [i \in DOMAIN record.chain |-> Never]
    /\ stream = "open"
    /\ at = "idle"
    /\ link = 1
    /\ started = 0
    /\ authorized = 0
    /\ remaining = Allowance
    /\ spent = 0

(* The caller starts the next re-check in time, and a re-check ends in time. *)
Tick ==
    /\ now < MaxTime
    /\ stream = "open"
    /\ now < started + (IF at = "idle" THEN Interval ELSE Latency)
    /\ now' = now + 1
    /\ UNCHANGED <<world, record, stream, at, link, started, authorized, remaining, spent>>

(* What is published after the stream was closed is nobody's concern here. *)
Rotate(keys) ==
    /\ stream = "open"
    /\ KeyIsRechecked
    /\ Len(keyStates) < MaxPublished
    /\ keyStates' = Append(keyStates, [keys |-> keys, at |-> now])
    /\ UNCHANGED <<now, revokedAt, record, stream, at, link, started, authorized,
                   remaining, spent>>

Revoke(i) ==
    /\ stream = "open"
    /\ revokedAt[i] = Never
    /\ revokedAt' = [revokedAt EXCEPT ![i] = now]
    /\ UNCHANGED <<now, keyStates, record, stream, at, link, started, authorized,
                   remaining, spent>>

-------------------------------------------------------------------------------
(* How a re-check goes on or ends.  The caller closes the stream on anything   *)
(* but authorized, and emits nothing after that.                               *)
Terminate(reason) ==
    /\ stream' = reason
    /\ at' = "idle"
    /\ link' = 1
    /\ UNCHANGED authorized

Authorize ==
    /\ at' = "idle"
    /\ link' = 1
    /\ authorized' = started
    /\ UNCHANGED stream

GoTo(place, i) ==
    /\ at' = place
    /\ link' = i
    /\ UNCHANGED <<stream, authorized>>

StartRecheck ==
    /\ stream = "open"
    /\ at = "idle"
    /\ started' = now
    /\ remaining' = Allowance
    /\ spent' = 0
    /\ IF record.mode = "owner" THEN GoTo("key", 1)
       ELSE IF record.chain = << >> THEN Terminate("unverifiable")
       ELSE IF record.shape # "ok" THEN Terminate(CloseReason(record.shape))
       ELSE GoTo("chain", 1)
    /\ UNCHANGED <<now, world, record>>

(* A fault to be caught: the key-state lookup has an allowance of its own. *)
FaultyPay(cost) ==
    /\ remaining' = IF at = "key" THEN Allowance - cost ELSE remaining - cost
    /\ spent' = spent + cost

Pay(cost) ==
    /\ remaining' = remaining - cost
    /\ spent' = spent + cost

(* A step of the re-check that resolves a key log: one the view remembers      *)
(* costs nothing, a refused one spends what is left.                           *)
Metered(step) ==
    \E cost \in 0 .. 1 :
        IF cost > remaining
        THEN Pay(remaining) /\ Terminate(CloseReason("grant_issuer_key_log_too_expensive"))
        ELSE Pay(cost) /\ step

(* A fault to be caught: that a chain holds is enough. *)
FaultyAfterChain == Authorize

(* The chain verified: it must still be about this stream, and the leaf        *)
(* participant must still hold the key that signed.                            *)
AfterChain ==
    IF record.audience # record.principal THEN Terminate("unverifiable")
    ELSE IF record.chainSubject # record.subject THEN Terminate("subject_drift")
    ELSE IF ~record.covered THEN Terminate("abilities_insufficient")
    ELSE IF record.principal \in Participant THEN GoTo("key", 1)
    ELSE Authorize

Expired(i) == record.chain[i].expiresAt # Never /\ record.chain[i].expiresAt <= started

MayNotice(i) == revokedAt[i] # Never
MayMiss(i) == revokedAt[i] = Never \/ now <= revokedAt[i] + ViewBound

CheckLink ==
    /\ stream = "open"
    /\ at = "chain"
    /\ IF Expired(link)
       THEN Terminate(CloseReason("grant_expired")) /\ UNCHANGED <<remaining, spent>>
       ELSE \/ /\ MayNotice(link)
               /\ Metered(Terminate(CloseReason("grant_revoked")))
            \/ /\ MayMiss(link)
               /\ Metered(IF link < Len(record.chain) THEN GoTo("chain", link + 1)
                          ELSE AfterChain)
    /\ UNCHANGED <<now, world, record, started>>

JudgeKey(state) ==
    IF state = NoState THEN Terminate("unverifiable")
    ELSE IF record.satisfiedKey \notin state.keys THEN Terminate("rotated")
    ELSE Authorize

CheckKey ==
    /\ stream = "open"
    /\ at = "key"
    /\ \E answer \in Genuine \cup Substituted \cup {NoState} :
          Metered(JudgeKey(BoundKeyState(answer, KeyHolder)))
    /\ UNCHANGED <<now, world, record, started>>

(* The view throws, or a key log does not resolve. *)
ViewFails ==
    /\ stream = "open"
    /\ at # "idle"
    /\ Terminate(CloseReason("grant_issuer_key_log_unresolved"))
    /\ UNCHANGED <<now, world, record, started, remaining, spent>>

Next ==
    \/ Tick
    \/ \E keys \in SUBSET Key \ {{}} : Rotate(keys)
    \/ \E i \in DOMAIN record.chain : Revoke(i)
    \/ StartRecheck \/ CheckLink \/ CheckKey \/ ViewFails

Spec == Init /\ [][Next]_vars

-------------------------------------------------------------------------------
(* Everything that would end the stream's authority: a rotation after which    *)
(* the key that signed was never current again, a revocation, an expiry.       *)
Window == Interval + ViewBound + Latency

DroppedSince(w) ==
    \A v \in w .. Len(keyStates) : record.satisfiedKey \notin keyStates[v].keys

(* Spec 013 (2.4.4) adds up how long a stream outlives its authority:          *)
(* recheckInterval + the view's staleness + the latency.  No interleaving of   *)
(* rotations and revocations with the awaits of a re-check, no substituted     *)
(* key state and no failure keeps it open longer; an expiry has no view term.  *)
ClosesWithinWindow ==
    stream = "open" =>
        /\ KeyIsRechecked =>
              \A w \in DOMAIN keyStates :
                 DroppedSince(w) => now <= keyStates[w].at + Window
        /\ record.mode = "delegated" =>
              \A i \in DOMAIN record.chain :
                 /\ revokedAt[i] # Never => now <= revokedAt[i] + Window
                 /\ record.chain[i].expiresAt # Never =>
                       now <= record.chain[i].expiresAt + (Interval + Latency)

(* The client is told why (spec 013, 2.4.6): a reason that names a fact is     *)
(* never said of a stream of which the fact is not true, whatever the view     *)
(* answers of the states published since the stream was opened.  A rotation    *)
(* ends the streams of whoever's key signed, never those of a delegate that    *)
(* signed with a session key.                                                  *)
CloseReasonsAreTrue ==
    /\ stream = "rotated" =>
          /\ KeyIsRechecked
          /\ \E v \in DOMAIN keyStates : record.satisfiedKey \notin keyStates[v].keys
    /\ stream = "revoked" => \E i \in DOMAIN record.chain : revokedAt[i] # Never
    /\ stream = "expired" =>
          \E i \in DOMAIN record.chain :
             record.chain[i].expiresAt # Never /\ record.chain[i].expiresAt <= now
    /\ stream = "audience_not_admitted" =>
          record.shape \in {"grant_audience_not_admitted", "grant_audience_required"}
    /\ stream = "subject_drift" => record.chainSubject # record.subject
    /\ stream = "abilities_insufficient" => ~record.covered

(* What options.budget bounds is one whole re-check: the chain and the key     *)
(* state that follows it spend from the same allowance, and it is never        *)
(* overdrawn.                                                                  *)
OneAllowancePerRecheck == spent + remaining = Allowance /\ remaining >= 0
===============================================================================
