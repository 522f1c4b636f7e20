--------------------- MODULE StreamReauthorizationProofs ---------------------
(***************************************************************************)
(* How long a stream outlives its authority, for every record, key set,    *)
(* interval, staleness and latency: spec 013's                             *)
(* recheckInterval + staleness + latency.                                  *)
(*                                                                         *)
(* The argument: an answer that hides a loss is given within ViewBound of  *)
(* it, so a re-check that authorized after the loss started within         *)
(* ViewBound of it; the next one starts within Interval of that start and  *)
(* ends within Latency of its own, and does not authorize.                 *)
(***************************************************************************)
EXTENDS StreamReauthorization, TLAPS

TypeInv ==
    /\ now \in Nat /\ started \in Nat /\ authorized \in Nat
    /\ record \in Records
    /\ at \in {"idle", "chain", "key"}
    /\ keyStates \in Seq([keys : SUBSET Key, at : Nat])
    /\ DOMAIN revokedAt = DOMAIN record.chain
    /\ \A i \in DOMAIN record.chain : revokedAt[i] \in Nat \cup {Never}
    /\ at = "chain" => record.mode # "owner" /\ link \in DOMAIN record.chain
    /\ at = "key" => KeyIsRechecked

(* A re-check starts and ends in time. *)
TimeInv ==
    stream = "open" =>
        /\ authorized <= started /\ started <= now
        /\ at = "idle" => authorized = started /\ now <= started + Interval
        /\ at # "idle" => started <= authorized + Interval /\ now <= started + Latency

(* A re-check that started at t and passed link i, or the key. *)
LinkPassed(i, t) ==
    /\ revokedAt[i] # Never => t <= revokedAt[i] + ViewBound
    /\ record.chain[i].expiresAt # Never => t <= record.chain[i].expiresAt

KeyPassed(t) ==
    \A w \in DOMAIN keyStates : DroppedSince(w) => t <= keyStates[w].at + ViewBound

(* What the last authorizing re-check passed, and the one in progress so far. *)
PassedInv ==
    stream = "open" =>
        /\ KeyIsRechecked => KeyPassed(authorized)
        /\ record.mode # "owner" =>
              \A i \in DOMAIN record.chain : LinkPassed(i, authorized)
        /\ at = "chain" => \A i \in DOMAIN record.chain : i < link => LinkPassed(i, started)
        /\ at = "key" /\ record.mode # "owner" =>
              \A i \in DOMAIN record.chain : LinkPassed(i, started)

IInv == TypeInv /\ TimeInv /\ PassedInv

-------------------------------------------------------------------------------
LEMMA ConstantsAreNatural ==
    /\ Interval \in Nat /\ ViewBound \in Nat /\ Latency \in Nat /\ Allowance \in Nat
    /\ Latency <= Interval
BY StreamAssumption

LEMMA ChainOfRecord ==
    ASSUME TypeInv
    PROVE  /\ Len(record.chain) \in Nat
           /\ DOMAIN record.chain = 1 .. Len(record.chain)
           /\ \A i \in DOMAIN record.chain : record.chain[i].expiresAt \in Nat \cup {Never}
BY StreamAssumption DEF TypeInv

LEMMA ElementOf ==
    ASSUME NEW S, NEW q \in Seq(S), NEW i \in DOMAIN q
    PROVE  q[i] \in S
<1>1. q \in [1 .. Len(q) -> S]
    OBVIOUS
<1> QED BY <1>1

LEMMA PublicationTime ==
    ASSUME TypeInv, NEW w \in DOMAIN keyStates
    PROVE  keyStates[w].at \in Nat
<1>1. keyStates \in Seq([keys : SUBSET Key, at : Nat])
    BY DEF TypeInv
<1>2. keyStates[w] \in [keys : SUBSET Key, at : Nat]
    BY <1>1, ElementOf
<1> QED BY <1>2

(* A stream that is closed has nothing left to establish but its types. *)
LEMMA ClosedKeepsInv ==
    ASSUME TypeInv', stream' # "open"
    PROVE  IInv'
BY DEF IInv, TimeInv, PassedInv

LEMMA InitEstablishes == Init => IInv
<1> SUFFICES ASSUME Init PROVE IInv
    OBVIOUS
<1>1. TypeInv
  <2>1. keyStates \in Seq([keys : SUBSET Key, at : Nat])
      BY DEF Init
  <2> QED BY <2>1 DEF Init, TypeInv, Never
<1>2. TimeInv
    BY ConstantsAreNatural DEF Init, TimeInv
<1>3. PassedInv
  <2>1. KeyPassed(authorized)
    <3> SUFFICES ASSUME NEW w \in DOMAIN keyStates
                 PROVE  authorized <= keyStates[w].at + ViewBound
        BY DEF KeyPassed
    <3>1. keyStates[w].at \in Nat
        BY <1>1, PublicationTime
    <3> QED BY <3>1, ConstantsAreNatural DEF Init
  <2>2. ASSUME NEW i \in DOMAIN record.chain PROVE LinkPassed(i, authorized)
      BY <1>1, ChainOfRecord DEF Init, LinkPassed
  <2> QED BY <2>1, <2>2 DEF Init, PassedInv
<1> QED BY <1>1, <1>2, <1>3 DEF IInv

-------------------------------------------------------------------------------
(* Time and the world. *)
LEMMA TickKeeps == IInv /\ Tick => IInv'
<1> SUFFICES ASSUME IInv, Tick PROVE IInv'
    OBVIOUS
<1>1. /\ now' = now + 1
      /\ UNCHANGED <<keyStates, revokedAt, record, stream, at, link, started, authorized>>
    BY DEF Tick, world
<1>2. TypeInv'
    BY <1>1 DEF IInv, TypeInv, KeyIsRechecked
<1>3. TimeInv'
    BY <1>1, ConstantsAreNatural DEF IInv, TypeInv, TimeInv, Tick
<1>4. PassedInv'
    BY <1>1 DEF IInv, PassedInv, KeyPassed, LinkPassed, DroppedSince, KeyIsRechecked
<1> QED BY <1>2, <1>3, <1>4 DEF IInv

(* A state that drops the key is published no earlier than any re-check so far *)
(* started; one that lists it again undoes the loss.                           *)
LEMMA RotateKeeps == ASSUME IInv, NEW keys \in SUBSET Key, Rotate(keys) PROVE IInv'
<1> DEFINE new == [keys |-> keys, at |-> now]
<1>1. /\ stream = "open" /\ keyStates' = Append(keyStates, new)
      /\ UNCHANGED <<now, revokedAt, record, stream, at, link, started, authorized>>
    BY DEF Rotate
<1>2. keyStates \in Seq([keys : SUBSET Key, at : Nat]) /\ now \in Nat /\ authorized \in Nat
    BY DEF IInv, TypeInv
<1>3. new \in [keys : SUBSET Key, at : Nat]
    BY <1>2
<1>4. keyStates' \in Seq([keys : SUBSET Key, at : Nat])
    BY <1>1, <1>2, <1>3
<1>5. TypeInv'
    BY <1>1, <1>4 DEF IInv, TypeInv, KeyIsRechecked
<1>6. TimeInv'
    BY <1>1 DEF IInv, TimeInv
<1> HIDE DEF new
<1>7. /\ Len(keyStates) \in Nat
      /\ Len(keyStates') = Len(keyStates) + 1
      /\ DOMAIN keyStates = 1 .. Len(keyStates)
      /\ DOMAIN keyStates' = 1 .. Len(keyStates) + 1
      /\ \A w \in 1 .. Len(keyStates) : keyStates'[w] = keyStates[w]
      /\ keyStates'[Len(keyStates) + 1] = new
    BY <1>1, <1>2, <1>3
<1>8. ASSUME KeyPassed(authorized), authorized <= now
      PROVE  KeyPassed(authorized)'
  <2> SUFFICES ASSUME NEW w \in DOMAIN keyStates', DroppedSince(w)'
               PROVE  authorized <= keyStates'[w].at + ViewBound
      BY <1>1 DEF KeyPassed
  <2>1. CASE w = Len(keyStates) + 1
      BY <2>1, <1>2, <1>7, <1>8, ConstantsAreNatural DEF new
  <2>2. CASE w \in DOMAIN keyStates
    <3>1. DroppedSince(w)
        BY <2>2, <1>1, <1>7 DEF DroppedSince
    <3> QED BY <3>1, <2>2, <1>7, <1>8 DEF KeyPassed
  <2> QED BY <2>1, <2>2, <1>7
<1>9. authorized <= now
    BY <1>1, <1>2 DEF IInv, TimeInv, TypeInv
<1>10. PassedInv'
    BY <1>1, <1>8, <1>9 DEF IInv, PassedInv, LinkPassed, KeyIsRechecked
<1> QED BY <1>5, <1>6, <1>10 DEF IInv

LEMMA RevokeKeeps == ASSUME IInv, NEW j \in DOMAIN record.chain, Revoke(j) PROVE IInv'
<1>1. /\ stream = "open" /\ revokedAt' = [revokedAt EXCEPT ![j] = now]
      /\ UNCHANGED <<now, keyStates, record, stream, at, link, started, authorized>>
    BY DEF Revoke
<1>2. TypeInv'
    BY <1>1 DEF IInv, TypeInv, KeyIsRechecked
<1>3. TimeInv'
    BY <1>1 DEF IInv, TimeInv
<1>4. /\ now \in Nat /\ started \in Nat /\ authorized \in Nat
      /\ authorized <= started /\ started <= now
    BY <1>1 DEF IInv, TypeInv, TimeInv
<1>5. ASSUME NEW i \in DOMAIN record.chain, NEW t \in Nat, t <= now, LinkPassed(i, t)
      PROVE  /\ revokedAt'[i] # Never => t <= revokedAt'[i] + ViewBound
             /\ record.chain[i].expiresAt # Never => t <= record.chain[i].expiresAt
  <2>1. CASE i = j
      BY <2>1, <1>1, <1>4, <1>5, ConstantsAreNatural DEF IInv, TypeInv, LinkPassed
  <2>2. CASE i # j
      BY <2>2, <1>1, <1>5 DEF IInv, TypeInv, LinkPassed
  <2> QED BY <2>1, <2>2
<1>6. PassedInv'
  <2>1. \A i \in DOMAIN record.chain : LinkPassed(i, authorized) => LinkPassed(i, authorized)'
    <3> SUFFICES ASSUME NEW i \in DOMAIN record.chain, LinkPassed(i, authorized)
                 PROVE  LinkPassed(i, authorized)'
        OBVIOUS
    <3>1. authorized <= now
        BY <1>4
    <3> QED BY <3>1, <1>1, <1>4, <1>5 DEF LinkPassed
  <2>2. \A i \in DOMAIN record.chain : LinkPassed(i, started) => LinkPassed(i, started)'
      BY <1>1, <1>4, <1>5 DEF LinkPassed
  <2>3. KeyPassed(authorized) => KeyPassed(authorized)'
      BY <1>1 DEF KeyPassed, DroppedSince
  <2> QED BY <1>1, <2>1, <2>2, <2>3 DEF IInv, PassedInv, KeyIsRechecked
<1> QED BY <1>2, <1>3, <1>6 DEF IInv

-------------------------------------------------------------------------------
(* How a re-check ends. *)
LEMMA ReasonsClose ==
    \A verdict : CloseReason(verdict) # "open"
<1> SUFFICES ASSUME NEW verdict PROVE CloseReason(verdict) # "open"
    OBVIOUS
<1>1. CASE verdict = "grant_expired"
    BY <1>1 DEF CloseReason
<1>2. CASE verdict = "grant_revoked"
    BY <1>2 DEF CloseReason
<1>3. CASE verdict \in {"grant_audience_not_admitted", "grant_audience_required"}
    BY <1>3 DEF CloseReason
<1>4. CASE verdict \notin {"grant_expired", "grant_revoked", "grant_audience_not_admitted",
                           "grant_audience_required"}
    BY <1>4 DEF CloseReason
<1> QED BY <1>1, <1>2, <1>3, <1>4

LEMMA TerminateKeeps ==
    ASSUME IInv, NEW reason, reason # "open", Terminate(reason), started' \in Nat,
           UNCHANGED <<now, world, record>>
    PROVE  IInv'
<1>1. TypeInv'
    BY DEF IInv, TypeInv, Terminate, world, KeyIsRechecked
<1> QED BY <1>1, ClosedKeepsInv DEF Terminate

(* A re-check that passed everything becomes the last one that authorized. *)
LEMMA AuthorizeKeeps ==
    ASSUME IInv, Authorize, UNCHANGED <<now, world, record, started>>,
           stream = "open", at # "idle",
           KeyIsRechecked => KeyPassed(started),
           record.mode # "owner" => \A i \in DOMAIN record.chain : LinkPassed(i, started)
    PROVE  IInv'
<1>1. /\ at' = "idle" /\ authorized' = started /\ stream' = stream
      /\ UNCHANGED <<now, keyStates, revokedAt, record, started>>
    BY DEF Authorize, world
<1>2. TypeInv'
    BY <1>1 DEF IInv, TypeInv
<1>3. TimeInv'
    BY <1>1, ConstantsAreNatural DEF IInv, TypeInv, TimeInv
<1>4. PassedInv'
    BY <1>1 DEF PassedInv, KeyPassed, LinkPassed, DroppedSince, KeyIsRechecked
<1> QED BY <1>2, <1>3, <1>4 DEF IInv

(* A re-check that goes on, at the same place or the next. *)
LEMMA GoOnKeeps ==
    ASSUME IInv, NEW place \in {"chain", "key"}, NEW n, GoTo(place, n),
           UNCHANGED <<now, world, record, started>>,
           stream = "open", at # "idle",
           place = "chain" => record.mode # "owner" /\ n \in DOMAIN record.chain,
           place = "key" => KeyIsRechecked,
           place = "chain" => \A i \in DOMAIN record.chain : i < n => LinkPassed(i, started),
           place = "key" /\ record.mode # "owner" =>
               \A i \in DOMAIN record.chain : LinkPassed(i, started)
    PROVE  IInv'
<1>1. /\ at' = place /\ link' = n /\ at' # "idle"
      /\ UNCHANGED <<now, keyStates, revokedAt, record, started, stream, authorized>>
    BY DEF GoTo, world
<1>2. TypeInv'
    BY <1>1 DEF IInv, TypeInv, KeyIsRechecked
<1>3. TimeInv'
    BY <1>1 DEF IInv, TimeInv
<1>4. PassedInv'
    BY <1>1 DEF IInv, PassedInv, KeyPassed, LinkPassed, DroppedSince, KeyIsRechecked
<1> QED BY <1>2, <1>3, <1>4 DEF IInv

LEMMA StartRecheckKeeps == IInv /\ StartRecheck => IInv'
<1> SUFFICES ASSUME IInv, StartRecheck PROVE IInv'
    OBVIOUS
<1>1. /\ stream = "open" /\ at = "idle" /\ started' = now
      /\ UNCHANGED <<now, keyStates, revokedAt, record>>
      /\ now \in Nat /\ started \in Nat /\ Len(record.chain) \in Nat
      /\ DOMAIN record.chain = 1 .. Len(record.chain)
    BY ChainOfRecord DEF StartRecheck, IInv, TypeInv, world
<1>2. ASSUME NEW reason, reason # "open", Terminate(reason) PROVE IInv'
    BY <1>1, <1>2, TerminateKeeps DEF world
<1>3. ASSUME NEW place \in {"chain", "key"}, GoTo(place, 1),
             place = "chain" => record.mode # "owner" /\ record.chain # << >>,
             place = "key" => record.mode = "owner"
      PROVE  IInv'
  <2>1. /\ at' = place /\ link' = 1 /\ at' # "idle"
        /\ UNCHANGED <<stream, authorized>>
      BY <1>3 DEF GoTo
  <2>2. place = "chain" => 1 \in DOMAIN record.chain
    <3>1. record.chain # << >> => Len(record.chain) # 0
        BY StreamAssumption DEF IInv, TypeInv
    <3> QED BY <3>1, <1>1, <1>3
  <2>3. TypeInv'
      BY <2>1, <2>2, <1>1, <1>3 DEF IInv, TypeInv, KeyIsRechecked
  <2>4. TimeInv'
      BY <2>1, <1>1, ConstantsAreNatural DEF IInv, TypeInv, TimeInv
  <2>5. PassedInv'
      BY <2>1, <1>1, <1>3 DEF IInv, PassedInv, KeyPassed, LinkPassed, DroppedSince, KeyIsRechecked
  <2> QED BY <2>3, <2>4, <2>5 DEF IInv
<1> QED BY <1>2, <1>3, ReasonsClose DEF StartRecheck

(* What Metered does: the re-check ends, or the step is taken. *)
LEMMA MeteredEndsOrSteps ==
    ASSUME NEW step \in BOOLEAN, Metered(step)
    PROVE  step \/ Terminate(CloseReason("grant_issuer_key_log_too_expensive"))
BY DEF Metered

(* A link that is neither expired nor noticed to be revoked was passed. *)
LEMMA MissedInTime ==
    ASSUME IInv, stream = "open", at = "chain", ~Expired(link), MayMiss(link)
    PROVE  \A i \in DOMAIN record.chain : i < link + 1 => LinkPassed(i, started)
<1>1. /\ started \in Nat /\ now \in Nat /\ started <= now
      /\ Len(record.chain) \in Nat /\ DOMAIN record.chain = 1 .. Len(record.chain)
      /\ link \in DOMAIN record.chain
      /\ \A i \in DOMAIN record.chain : i < link => LinkPassed(i, started)
    BY ChainOfRecord DEF IInv, TypeInv, TimeInv, PassedInv
<1>2. revokedAt[link] \in Nat \cup {Never} /\ record.chain[link].expiresAt \in Nat \cup {Never}
    BY <1>1, ChainOfRecord DEF IInv, TypeInv
<1>3. LinkPassed(link, started)
    BY <1>1, <1>2, ConstantsAreNatural DEF LinkPassed, Expired, MayMiss
<1>4. \A i \in DOMAIN record.chain : i < link + 1 => i < link \/ i = link
    BY <1>1
<1> QED BY <1>1, <1>3, <1>4

LEMMA AfterChainKeeps ==
    ASSUME IInv, AfterChain, UNCHANGED <<now, world, record, started>>,
           stream = "open", at = "chain", record.mode # "owner",
           \A i \in DOMAIN record.chain : LinkPassed(i, started)
    PROVE  IInv'
<1>1. started' \in Nat
    BY DEF IInv, TypeInv
<1>2. ASSUME NEW reason, reason # "open", Terminate(reason) PROVE IInv'
    BY <1>1, <1>2, TerminateKeeps
<1>3. CASE GoTo("key", 1) /\ record.principal \in Participant
    BY <1>3, GoOnKeeps DEF KeyIsRechecked
<1>4. CASE Authorize /\ record.principal \notin Participant
    BY <1>4, AuthorizeKeeps DEF KeyIsRechecked
<1> QED BY <1>2, <1>3, <1>4 DEF AfterChain

LEMMA CheckLinkKeeps == IInv /\ CheckLink => IInv'
<1> SUFFICES ASSUME IInv, CheckLink PROVE IInv'
    OBVIOUS
<1>1. /\ stream = "open" /\ at = "chain" /\ record.mode # "owner"
      /\ UNCHANGED <<now, world, record, started>> /\ started' \in Nat
      /\ link \in DOMAIN record.chain
    BY DEF CheckLink, IInv, TypeInv
<1>2. ASSUME NEW reason, reason # "open", Terminate(reason) PROVE IInv'
    BY <1>1, <1>2, TerminateKeeps
<1>3. ASSUME ~Expired(link), MayMiss(link), link < Len(record.chain), GoTo("chain", link + 1)
      PROVE  IInv'
  <2>1. link + 1 \in DOMAIN record.chain
      BY <1>1, <1>3, ChainOfRecord DEF IInv
  <2>2. \A i \in DOMAIN record.chain : i < link + 1 => LinkPassed(i, started)
      BY <1>1, <1>3, MissedInTime
  <2> QED BY <1>1, <1>3, <2>1, <2>2, GoOnKeeps
<1>4. ASSUME ~Expired(link), MayMiss(link), ~(link < Len(record.chain)), AfterChain
      PROVE  IInv'
  <2>1. \A i \in DOMAIN record.chain : i < link + 1
      BY <1>1, <1>4, ChainOfRecord DEF IInv
  <2>2. \A i \in DOMAIN record.chain : LinkPassed(i, started)
      BY <2>1, <1>1, <1>4, MissedInTime
  <2> QED BY <1>1, <1>4, <2>2, AfterChainKeeps
<1>5. CASE Expired(link)
    BY <1>2, <1>5, ReasonsClose DEF CheckLink
<1>6. CASE ~Expired(link)
    BY <1>2, <1>3, <1>4, <1>6, ReasonsClose DEF CheckLink, Metered
<1> QED BY <1>5, <1>6

-------------------------------------------------------------------------------
(* A state that lists the key is current, so whatever dropped the key for good *)
(* came after it and is at most ViewBound old.                                 *)
LEMMA SeenInTime ==
    ASSUME IInv, stream = "open", NEW v \in DOMAIN keyStates, IsCurrent(v),
           record.satisfiedKey \in keyStates[v].keys
    PROVE  KeyPassed(started)
<1> SUFFICES ASSUME NEW w \in DOMAIN keyStates, DroppedSince(w)
             PROVE  started <= keyStates[w].at + ViewBound
    BY DEF KeyPassed
<1>1. /\ Len(keyStates) \in Nat /\ DOMAIN keyStates = 1 .. Len(keyStates)
      /\ started \in Nat /\ now \in Nat /\ started <= now
    BY DEF IInv, TypeInv, TimeInv
<1>2. w \in v + 1 .. Len(keyStates)
  <2>1. v \notin w .. Len(keyStates)
      BY DEF DroppedSince
  <2> QED BY <2>1, <1>1
<1>3. now <= keyStates[w].at + ViewBound
    BY <1>2 DEF IsCurrent
<1>4. keyStates[w].at \in Nat
    BY PublicationTime DEF IInv
<1> QED BY <1>1, <1>3, <1>4, ConstantsAreNatural

(* A state that is not the holder's own is no state. *)
LEMMA OnlyGenuineStatesCount ==
    ASSUME NEW answer \in Genuine \cup Substituted \cup {NoState},
           BoundKeyState(answer, KeyHolder) # NoState
    PROVE  /\ answer \in Genuine
           /\ BoundKeyState(answer, KeyHolder) = answer
BY DEF BoundKeyState, Substituted, NoState

LEMMA CheckKeyKeeps == IInv /\ CheckKey => IInv'
<1> SUFFICES ASSUME IInv, CheckKey PROVE IInv'
    OBVIOUS
<1>1. /\ stream = "open" /\ at = "key"
      /\ UNCHANGED <<now, world, record, started>> /\ started' \in Nat
    BY DEF CheckKey, IInv, TypeInv
<1>2. ASSUME NEW reason, reason # "open", Terminate(reason) PROVE IInv'
    BY <1>1, <1>2, TerminateKeeps
<1>3. PICK answer \in Genuine \cup Substituted \cup {NoState} :
          Metered(JudgeKey(BoundKeyState(answer, KeyHolder)))
    BY DEF CheckKey
<1> DEFINE state == BoundKeyState(answer, KeyHolder)
<1>4. ASSUME state # NoState, record.satisfiedKey \in state.keys, Authorize
      PROVE  IInv'
  <2>1. answer \in Genuine /\ state = answer
      BY <1>4, OnlyGenuineStatesCount
  <2>2. PICK v \in DOMAIN keyStates : IsCurrent(v) /\ answer.keys = keyStates[v].keys
      BY <2>1 DEF Genuine
  <2>3. KeyPassed(started)
      BY <1>1, <1>4, <2>1, <2>2, SeenInTime
  <2> QED BY <1>1, <1>4, <2>3, AuthorizeKeeps DEF IInv, PassedInv
<1> HIDE DEF state
<1>5. Metered(JudgeKey(state))
    BY <1>3 DEF state
<1> QED BY <1>2, <1>4, <1>5, ReasonsClose DEF Metered, JudgeKey

LEMMA ViewFailsKeeps == IInv /\ ViewFails => IInv'
<1> SUFFICES ASSUME IInv, ViewFails PROVE IInv'
    OBVIOUS
<1>1. started' \in Nat
    BY DEF ViewFails, IInv, TypeInv
<1> QED BY <1>1, ReasonsClose, TerminateKeeps DEF ViewFails

-------------------------------------------------------------------------------
LEMMA NextKeeps == IInv /\ [Next]_vars => IInv'
<1> SUFFICES ASSUME IInv, [Next]_vars PROVE IInv'
    OBVIOUS
<1>1. CASE UNCHANGED vars
  <2>1. UNCHANGED <<now, keyStates, revokedAt, record, stream, at, link, started, authorized>>
      BY <1>1 DEF vars, world
  <2> QED BY <2>1 DEF IInv, TypeInv, TimeInv, PassedInv, KeyPassed, LinkPassed, DroppedSince,
                      KeyIsRechecked
<1>2. CASE Next
    BY <1>2, TickKeeps, RotateKeeps, RevokeKeeps, StartRecheckKeeps, CheckLinkKeeps,
       CheckKeyKeeps, ViewFailsKeeps DEF Next
<1> QED BY <1>1, <1>2

LEMMA InvariantClosesInTime == IInv => ClosesWithinWindow
<1> SUFFICES ASSUME IInv, stream = "open"
             PROVE  /\ KeyIsRechecked =>
                          \A w \in DOMAIN keyStates :
                             DroppedSince(w) => now <= keyStates[w].at + Window
                    /\ record.mode = "delegated" =>
                          \A i \in DOMAIN record.chain :
                             /\ revokedAt[i] # Never => now <= revokedAt[i] + Window
                             /\ record.chain[i].expiresAt # Never =>
                                   now <= record.chain[i].expiresAt + (Interval + Latency)
    BY DEF ClosesWithinWindow
<1>1. /\ now \in Nat /\ authorized \in Nat /\ started \in Nat
      /\ now <= authorized + (Interval + Latency)
    BY ConstantsAreNatural DEF IInv, TypeInv, TimeInv
<1>2. ASSUME NEW t \in Nat, authorized <= t + ViewBound
      PROVE  now <= t + Window
    BY <1>1, <1>2, ConstantsAreNatural DEF Window
<1>3. ASSUME KeyIsRechecked, NEW w \in DOMAIN keyStates, DroppedSince(w)
      PROVE  now <= keyStates[w].at + Window
  <2>1. authorized <= keyStates[w].at + ViewBound
      BY <1>3 DEF IInv, PassedInv, KeyPassed
  <2>2. keyStates[w].at \in Nat
      BY PublicationTime DEF IInv
  <2> QED BY <2>1, <2>2, <1>2
<1>4. ASSUME record.mode = "delegated", NEW i \in DOMAIN record.chain
      PROVE  /\ revokedAt[i] # Never => now <= revokedAt[i] + Window
             /\ record.chain[i].expiresAt # Never =>
                   now <= record.chain[i].expiresAt + (Interval + Latency)
  <2>1. LinkPassed(i, authorized)
      BY <1>4 DEF IInv, PassedInv
  <2>2. /\ revokedAt[i] \in Nat \cup {Never}
        /\ record.chain[i].expiresAt \in Nat \cup {Never}
      BY ChainOfRecord DEF IInv, TypeInv
  <2>3. revokedAt[i] # Never => now <= revokedAt[i] + Window
      BY <2>1, <2>2, <1>2 DEF LinkPassed
  <2>4. record.chain[i].expiresAt # Never =>
            now <= record.chain[i].expiresAt + (Interval + Latency)
      BY <2>1, <2>2, <1>1, ConstantsAreNatural DEF LinkPassed
  <2> QED BY <2>3, <2>4
<1> QED BY <1>3, <1>4

(* A stream is not held open past its authority for longer than one interval,  *)
(* the staleness of the view and the latency of a re-check, whatever the       *)
(* chain, the rotations and the view's failures (reauthorizeStream and spec    *)
(* 013, 2.4.4).                                                                *)
THEOREM StreamClosesWithinWindow == Spec => []ClosesWithinWindow
<1> QED
    BY InitEstablishes, NextKeeps, InvariantClosesInTime, PTL DEF Spec

-------------------------------------------------------------------------------
(* The reasons.  An open stream has none, and a closed one takes no step: what *)
(* is left are the steps that terminate.                                       *)
LEMMA ReasonOfVerdict ==
    /\ CloseReason("grant_expired") = "expired"
    /\ CloseReason("grant_revoked") = "revoked"
    /\ CloseReason("grant_issuer_key_log_too_expensive") = "unverifiable"
    /\ CloseReason("grant_issuer_key_log_unresolved") = "unverifiable"
    /\ \A verdict :
          CloseReason(verdict) \in {"audience_not_admitted", "revoked", "expired"} =>
             \/ verdict \in {"grant_audience_not_admitted", "grant_audience_required"}
             \/ verdict \in {"grant_revoked", "grant_expired"}
<1>1. CloseReason("grant_expired") = "expired" /\ CloseReason("grant_revoked") = "revoked"
    BY DEF CloseReason
<1>2. /\ CloseReason("grant_issuer_key_log_too_expensive") = "unverifiable"
      /\ CloseReason("grant_issuer_key_log_unresolved") = "unverifiable"
    BY DEF CloseReason
<1>3. ASSUME NEW verdict,
             verdict \notin {"grant_audience_not_admitted", "grant_audience_required",
                            "grant_revoked", "grant_expired"}
      PROVE  CloseReason(verdict) = "unverifiable"
    BY <1>3 DEF CloseReason
<1> QED BY <1>1, <1>2, <1>3

(* The reasons of which nothing has to be true. *)
LEMMA SilentReason ==
    ASSUME stream' \in {"open", "unverifiable"}
    PROVE  CloseReasonsAreTrue'
BY DEF CloseReasonsAreTrue

LEMMA CheckLinkSaysWhy ==
    ASSUME IInv, CheckLink
    PROVE  CloseReasonsAreTrue'
<1>1. /\ UNCHANGED <<now, keyStates, revokedAt, record, started>>
      /\ stream = "open" /\ at = "chain" /\ link \in DOMAIN record.chain
      /\ started \in Nat /\ now \in Nat /\ started <= now
    BY DEF CheckLink, world, IInv, TypeInv, TimeInv
<1>2. CASE stream' = "expired" /\ Expired(link)
  <2>1. record.chain[link].expiresAt \in Nat
      BY <1>1, <1>2, ChainOfRecord DEF Expired, IInv
  <2>2. record.chain[link].expiresAt # Never /\ record.chain[link].expiresAt <= now
      BY <1>1, <1>2, <2>1 DEF Expired
  <2> QED BY <1>1, <1>2, <2>2 DEF CloseReasonsAreTrue
<1>3. CASE stream' = "revoked" /\ MayNotice(link)
    BY <1>1, <1>3 DEF CloseReasonsAreTrue, MayNotice
<1>4. CASE stream' = "subject_drift" /\ record.chainSubject # record.subject
    BY <1>1, <1>4 DEF CloseReasonsAreTrue
<1>5. CASE stream' = "abilities_insufficient" /\ ~record.covered
    BY <1>1, <1>5 DEF CloseReasonsAreTrue
<1>6. ASSUME AfterChain
      PROVE  \/ stream' \in {"open", "unverifiable"}
             \/ stream' = "subject_drift" /\ record.chainSubject # record.subject
             \/ stream' = "abilities_insufficient" /\ ~record.covered
    BY <1>1, <1>6 DEF AfterChain, Terminate, Authorize, GoTo
<1>7. ASSUME NEW step \in BOOLEAN, Metered(step)
      PROVE  step \/ stream' = "unverifiable"
    BY <1>7, ReasonOfVerdict DEF Metered, Terminate
<1>8. \/ Expired(link) /\ Terminate("expired")
      \/ MayNotice(link) /\ Terminate("revoked")
      \/ stream' = "unverifiable"
      \/ GoTo("chain", link + 1)
      \/ AfterChain
    BY <1>7, ReasonOfVerdict DEF CheckLink, Metered, Terminate
<1> QED BY <1>1, <1>2, <1>3, <1>4, <1>5, <1>6, <1>8, SilentReason DEF Terminate, GoTo

LEMMA CheckKeySaysWhy ==
    ASSUME IInv, CheckKey
    PROVE  CloseReasonsAreTrue'
<1>1. /\ UNCHANGED <<now, keyStates, revokedAt, record, started>>
      /\ stream = "open" /\ KeyIsRechecked
    BY DEF CheckKey, world, IInv, TypeInv
<1>2. PICK answer \in Genuine \cup Substituted \cup {NoState} :
          Metered(JudgeKey(BoundKeyState(answer, KeyHolder)))
    BY DEF CheckKey
<1> DEFINE state == BoundKeyState(answer, KeyHolder)
<1>3. CASE stream' \in {"open", "unverifiable"}
    BY <1>3, SilentReason
<1>4. ASSUME state # NoState, record.satisfiedKey \notin state.keys, stream' = "rotated"
      PROVE  CloseReasonsAreTrue'
  <2>1. answer \in Genuine /\ state = answer
      BY <1>4, OnlyGenuineStatesCount
  <2>2. PICK v \in DOMAIN keyStates : answer.keys = keyStates[v].keys
      BY <2>1 DEF Genuine
  <2> QED BY <1>1, <1>4, <2>1, <2>2 DEF CloseReasonsAreTrue, KeyIsRechecked
<1> HIDE DEF state
<1>5. Metered(JudgeKey(state))
    BY <1>2 DEF state
<1>6. \/ stream' \in {"open", "unverifiable"}
      \/ state # NoState /\ record.satisfiedKey \notin state.keys /\ stream' = "rotated"
    BY <1>1, <1>5, ReasonOfVerdict DEF Metered, JudgeKey, Terminate, Authorize
<1> QED BY <1>3, <1>4, <1>6

(* A static refusal is never "expired", "revoked" or one of the others that    *)
(* name a fact of the world.                                                   *)
LEMMA ReasonOfShape ==
    ASSUME TypeInv
    PROVE  /\ CloseReason(record.shape) \in {"audience_not_admitted", "unverifiable"}
           /\ CloseReason(record.shape) = "audience_not_admitted" =>
                 record.shape \in {"grant_audience_not_admitted", "grant_audience_required"}
<1>1. record.shape \notin {"grant_expired", "grant_revoked"}
    BY StreamAssumption DEF TypeInv
<1> QED BY <1>1 DEF CloseReason

LEMMA ReasonsKeep == IInv /\ CloseReasonsAreTrue /\ [Next]_vars => CloseReasonsAreTrue'
<1> SUFFICES ASSUME IInv, CloseReasonsAreTrue, [Next]_vars PROVE CloseReasonsAreTrue'
    OBVIOUS
<1>1. CASE UNCHANGED vars
    BY <1>1 DEF vars, world, CloseReasonsAreTrue, KeyIsRechecked
<1>2. CASE StartRecheck
  <2>1. CASE stream' \in {"open", "unverifiable"}
      BY <2>1, SilentReason
  <2>2. CASE stream' = CloseReason(record.shape)
    <3>1. UNCHANGED <<now, keyStates, revokedAt, record>>
        BY <1>2 DEF StartRecheck, world
    <3>2. stream' = "audience_not_admitted" =>
              record.shape \in {"grant_audience_not_admitted", "grant_audience_required"}
        BY <2>2, ReasonOfShape DEF IInv
    <3>3. stream' \in {"audience_not_admitted", "unverifiable"}
        BY <2>2, ReasonOfShape DEF IInv
    <3> QED BY <3>1, <3>2, <3>3 DEF CloseReasonsAreTrue
  <2> QED BY <1>2, <2>1, <2>2 DEF StartRecheck, Terminate, GoTo
<1>3. CASE CheckLink \/ CheckKey
    BY <1>3, CheckLinkSaysWhy, CheckKeySaysWhy
<1>4. CASE ViewFails
    BY <1>4, ReasonOfVerdict, SilentReason DEF ViewFails, Terminate
<1>5. CASE \/ Tick
           \/ \E keys \in SUBSET Key \ {{}} : Rotate(keys)
           \/ \E i \in DOMAIN record.chain : Revoke(i)
    BY <1>5, SilentReason DEF Tick, Rotate, Revoke
<1> QED BY <1>1, <1>2, <1>3, <1>4, <1>5 DEF Next

(* The reason a client is given is true of its stream: "rotated" only of a key *)
(* that a genuine state of its holder dropped, never on a substituted one.     *)
THEOREM CloseReasonsTrue == Spec => []CloseReasonsAreTrue
<1>1. Init => CloseReasonsAreTrue
    BY DEF Init, CloseReasonsAreTrue
<1> QED
    BY <1>1, InitEstablishes, NextKeeps, ReasonsKeep, PTL DEF Spec
-------------------------------------------------------------------------------
(* The allowance.  The sum alone is not kept: a re-check that has more to pay  *)
(* than is left pays what is left, so both meters must be known to be naturals.*)
BudgetInv == spent \in Nat /\ remaining \in Nat /\ spent + remaining = Allowance

(* A step that resolves a key log takes from remaining what it adds to spent,  *)
(* and never more than there is.                                               *)
LEMMA MeteredKeepsBudget ==
    ASSUME BudgetInv, NEW step \in BOOLEAN, Metered(step)
    PROVE  BudgetInv'
<1>1. PICK cost \in 0 .. 1 : Pay(IF cost > remaining THEN remaining ELSE cost)
    BY DEF Metered
<1>2. PICK paid \in 0 .. remaining : Pay(paid)
    BY <1>1 DEF BudgetInv
<1> QED BY <1>2, ConstantsAreNatural DEF BudgetInv, Pay

LEMMA CheckLinkKeepsBudget == BudgetInv /\ CheckLink => BudgetInv'
<1> SUFFICES ASSUME BudgetInv, CheckLink PROVE BudgetInv'
    OBVIOUS
<1>1. CASE UNCHANGED <<remaining, spent>>
    BY <1>1 DEF BudgetInv
<1>2. ASSUME NEW step \in BOOLEAN, Metered(step) PROVE BudgetInv'
    BY <1>2, MeteredKeepsBudget
<1>3. \/ UNCHANGED <<remaining, spent>>
      \/ Metered(Terminate(CloseReason("grant_revoked")))
      \/ Metered(IF link < Len(record.chain) THEN GoTo("chain", link + 1) ELSE AfterChain)
    BY DEF CheckLink
<1>4. CASE Metered(Terminate(CloseReason("grant_revoked")))
  <2>1. Terminate(CloseReason("grant_revoked")) \in BOOLEAN
      BY DEF Terminate
  <2> QED BY <1>2, <1>4, <2>1
<1>5. CASE Metered(IF link < Len(record.chain) THEN GoTo("chain", link + 1) ELSE AfterChain)
  <2>1. (IF link < Len(record.chain) THEN GoTo("chain", link + 1) ELSE AfterChain) \in BOOLEAN
      BY DEF GoTo, AfterChain, Terminate, Authorize
  <2> QED BY <1>2, <1>5, <2>1
<1> QED BY <1>1, <1>3, <1>4, <1>5

LEMMA CheckKeyKeepsBudget == BudgetInv /\ CheckKey => BudgetInv'
<1> SUFFICES ASSUME BudgetInv, CheckKey PROVE BudgetInv'
    OBVIOUS
<1>1. PICK state : Metered(JudgeKey(state))
    BY DEF CheckKey
<1>2. JudgeKey(state) \in BOOLEAN
    BY DEF JudgeKey, Terminate, Authorize
<1> QED BY <1>1, <1>2, MeteredKeepsBudget

LEMMA StepKeepsBudget == BudgetInv /\ [Next]_vars => BudgetInv'
<1> SUFFICES ASSUME BudgetInv, [Next]_vars PROVE BudgetInv'
    OBVIOUS
<1>1. CASE StartRecheck
    BY <1>1, ConstantsAreNatural DEF StartRecheck, BudgetInv
<1>2. CASE CheckLink \/ CheckKey
    BY <1>2, CheckLinkKeepsBudget, CheckKeyKeepsBudget
<1>3. CASE UNCHANGED <<remaining, spent>>
    BY <1>3 DEF BudgetInv
<1> QED BY <1>1, <1>2, <1>3 DEF Next, Tick, Rotate, Revoke, ViewFails, vars

(* options.budget bounds a whole re-check: the chain and the key state that    *)
(* follows it spend from one allowance, for every length of the chain and      *)
(* wherever the re-check ends.                                                 *)
THEOREM RecheckHasOneAllowance == Spec => []OneAllowancePerRecheck
<1>1. Init => BudgetInv
    BY ConstantsAreNatural DEF Init, BudgetInv
<1>2. BudgetInv => OneAllowancePerRecheck
    BY DEF BudgetInv, OneAllowancePerRecheck
<1> QED BY <1>1, <1>2, StepKeepsBudget, PTL DEF Spec
===============================================================================
