------------------------ MODULE DiscoveryLookupsProofs ------------------------
(***************************************************************************)
(* The lookups of a discovery view, for any number of lookups, slots and    *)
(* places in the queue, any participants, logs and allowances, and any      *)
(* number of issuers in pieces of any size.                                 *)
(***************************************************************************)
EXTENDS DiscoveryLookups, FiniteSetTheorems, SequenceTheorems, WellFoundedInduction, TLAPS

-------------------------------------------------------------------------------
(* What is in a sequence once is gone when its first occurrence is taken out.  *)
LEMMA RemoveFirstDeletes ==
  ASSUME NEW S, NEW s \in Seq(S), IsInjective(s), NEW e
  PROVE  /\ RemoveFirst(s, e) \in Seq(S)
         /\ IsInjective(RemoveFirst(s, e))
         /\ ToSet(RemoveFirst(s, e)) = ToSet(s) \ {e}
         /\ Len(RemoveFirst(s, e)) = IF e \in ToSet(s) THEN Len(s) - 1 ELSE Len(s)
<1> DEFINE at == {i \in 1 .. Len(s) : s[i] = e}
<1> DEFINE place == Min(at)
<1>1. CASE at = {}
  <2>1. RemoveFirst(s, e) = s
    BY <1>1 DEF RemoveFirst
  <2> QED BY <1>1, <2>1 DEF ToSet
<1>2. CASE at # {}
  <2>1. place \in at
    <3>1. at \subseteq Nat /\ at # {}
      BY <1>2
    <3> HIDE DEF at
    <3>2. PICK m \in at : \A j \in at : ~(<<j, m>> \in OpToRel(<, Nat))
      BY <3>1, WFMin, NatLessThanWellFounded
    <3>3. \A j \in at : ~(j < m)
      BY <3>1, <3>2 DEF OpToRel
    <3>4. \A j \in at : m <= j
      BY <3>1, <3>3
    <3> QED BY <3>2, <3>4 DEF Min
  <2>2. RemoveFirst(s, e) = SubSeq(s, 1, place - 1) \o SubSeq(s, place + 1, Len(s))
    BY <1>2 DEF RemoveFirst, RemoveAt, SelectInSeq
  <2> HIDE DEF place
  <2> DEFINE r == RemoveFirst(s, e)
  <2>3. /\ r \in Seq(S) /\ Len(r) = Len(s) - 1
        /\ \A i \in 1 .. Len(r) : r[i] = IF i < place THEN s[i] ELSE s[i + 1]
    <3> DEFINE front == SubSeq(s, 1, place - 1)
               back == SubSeq(s, place + 1, Len(s))
    <3>1. /\ front \in Seq(S) /\ Len(front) = place - 1
          /\ \A i \in 1 .. place - 1 : front[i] = s[i]
      BY <2>1
    <3>2. /\ back \in Seq(S) /\ Len(back) = Len(s) - place
          /\ \A i \in 1 .. Len(s) - place : back[i] = s[i + place]
      BY <2>1
    <3>3. r = front \o back
      BY <2>2
    <3>4. place \in 1 .. Len(s) /\ Len(s) \in Nat
      BY <2>1
    <3> HIDE DEF front, back, r, at
    <3>5. r \in Seq(S) /\ Len(r) = Len(s) - 1
      <4>1. r \in Seq(S) /\ Len(r) = Len(front) + Len(back)
        BY ONLY <3>1, <3>2, <3>3, ConcatProperties
      <4> QED BY ONLY <3>1, <3>2, <3>4, <4>1
    <3>6. ASSUME NEW i \in 1 .. Len(r), i < place
          PROVE  r[i] = s[i]
      BY <3>1, <3>2, <3>3, <3>4, <3>5, <3>6
    <3>7. ASSUME NEW i \in 1 .. Len(r), ~(i < place)
          PROVE  r[i] = s[i + 1]
      <4>1. r[i] = back[i - (place - 1)] /\ i - (place - 1) \in 1 .. Len(s) - place
        BY <3>1, <3>2, <3>3, <3>4, <3>5, <3>7
      <4>2. i - (place - 1) + place = i + 1
        BY <3>4
      <4> QED BY <3>2, <4>1, <4>2
    <3> QED BY <3>5, <3>6, <3>7
  <2> HIDE DEF r
  <2>4. IsInjective(r)
    BY <2>1, <2>3 DEF IsInjective
  <2>5. ToSet(r) \subseteq ToSet(s) \ {e}
    BY <2>1, <2>3 DEF ToSet, IsInjective
  <2>6. ASSUME NEW x \in ToSet(s) \ {e}
        PROVE  x \in ToSet(r)
    <3>1. PICK i \in 1 .. Len(s) : s[i] = x
      BY DEF ToSet
    <3>2. CASE i < place
      BY <2>1, <2>3, <3>1, <3>2 DEF ToSet
    <3>3. CASE i > place
      <4>1. i - 1 \in 1 .. Len(r) /\ r[i - 1] = s[i]
        BY <2>1, <2>3, <3>3
      <4> QED BY <2>3, <3>1, <4>1 DEF ToSet
    <3> QED BY <2>1, <3>1, <3>2, <3>3
  <2>7. e \in ToSet(s)
    BY <1>2 DEF ToSet
  <2> QED BY <2>3, <2>4, <2>5, <2>6, <2>7 DEF r
<1> QED BY <1>1, <1>2

(* Taking the first entry of a queue, and joining its end. *)
LEMMA HeadLeaves ==
  ASSUME NEW S, NEW s \in Seq(S), IsInjective(s), s # << >>
  PROVE  /\ Head(s) \in ToSet(s)
         /\ Tail(s) \in Seq(S) /\ IsInjective(Tail(s)) /\ Len(Tail(s)) = Len(s) - 1
         /\ ToSet(Tail(s)) = ToSet(s) \ {Head(s)}
<1>1. /\ Head(s) = s[1] /\ Tail(s) \in Seq(S) /\ Len(Tail(s)) = Len(s) - 1 /\ Len(s) \in Nat \ {0}
      /\ \A i \in 1 .. Len(Tail(s)) : Tail(s)[i] = s[i + 1]
  BY HeadTailProperties
<1> DEFINE t == Tail(s)
<1>2. DOMAIN s = 1 .. Len(s) /\ DOMAIN t = 1 .. Len(s) - 1
  BY <1>1
<1> HIDE DEF t
<1>3. IsInjective(t)
  BY <1>1, <1>2 DEF IsInjective, t
<1>4. ToSet(t) \subseteq ToSet(s) \ {s[1]}
  BY <1>1, <1>2 DEF ToSet, IsInjective, t
<1>5. ASSUME NEW x \in ToSet(s) \ {s[1]}
      PROVE  x \in ToSet(t)
  <2>1. PICK i \in 2 .. Len(s) : s[i] = x
    BY <1>1, <1>2 DEF ToSet
  <2>2. i - 1 \in DOMAIN t /\ t[i - 1] = x
    BY <1>1, <1>2, <2>1 DEF t
  <2> QED BY <2>2 DEF ToSet
<1>6. s[1] \in ToSet(s)
  BY <1>1, <1>2 DEF ToSet
<1> QED BY <1>1, <1>3, <1>4, <1>5, <1>6 DEF t

LEMMA AppendJoins ==
  ASSUME NEW S, NEW s \in Seq(S), IsInjective(s), NEW e \in S, e \notin ToSet(s)
  PROVE  /\ Append(s, e) \in Seq(S) /\ IsInjective(Append(s, e))
         /\ Len(Append(s, e)) = Len(s) + 1
         /\ ToSet(Append(s, e)) = ToSet(s) \cup {e}
<1> DEFINE t == Append(s, e)
<1>1. /\ t \in Seq(S) /\ Len(t) = Len(s) + 1 /\ Len(s) \in Nat
      /\ \A i \in 1 .. Len(s) : t[i] = s[i]
      /\ t[Len(s) + 1] = e
  BY AppendProperties
<1> HIDE DEF t
<1>2. DOMAIN s = 1 .. Len(s) /\ DOMAIN t = 1 .. Len(s) + 1
  BY <1>1
<1>3. \A i \in 1 .. Len(s) : s[i] # e
  BY <1>2 DEF ToSet
<1>4. IsInjective(t)
  BY <1>1, <1>2, <1>3 DEF IsInjective
<1>5. ToSet(t) = ToSet(s) \cup {e}
  <2>1. ToSet(t) = {t[i] : i \in 1 .. Len(s)} \cup {t[Len(s) + 1]}
    BY <1>1, <1>2 DEF ToSet
  <2>2. {t[i] : i \in 1 .. Len(s)} = ToSet(s)
    BY <1>1, <1>2 DEF ToSet
  <2> QED BY <1>1, <2>1, <2>2
<1> QED BY <1>1, <1>4, <1>5 DEF t

-------------------------------------------------------------------------------
(* The throttle: the counter counts the lookups that are fetching, the queue    *)
(* and the timers hold those that wait, each once, and neither bound is passed. *)
(* That no slot is idle while a lookup waits is inductive only together with    *)
(* the first.                                                                   *)
Throttled ==
    /\ phase \in [Lookup -> {"idle", "queued", "fetching"}]
    /\ inFlight = Cardinality(Fetching) /\ inFlight <= MaxConcurrent
    /\ waiters \in Seq(Lookup) /\ IsInjective(waiters) /\ Len(waiters) <= MaxQueued
    /\ ToSet(waiters) = Queued /\ timers = Queued
    /\ NoIdleSlotWhileWaiting

ThrottleSteps ==
    \E l \in Lookup :
        \/ AcquireAtOnce(l) \/ Enqueue(l) \/ QueueTimeout(l)
        \/ phase[l] = "fetching" /\ Release(l)

LEMMA FetchingIsFinite ==
  ASSUME Throttled
  PROVE  IsFiniteSet(Fetching) /\ inFlight \in Nat
<1>1. Fetching \in SUBSET Lookup
  BY DEF Fetching
<1>2. IsFiniteSet(Fetching)
  BY <1>1, FetchThrottleAssumption, FS_Subset DEF FetchThrottleAssumption
<1> QED BY <1>2, FS_CardinalityType DEF Throttled

LEMMA ThrottleStarts == ThrottleInit => Throttled
<1> SUFFICES ASSUME ThrottleInit PROVE Throttled
  OBVIOUS
<1>1. Fetching = {} /\ Queued = {}
  BY DEF ThrottleInit, Fetching, Queued
<1>2. waiters \in Seq(Lookup) /\ IsInjective(waiters) /\ Len(waiters) = 0 /\ ToSet(waiters) = {}
  BY DEF ThrottleInit, IsInjective, ToSet
<1> QED
  BY <1>1, <1>2, FS_EmptySet, FetchThrottleAssumption
  DEF ThrottleInit, Throttled, NoIdleSlotWhileWaiting, FetchThrottleAssumption

LEMMA ThrottleKept ==
  ASSUME Throttled, ThrottleSteps \/ UNCHANGED throttleVars
  PROVE  Throttled'
<1> USE FetchThrottleAssumption DEF FetchThrottleAssumption
<1>1. CASE UNCHANGED throttleVars
  BY <1>1 DEF Throttled, throttleVars, Fetching, Queued, NoIdleSlotWhileWaiting
<1>2. ASSUME NEW l \in Lookup, AcquireAtOnce(l) PROVE Throttled'
  <2>1. Fetching' = Fetching \cup {l} /\ l \notin Fetching /\ Queued' = Queued
    BY <1>2 DEF AcquireAtOnce, Throttled, Fetching, Queued
  <2>2. Cardinality(Fetching') = inFlight + 1
    BY <2>1, FetchingIsFinite, FS_AddElement DEF Throttled
  <2>3. waiters = << >>
    BY <1>2 DEF AcquireAtOnce, Throttled, NoIdleSlotWhileWaiting
  <2> QED
    BY <1>2, <2>1, <2>2, <2>3, FetchingIsFinite DEF AcquireAtOnce, Throttled, NoIdleSlotWhileWaiting
<1>3. ASSUME NEW l \in Lookup, Enqueue(l) PROVE Throttled'
  <2>1. Fetching' = Fetching /\ Queued' = Queued \cup {l} /\ l \notin Queued
    BY <1>3 DEF Enqueue, Throttled, Fetching, Queued
  <2>2. /\ waiters' \in Seq(Lookup) /\ IsInjective(waiters') /\ Len(waiters') = Len(waiters) + 1
        /\ ToSet(waiters') = ToSet(waiters) \cup {l}
    BY <1>3, <2>1, AppendJoins DEF Enqueue, Throttled
  <2>3. inFlight = MaxConcurrent
    BY <1>3, FetchingIsFinite DEF Enqueue, Throttled
  <2> QED
    BY <1>3, <2>1, <2>2, <2>3 DEF Enqueue, Throttled, NoIdleSlotWhileWaiting
<1>4. ASSUME NEW l \in Lookup, QueueTimeout(l) PROVE Throttled'
  <2>1. phase[l] = "queued"
    BY <1>4 DEF QueueTimeout, Throttled, Queued
  <2>2. Fetching' = Fetching /\ Queued' = Queued \ {l}
    BY <1>4, <2>1 DEF QueueTimeout, Throttled, Fetching, Queued
  <2>3. /\ waiters' \in Seq(Lookup) /\ IsInjective(waiters') /\ Len(waiters') <= Len(waiters)
        /\ ToSet(waiters') = ToSet(waiters) \ {l}
    BY <1>4, RemoveFirstDeletes DEF QueueTimeout, Throttled
  <2>4. waiters # << >>
    BY <1>4 DEF QueueTimeout, Throttled, ToSet
  <2> QED
    BY <1>4, <2>1, <2>2, <2>3, <2>4 DEF QueueTimeout, Throttled, NoIdleSlotWhileWaiting
<1>5. ASSUME NEW l \in Lookup, phase[l] = "fetching", Release(l) PROVE Throttled'
  <2>0. l \in Fetching
    BY <1>5 DEF Fetching
  <2>1. CASE waiters = << >>
    <3>1. Fetching' = Fetching \ {l} /\ Queued' = Queued
      BY <1>5, <2>1 DEF Release, Throttled, Fetching, Queued
    <3>2. Cardinality(Fetching') = inFlight - 1
      BY <2>0, <3>1, FetchingIsFinite, FS_RemoveElement DEF Throttled
    <3> QED
      BY <1>5, <2>1, <3>1, <3>2, FetchingIsFinite DEF Release, Throttled, NoIdleSlotWhileWaiting
  <2>2. CASE waiters # << >>
    <3> DEFINE w == Head(waiters)
    <3>1. /\ w \in ToSet(waiters)
          /\ Tail(waiters) \in Seq(Lookup) /\ IsInjective(Tail(waiters))
          /\ Len(Tail(waiters)) = Len(waiters) - 1
          /\ ToSet(Tail(waiters)) = ToSet(waiters) \ {w}
      BY <2>2, HeadLeaves DEF Throttled
    <3>2. w \in Lookup /\ phase[w] = "queued" /\ w # l
      BY <1>5, <3>1 DEF Throttled, Queued
    <3> HIDE DEF w
    <3>3. phase' = [phase EXCEPT ![l] = "idle", ![w] = "fetching"]
      BY <1>5, <2>2 DEF Release, w
    <3>4. Fetching' = (Fetching \ {l}) \cup {w} /\ Queued' = Queued \ {w}
      BY <2>0, <3>2, <3>3 DEF Throttled, Fetching, Queued
    <3>5. Cardinality(Fetching \ {l}) = inFlight - 1 /\ IsFiniteSet(Fetching \ {l})
      BY <2>0, FetchingIsFinite, FS_RemoveElement DEF Throttled
    <3>6. w \notin Fetching \ {l}
      BY <3>2 DEF Fetching
    <3>7. Cardinality(Fetching') = inFlight
      <4>1. Cardinality((Fetching \ {l}) \cup {w}) = Cardinality(Fetching \ {l}) + 1
        BY ONLY <3>5, <3>6, FS_AddElement
      <4> QED BY <3>4, <3>5, <4>1, FetchingIsFinite
    <3>8. inFlight' = inFlight /\ waiters' = Tail(waiters) /\ timers' = timers \ {w}
      BY <1>5, <2>2, FetchingIsFinite DEF Release, w
    <3>9. phase' \in [Lookup -> {"idle", "queued", "fetching"}]
      BY <3>3 DEF Throttled
    <3> QED
      BY <2>2, <3>1, <3>4, <3>7, <3>8, <3>9 DEF Throttled, NoIdleSlotWhileWaiting
  <2> QED BY <2>1, <2>2
<1> QED BY <1>1, <1>2, <1>3, <1>4, <1>5 DEF ThrottleSteps

-------------------------------------------------------------------------------
(* Division, for a divisor the solver cannot look into. *)
LEMMA Quotient ==
  ASSUME NEW a \in Nat, NEW b \in Nat \ {0}
  PROVE  /\ a \div b \in Nat
         /\ (a \div b) * b <= a
         /\ a < (a \div b) * b + b
OBVIOUS

LEMMA ProductsGrow ==
  ASSUME NEW a \in Nat, NEW b \in Nat, NEW c \in Nat, a <= b
  PROVE  a * c <= b * c /\ a * c \in Nat /\ b * c \in Nat
OBVIOUS

LEMMA OneMore ==
  ASSUME NEW a \in Nat \ {0}, NEW c \in Nat
  PROVE  a * c = (a - 1) * c + c /\ (a - 1) * c \in Nat
OBVIOUS

(* The issuers are cut into pieces, and nothing falls between two of them. *)
LEMMA ChunksCoverIssuers ==
  /\ Len(Chunks) \in Nat \ {0}
  /\ \A c \in 1 .. Len(Chunks) : ToSet(Chunks[c]) \subseteq Participant
  /\ \A x \in ToSet(Issuers) : \E c \in 1 .. Len(Chunks) : x \in ToSet(Chunks[c])
<1> DEFINE n == Len(Issuers)
           m == MaxIssuers
           pieces == (n + m - 1) \div m
           end(c) == IF c * m < n THEN c * m ELSE n
<1>1. n \in Nat \ {0} /\ m \in Nat \ {0} /\ Issuers \in Seq(Participant)
  BY DiscoveryLookupsAssumption DEF DiscoveryLookupsAssumption
<1>2. pieces \in Nat /\ pieces * m <= n + m - 1 /\ n + m - 1 < pieces * m + m
  BY <1>1, Quotient
<1>3. Len(Chunks) = pieces /\ \A c \in 1 .. pieces :
          Chunks[c] = SubSeq(Issuers, (c - 1) * m + 1, end(c))
  <2> DEFINE piece(c) == SubSeq(Issuers, (c - 1) * m + 1, end(c))
  <2>1. Chunks = [c \in 1 .. pieces |-> piece(c)]
    BY DEF Chunks
  <2> HIDE DEF piece, pieces
  <2>2. Len(Chunks) = pieces /\ \A c \in 1 .. pieces : Chunks[c] = piece(c)
    BY <1>2, <2>1
  <2> QED BY <2>2 DEF piece
<1> HIDE DEF pieces, n, m
<1>4. pieces # 0
  <2> SUFFICES ASSUME pieces = 0 PROVE FALSE
    OBVIOUS
  <2>1. pieces * m = 0
    BY <1>1
  <2> QED BY <1>1, <1>2, <2>1
<1>5. ASSUME NEW c \in 1 .. pieces
      PROVE  /\ (c - 1) * m \in Nat /\ (c - 1) * m < n
             /\ c * m = (c - 1) * m + m
             /\ end(c) \in 1 .. n /\ end(c) >= (c - 1) * m + 1
  <2>1. (c - 1) * m \in Nat /\ c * m = (c - 1) * m + m
    BY <1>1, OneMore
  <2>2. c * m <= pieces * m
    BY <1>1, <1>2, ProductsGrow
  <2>3. (c - 1) * m < n
    BY <1>1, <1>2, <2>1, <2>2
  <2> QED BY <1>1, <2>1, <2>3
<1>6. ASSUME NEW c \in 1 .. pieces
      PROVE  /\ DOMAIN Chunks[c] = 1 .. end(c) - (c - 1) * m
             /\ \A j \in 1 .. end(c) - (c - 1) * m :
                   Chunks[c][j] = Issuers[(c - 1) * m + j]
  <2> DEFINE from == (c - 1) * m
  <2>1. Chunks[c] = SubSeq(Issuers, from + 1, end(c))
    BY <1>3
  <2>2. from \in Nat /\ end(c) \in Nat
    BY <1>1, <1>5
  <2> HIDE DEF from, end
  <2>3. /\ DOMAIN Chunks[c] = 1 .. end(c) - from
        /\ \A j \in 1 .. end(c) - from : Chunks[c][j] = Issuers[from + j]
    BY <2>1, <2>2
  <2> QED BY <2>3 DEF from
<1>7. ASSUME NEW c \in 1 .. pieces
      PROVE  ToSet(Chunks[c]) \subseteq Participant
  <2> DEFINE from == (c - 1) * m
  <2>1. from \in Nat /\ end(c) \in 1 .. n
    BY <1>5
  <2>2. ToSet(Chunks[c]) = {Issuers[from + j] : j \in 1 .. end(c) - from}
    BY <1>6 DEF ToSet
  <2> HIDE DEF from, end
  <2>3. \A j \in 1 .. end(c) - from : from + j \in 1 .. n
    BY <1>1, <2>1
  <2>4. \A i \in 1 .. n : Issuers[i] \in Participant
    BY <1>1 DEF n
  <2> QED BY <2>2, <2>3, <2>4
<1>8. ASSUME NEW x \in ToSet(Issuers)
      PROVE  \E c \in 1 .. pieces : x \in ToSet(Chunks[c])
  <2>1. PICK i \in 1 .. n : Issuers[i] = x
    BY <1>1 DEF ToSet, n
  <2> DEFINE q == (i - 1) \div m
  <2>2. q \in Nat /\ q * m <= i - 1 /\ i - 1 < q * m + m
    BY <1>1, Quotient
  <2> HIDE DEF q
  <2>3. q < pieces
    <3> SUFFICES ASSUME pieces <= q PROVE FALSE
      BY <1>2, <2>2
    <3>1. pieces * m <= q * m /\ pieces * m \in Nat /\ q * m \in Nat
      BY <1>1, <1>2, <2>2, ProductsGrow
    <3> QED BY <1>1, <1>2, <2>2, <3>1
  <2> DEFINE c == q + 1
  <2>4. c \in 1 .. pieces /\ c - 1 = q
    BY <1>2, <2>2, <2>3
  <2>5. q * m \in Nat /\ c * m = q * m + m /\ end(c) \in 1 .. n
    BY <1>5, <2>4
  <2>6. i - q * m \in 1 .. end(c) - q * m
    BY <1>1, <2>1, <2>2, <2>5
  <2>7. q * m + (i - q * m) = i
    BY <2>1, <2>5
  <2>8. i - q * m \in DOMAIN Chunks[c] /\ Chunks[c][i - q * m] = x
    <3> HIDE DEF c, end
    <3>1. (c - 1) * m = q * m
      BY <2>4
    <3>2. /\ DOMAIN Chunks[c] = 1 .. end(c) - q * m
          /\ \A j \in 1 .. end(c) - q * m : Chunks[c][j] = Issuers[q * m + j]
      BY <1>6, <2>4, <3>1
    <3> QED BY <2>1, <2>6, <2>7, <3>2
  <2> QED BY <2>4, <2>8 DEF ToSet
<1> QED BY <1>2, <1>3, <1>4, <1>7, <1>8

-------------------------------------------------------------------------------
(* What the service and the callers hold. *)
Logs == [of : Participant \cup {"nobody"}, events : Nat, replays : BOOLEAN]

Served ==
    /\ version \in [Participant -> Nat \ {0}]
    /\ published \in [Revokers -> NotYet .. Oldest]
    /\ remaining \in [Budget -> Nat]

(* What a lookup is at, and what it may rely on: one that asks for revocations   *)
(* has found, in every piece that was answered, all that was old enough when it  *)
(* was made.                                                                     *)
KeyJobs == [call : {"getKeyState"}, id : Participant, budget : Budget \cup {NoBudget}]

RevocationJobs ==
    [call : {"getRevocations"}, chunk : 1 .. Len(Chunks), at : {"fetch", "answered"},
     found : SUBSET Participant, before : SUBSET Participant]

AnsweredPieces(j) == {c \in 1 .. Len(Chunks) : c < j.chunk \/ (c = j.chunk /\ j.at = "answered")}

NothingMissed(j) ==
    /\ j.before \subseteq RevokedFor(Oldest)
    /\ \A c \in AnsweredPieces(j) : j.before \cap ToSet(Chunks[c]) \subseteq j.found

Working ==
    /\ job \in [Lookup -> {NoJob} \cup KeyJobs \cup RevocationJobs]
    /\ \A l \in Lookup : job[l] \in RevocationJobs => NothingMissed(job[l])

(* An entry was stored when the rest of its lifetime began, so many steps of the  *)
(* clock ago; it lacks nothing that was published a fetch deadline before that.   *)
EntryAge(c) == Ttl - cache[c].left
KnownAge(c) == FetchDeadline + EntryAge(c) + 1

EntriesAreComplete ==
    /\ cache \in [1 .. Len(Chunks) -> [found : SUBSET Participant, left : 0 .. Ttl]]
    /\ \A c \in 1 .. Len(Chunks) :
          Fresh(c) => ToSet(Chunks[c]) \cap RevokedFor(KnownAge(c)) \subseteq cache[c].found

(* The memo: within its ceiling, each entry once in the order of use, and the    *)
(* log of every entry replays to a state of the participant it is filed under.   *)
MemoIsSound ==
    /\ order \in Seq(Participant) /\ IsInjective(order) /\ Len(order) <= MaxKeyStates
    /\ ToSet(order) = DOMAIN keyStates
    /\ \A p \in DOMAIN keyStates : Resolves(p, keyStates[p])

LookupInvariant ==
    /\ Throttled
    /\ Served
    /\ Working
    /\ EntriesAreComplete
    /\ MemoIsSound
    /\ AnswersTheLogInHand
    /\ RevocationsComplete

-------------------------------------------------------------------------------
(* The three kinds of job are told apart by their call. *)
LEMMA CallsTellJobs ==
  ASSUME Working, NEW l \in Lookup
  PROVE  /\ job[l] = NoJob => job[l].call = "none"
         /\ job[l].call = "getKeyState" => job[l] \in KeyJobs
         /\ job[l].call = "getRevocations" => job[l] \in RevocationJobs
         /\ job[l] \in KeyJobs => job[l].call = "getKeyState" /\ job[l] # NoJob
         /\ job[l] \in RevocationJobs => job[l].call = "getRevocations" /\ job[l] # NoJob
<1>1. job[l] \in {NoJob} \cup KeyJobs \cup RevocationJobs
  BY DEF Working
<1> QED BY <1>1 DEF NoJob, KeyJobs, RevocationJobs

LEMMA IssuersAreParticipants ==
  Revokers \subseteq Participant
  BY DiscoveryLookupsAssumption DEF DiscoveryLookupsAssumption, ToSet

LEMMA AgesAreNatural == Ttl \in Nat /\ FetchDeadline \in Nat /\ Oldest \in Nat /\ NotYet = -1
  BY DiscoveryLookupsAssumption DEF DiscoveryLookupsAssumption, Oldest, NotYet

(* The throttle sees a lookup come, wait, leave or be refused, and nothing else. *)
LEMMA LookupsAreThrottled ==
  ASSUME Next
  PROVE  ThrottleSteps \/ UNCHANGED throttleVars
<1>1. CASE Service \/ Tick
  BY <1>1 DEF Service, Tick
<1>2. ASSUME NEW l \in Lookup, NEW asking, Fetch(l, asking)
      PROVE  ThrottleSteps \/ UNCHANGED throttleVars
  BY <1>2 DEF Fetch, RefuseAtCapacity, ThrottleSteps
<1>3. ASSUME NEW l \in Lookup, NEW p, NEW b, AskKeyState(l, p, b) \/ KeyLogCached(l, p, b)
      PROVE  ThrottleSteps \/ UNCHANGED throttleVars
  BY <1>2, <1>3 DEF AskKeyState, KeyLogCached
<1>4. ASSUME NEW l \in Lookup, AskRevocations(l) \/ NextChunk(l)
      PROVE  ThrottleSteps \/ UNCHANGED throttleVars
  BY <1>2, <1>4 DEF AskRevocations, NextChunk, AskPiece
<1>5. ASSUME NEW l \in Lookup, Throws(l) \/ KeyLogArrives(l) \/ RevocationsArrive(l)
      PROVE  ThrottleSteps
  BY <1>5 DEF Throws, KeyLogArrives, RevocationsArrive, ExchangeEnds, DeadlineFires, ThrottleSteps
<1>6. ASSUME NEW l \in Lookup, RevocationsEnd(l)
      PROVE  UNCHANGED throttleVars
  BY <1>6 DEF RevocationsEnd
<1>7. ASSUME NEW c, Evict(c) PROVE UNCHANGED throttleVars
  BY <1>7 DEF Evict
<1>8. ASSUME NEW b, Request(b) PROVE UNCHANGED throttleVars
  BY <1>8 DEF Request
<1> QED BY <1>1, <1>3, <1>4, <1>5, <1>6, <1>7, <1>8 DEF Next, Goes

-------------------------------------------------------------------------------
(* Who is judged, and what the other steps leave alone. *)
LEMMA LogsAreSent ==
  ASSUME Served, NEW p \in Participant, NEW log \in KeyLogAnswers(p)
  PROVE  log \in Logs
<1>1. \A q \in Participant : 1 .. version[q] \subseteq Nat
  BY DEF Served
<1>2. NoLog \in Logs
  BY DEF NoLog, Logs
<1>3. \A q \in Participant, n \in Nat : Log(q, n) \in Logs /\ Broken(q, n) \in Logs
  BY DEF Log, Broken, Logs
<1> QED BY <1>1, <1>2, <1>3 DEF KeyLogAnswers

Judged ==
    \E p \in Participant, b \in Budget \cup {NoBudget}, log \in Logs :
        Judge(p, b, log) /\ UNCHANGED <<version, published, cache>>

Quiet ==
    /\ UNCHANGED memoVars
    /\ returned' = NoJob \/ \E l \in Lookup : RevocationsEnd(l)
    /\ UNCHANGED remaining \/ \E b \in Budget : Request(b)

LEMMA WhoIsJudged ==
  ASSUME Served, Working, Next
  PROVE  Judged \/ Quiet
<1>1. ASSUME NEW l \in Lookup, l \in KeyLookup, NEW p \in AsksAbout[l], NEW b \in Brings[l],
             KeyLogCached(l, p, b)
      PROVE  Judged
  <2>1. p \in Participant /\ b \in Budget \cup {NoBudget}
    BY <1>1, DiscoveryLookupsAssumption DEF DiscoveryLookupsAssumption
  <2>2. PICK log \in KeyLogAnswers(p) : Judge(p, b, log)
    BY <1>1 DEF KeyLogCached
  <2>3. UNCHANGED <<version, published, cache>>
    BY <1>1 DEF KeyLogCached, serviceVars
  <2> QED BY <2>1, <2>2, <2>3, LogsAreSent DEF Judged
<1>2. ASSUME NEW l \in Lookup, KeyLogArrives(l)
      PROVE  Judged
  <2>1. job[l].id \in Participant /\ job[l].budget \in Budget \cup {NoBudget}
    BY <1>2, CallsTellJobs DEF KeyLogArrives, KeyJobs
  <2>2. PICK log \in KeyLogAnswers(job[l].id) : Judge(job[l].id, job[l].budget, log)
    BY <1>2 DEF KeyLogArrives
  <2>3. UNCHANGED <<version, published, cache>>
    BY <1>2 DEF KeyLogArrives, serviceVars
  <2> QED BY <2>1, <2>2, <2>3, LogsAreSent DEF Judged
<1>3. CASE Service \/ Tick
  BY <1>3 DEF Service, Tick, Quiet, memoVars
<1>4. ASSUME NEW c, Evict(c) PROVE Quiet
  BY <1>4 DEF Evict, Quiet, memoVars
<1>5. ASSUME NEW b \in Budget, Request(b) PROVE Quiet
  <2>1. returned' = NoJob /\ UNCHANGED memoVars
    BY <1>5 DEF Request
  <2> QED BY <1>5, <2>1 DEF Quiet
<1>6. ASSUME NEW l \in Lookup, NEW p, NEW b, AskKeyState(l, p, b) PROVE Quiet
  BY <1>6 DEF AskKeyState, Quiet
<1>7. ASSUME NEW l \in Lookup, AskRevocations(l) \/ NextChunk(l) \/ Throws(l) \/ RevocationsArrive(l)
      PROVE  Quiet
  BY <1>7 DEF AskRevocations, NextChunk, Throws, RevocationsArrive, Quiet
<1>8. ASSUME NEW l \in Lookup, RevocationsEnd(l) PROVE Quiet
  <2>1. UNCHANGED <<memoVars, remaining>>
    BY <1>8 DEF RevocationsEnd
  <2> QED BY <1>8, <2>1 DEF Quiet
<1> QED BY <1>1, <1>2, <1>3, <1>4, <1>5, <1>6, <1>7, <1>8 DEF Next, Goes

-------------------------------------------------------------------------------
(* What is old stays so. *)
LEMMA AgesGrow ==
  ASSUME Served, Next
  PROVE  /\ published' \in [Revokers -> NotYet .. Oldest]
         /\ version' \in [Participant -> Nat \ {0}]
         /\ \A p \in Revokers : published[p] <= published'[p]
<1>1. CASE Service
  <2>1. ASSUME NEW p \in Revokers, published[p] = NotYet, published' = [published EXCEPT ![p] = 0]
        PROVE  /\ published' \in [Revokers -> NotYet .. Oldest]
               /\ \A q \in Revokers : published[q] <= published'[q]
    BY <2>1, AgesAreNatural DEF Served
  <2>2. ASSUME published' = published
        PROVE  /\ published' \in [Revokers -> NotYet .. Oldest]
               /\ \A q \in Revokers : published[q] <= published'[q]
    <3>1. \A q \in Revokers : published[q] \in Int
      BY AgesAreNatural DEF Served
    <3> QED BY <2>2, <3>1 DEF Served
  <2>3. version' \in [Participant -> Nat \ {0}]
    BY <1>1 DEF Service, Served
  <2> QED BY <1>1, <2>1, <2>2, <2>3 DEF Service
<1>2. CASE Tick
  <2>1. \A age \in NotYet .. Oldest : Older(age) \in NotYet .. Oldest /\ age <= Older(age)
    BY AgesAreNatural DEF Older
  <2>2. published' = [p \in Revokers |-> Older(published[p])] /\ version' = version
    BY <1>2 DEF Tick
  <2>3. \A p \in Revokers : published[p] \in NotYet .. Oldest
    BY DEF Served
  <2>4. version' \in [Participant -> Nat \ {0}]
    BY <2>2 DEF Served
  <2> HIDE DEF Older
  <2> QED BY <2>1, <2>2, <2>3, <2>4
<1>3. CASE UNCHANGED <<version, published>>
  BY <1>3, AgesAreNatural DEF Served
<1> QED
  BY <1>1, <1>2, <1>3
  DEF Next, Goes, Evict, Request, AskKeyState, KeyLogCached, AskRevocations, Throws, KeyLogArrives,
      RevocationsArrive, NextChunk, RevocationsEnd, serviceVars

LEMMA OldStaysOld ==
  ASSUME Served, Next
  PROVE  \A age \in Int : RevokedFor(age) \subseteq RevokedFor(age)'
<1>1. \A p \in Revokers : published[p] \in Int /\ published'[p] \in Int /\ published[p] <= published'[p]
  BY AgesGrow, AgesAreNatural DEF Served
<1> QED BY <1>1 DEF RevokedFor

(* What is left of an allowance is a number of checks, whoever spends of it. *)
LEMMA JudgedSpend ==
  ASSUME Served, NEW b \in Budget \cup {NoBudget}, NEW log \in Logs, Spend(b, log)
  PROVE  remaining' \in [Budget -> Nat]
<1>1. CASE b = NoBudget
  BY <1>1 DEF Spend, Served
<1>2. CASE b # NoBudget
  <2> DEFINE left == IF Outrun(b, log) THEN 0 ELSE remaining[b] - ReplayCost(log)
  <2>1. b \in Budget /\ remaining[b] \in Nat /\ ReplayCost(log) \in Nat
    BY <1>2 DEF Served, ReplayCost, Logs
  <2>2. left \in Nat
    BY <1>2, <2>1 DEF Outrun, Affords
  <2>3. remaining' = [remaining EXCEPT ![b] = left]
    BY <1>2 DEF Spend
  <2> HIDE DEF left
  <2> QED BY <2>1, <2>2, <2>3 DEF Served
<1> QED BY <1>1, <1>2

LEMMA ServedIsKept ==
  ASSUME Served, Working, Next
  PROVE  Served'
<1>1. CASE Judged
  <2>1. PICK p \in Participant, b \in Budget \cup {NoBudget}, log \in Logs : Judge(p, b, log)
    BY <1>1 DEF Judged
  <2>2. UNCHANGED remaining \/ Spend(b, log)
    BY <2>1 DEF Judge, NoLogResolves, MemoHit, MemoMiss
  <2> QED BY <2>2, AgesGrow, JudgedSpend DEF Served
<1>2. CASE UNCHANGED remaining
  BY <1>2, AgesGrow DEF Served
<1>3. ASSUME NEW b \in Budget, Request(b) PROVE Served'
  <2>0. remaining \in [Budget -> Nat] /\ Allowance[b] \in Nat
    BY DiscoveryLookupsAssumption DEF Served, DiscoveryLookupsAssumption
  <2>1. CASE remaining[b] > 0 /\ remaining' = [remaining EXCEPT ![b] = @ - 1]
    <3>1. remaining[b] - 1 \in Nat
      BY <2>0, <2>1
    <3>2. remaining' \in [Budget -> Nat]
      BY <2>0, <2>1, <3>1
    <3> QED BY <3>2, AgesGrow DEF Served
  <2>2. CASE remaining' = [remaining EXCEPT ![b] = Allowance[b]]
    <3>1. remaining' \in [Budget -> Nat]
      BY <2>0, <2>2
    <3> QED BY <3>1, AgesGrow DEF Served
  <2> QED BY <1>3, <2>1, <2>2 DEF Request
<1> QED BY <1>1, <1>2, <1>3, WhoIsJudged DEF Quiet

-------------------------------------------------------------------------------
(* What becomes of one job leaves the others as they were. *)
LEMMA OneJobChanges ==
  ASSUME Working, NEW l \in Lookup, NEW new \in {NoJob} \cup KeyJobs \cup RevocationJobs,
         job' = [job EXCEPT ![l] = new], RevokedFor(Oldest) \subseteq RevokedFor(Oldest)',
         new \in RevocationJobs => NothingMissed(new)
  PROVE  Working'
<1>1. \A j : NothingMissed(j) => NothingMissed(j)'
  BY DEF NothingMissed, AnsweredPieces, Chunks
<1>2. job' \in [Lookup -> {NoJob} \cup KeyJobs \cup RevocationJobs]
  BY DEF Working
<1>3. \A k \in Lookup : job'[k] = IF k = l THEN new ELSE job[k]
  BY DEF Working
<1>4. \A k \in Lookup : job'[k] \in RevocationJobs => NothingMissed(job'[k])
  BY <1>3 DEF Working
<1> QED BY <1>1, <1>2, <1>4 DEF Working

LEMMA NoJobChanges ==
  ASSUME Working, job' = job, RevokedFor(Oldest) \subseteq RevokedFor(Oldest)'
  PROVE  Working'
<1>1. \A j : NothingMissed(j) => NothingMissed(j)'
  BY DEF NothingMissed, AnsweredPieces, Chunks
<1> QED BY <1>1 DEF Working

LEMMA FetchKeepsWork ==
  ASSUME Working, NEW l \in Lookup, NEW asking \in KeyJobs \cup RevocationJobs, Fetch(l, asking),
         RevokedFor(Oldest) \subseteq RevokedFor(Oldest)',
         asking \in RevocationJobs => NothingMissed(asking)
  PROVE  Working'
<1>1. NoJob \notin KeyJobs /\ NoJob \notin RevocationJobs
  BY DEF NoJob, KeyJobs, RevocationJobs
<1> QED BY <1>1, OneJobChanges DEF Fetch

LEMMA AskKeyStateKeepsWork ==
  ASSUME Working, NEW l \in Lookup, NEW p \in Participant, NEW b \in Budget \cup {NoBudget},
         AskKeyState(l, p, b), RevokedFor(Oldest) \subseteq RevokedFor(Oldest)'
  PROVE  Working'
<1> DEFINE asking == [call |-> "getKeyState", id |-> p, budget |-> b]
<1>1. asking \in KeyJobs /\ asking \notin RevocationJobs
  BY DEF KeyJobs, RevocationJobs
<1>2. Fetch(l, asking)
  BY DEF AskKeyState
<1> HIDE DEF asking
<1> QED BY <1>1, <1>2, FetchKeepsWork

(* A piece is answered, by an entry or by the service, with all that is old enough. *)
LEMMA PieceIsAnswered ==
  ASSUME NEW j \in RevocationJobs, NothingMissed(j), NEW found \in SUBSET Participant,
         RevokedFor(Oldest) \cap ToSet(Chunks[j.chunk]) \subseteq found,
         NEW new, new = [j EXCEPT !.at = "answered", !.found = @ \cup found]
  PROVE  new \in RevocationJobs /\ new \notin KeyJobs /\ NothingMissed(new)
<1>1. /\ new \in RevocationJobs /\ new \notin KeyJobs
      /\ new.chunk = j.chunk /\ new.found = j.found \cup found /\ new.before = j.before
  BY DEF RevocationJobs, KeyJobs
<1>2. j.chunk \in 1 .. Len(Chunks) /\ Len(Chunks) \in Nat
  BY ChunksCoverIssuers DEF RevocationJobs
<1>3. \A c \in AnsweredPieces(new) : c = j.chunk \/ c \in AnsweredPieces(j)
  BY <1>1, <1>2 DEF AnsweredPieces
<1>4. new.before \subseteq RevokedFor(Oldest)
  BY <1>1 DEF NothingMissed
<1>5. ASSUME NEW c \in AnsweredPieces(new)
      PROVE  new.before \cap ToSet(Chunks[c]) \subseteq new.found
  <2>1. CASE c = j.chunk
    BY <1>1, <1>4, <2>1
  <2>2. CASE c \in AnsweredPieces(j)
    BY <1>1, <2>2 DEF NothingMissed
  <2> QED BY <1>3, <2>1, <2>2
<1> QED BY <1>1, <1>4, <1>5 DEF NothingMissed

(* An entry that is still good lacks nothing that is old enough. *)
LEMMA EntriesAnswer ==
  ASSUME Served, EntriesAreComplete, NEW c \in 1 .. Len(Chunks), Fresh(c)
  PROVE  /\ cache[c].found \in SUBSET Participant
         /\ RevokedFor(Oldest) \cap ToSet(Chunks[c]) \subseteq cache[c].found
<1>1. cache[c].found \in SUBSET Participant /\ cache[c].left \in 0 .. Ttl
  BY DEF EntriesAreComplete
<1>2. \A p \in Revokers : published[p] \in Int
  BY AgesAreNatural DEF Served
<1>3. KnownAge(c) <= Oldest /\ KnownAge(c) \in Int /\ Oldest \in Int
  BY <1>1, AgesAreNatural DEF Fresh, KnownAge, EntryAge, Oldest
<1>4. RevokedFor(Oldest) \subseteq RevokedFor(KnownAge(c))
  BY <1>2, <1>3 DEF RevokedFor
<1> QED BY <1>1, <1>4 DEF EntriesAreComplete

LEMMA PieceKeepsWork ==
  ASSUME Served, Working, EntriesAreComplete, NEW l \in Lookup,
         NEW asking \in RevocationJobs, NothingMissed(asking), AskPiece(l, asking),
         RevokedFor(Oldest) \subseteq RevokedFor(Oldest)'
  PROVE  Working'
<1> DEFINE c == asking.chunk
           new == [asking EXCEPT !.at = "answered", !.found = @ \cup cache[c].found]
<1>1. c \in 1 .. Len(Chunks)
  BY DEF RevocationJobs
<1>2. CASE Fresh(c)
  <2>1. new \in RevocationJobs /\ new \notin KeyJobs /\ NothingMissed(new)
    BY <1>1, <1>2, EntriesAnswer, PieceIsAnswered
  <2>2. job' = [job EXCEPT ![l] = new]
    BY <1>2 DEF AskPiece
  <2> HIDE DEF new
  <2> QED BY <2>1, <2>2, OneJobChanges
<1>3. CASE ~Fresh(c)
  BY <1>3, FetchKeepsWork DEF AskPiece
<1> QED BY <1>2, <1>3

LEMMA AskRevocationsKeepsWork ==
  ASSUME Served, Working, EntriesAreComplete, NEW l \in Lookup, AskRevocations(l),
         RevokedFor(Oldest) \subseteq RevokedFor(Oldest)'
  PROVE  Working'
<1> DEFINE asking == [call |-> "getRevocations", chunk |-> 1, at |-> "fetch", found |-> {},
                      before |-> RevokedFor(Oldest)]
<1>1. RevokedFor(Oldest) \subseteq Participant
  BY IssuersAreParticipants DEF RevokedFor
<1>2. asking \in RevocationJobs
  BY <1>1, ChunksCoverIssuers DEF RevocationJobs
<1>3. NothingMissed(asking)
  BY ChunksCoverIssuers DEF NothingMissed, AnsweredPieces
<1>4. AskPiece(l, asking)
  BY DEF AskRevocations
<1> HIDE DEF asking
<1> QED BY <1>2, <1>3, <1>4, PieceKeepsWork

(* The service's answer has all that was published a fetch deadline ago. *)
LEMMA AnswersHoldTheOld ==
  ASSUME Served, NEW asked, NEW found, asked \cap RevokedFor(FetchDeadline) \subseteq found
  PROVE  RevokedFor(Oldest) \cap asked \subseteq found
<1>1. \A p \in Revokers : published[p] \in Int
  BY AgesAreNatural DEF Served
<1>2. RevokedFor(Oldest) \subseteq RevokedFor(FetchDeadline)
  BY <1>1, AgesAreNatural DEF RevokedFor, Oldest
<1> QED BY <1>2

LEMMA RevocationsArriveKeepsWork ==
  ASSUME Served, Working, NEW l \in Lookup, RevocationsArrive(l),
         RevokedFor(Oldest) \subseteq RevokedFor(Oldest)'
  PROVE  Working'
<1> DEFINE asked == ToSet(Chunks[job[l].chunk])
<1>1. job[l] \in RevocationJobs /\ NothingMissed(job[l])
  BY CallsTellJobs DEF RevocationsArrive, Working
<1>2. PICK found \in SUBSET (asked \cap RevokedFor(0)) :
          /\ asked \cap RevokedFor(FetchDeadline) \subseteq found
          /\ job' = [job EXCEPT ![l].at = "answered", ![l].found = @ \cup found]
  BY DEF RevocationsArrive
<1>3. found \in SUBSET Participant
  BY <1>2, IssuersAreParticipants DEF RevokedFor
<1> DEFINE new == [job[l] EXCEPT !.at = "answered", !.found = @ \cup found]
<1>4. new \in RevocationJobs /\ new \notin KeyJobs /\ NothingMissed(new)
  <2>1. RevokedFor(Oldest) \cap asked \subseteq found
    BY <1>2, AnswersHoldTheOld
  <2> QED BY <1>1, <1>3, <2>1, PieceIsAnswered
<1>5. job' = [job EXCEPT ![l] = new]
  BY <1>2 DEF Working
<1> HIDE DEF new
<1> QED BY <1>4, <1>5, OneJobChanges

LEMMA NextChunkKeepsWork ==
  ASSUME Served, Working, EntriesAreComplete, NEW l \in Lookup, NextChunk(l),
         RevokedFor(Oldest) \subseteq RevokedFor(Oldest)'
  PROVE  Working'
<1> DEFINE new == [job[l] EXCEPT !.chunk = @ + 1, !.at = "fetch"]
<1>1. job[l] \in RevocationJobs /\ NothingMissed(job[l]) /\ job[l].at = "answered"
  BY CallsTellJobs DEF NextChunk, Working, Answered
<1>2. job[l].chunk \in 1 .. Len(Chunks) /\ job[l].chunk + 1 \in 1 .. Len(Chunks)
  BY <1>1, ChunksCoverIssuers DEF RevocationJobs, NextChunk
<1>3. /\ new \in RevocationJobs
      /\ new.chunk = job[l].chunk + 1 /\ new.at = "fetch"
      /\ new.found = job[l].found /\ new.before = job[l].before
  BY <1>1, <1>2 DEF RevocationJobs
<1>4. AskPiece(l, new)
  BY DEF NextChunk
<1> HIDE DEF new
<1>5. AnsweredPieces(new) \subseteq AnsweredPieces(job[l])
  BY <1>1, <1>2, <1>3, ChunksCoverIssuers DEF AnsweredPieces
<1>6. NothingMissed(new)
  BY <1>1, <1>3, <1>5 DEF NothingMissed
<1> QED BY <1>3, <1>4, <1>6, PieceKeepsWork

LEMMA WorkIsKept ==
  ASSUME Served, Working, EntriesAreComplete, Next
  PROVE  Working'
<1>0. RevokedFor(Oldest) \subseteq RevokedFor(Oldest)'
  BY OldStaysOld, AgesAreNatural
<1>1. NoJob \notin KeyJobs /\ NoJob \notin RevocationJobs
  BY DEF NoJob, KeyJobs, RevocationJobs
<1>2. ASSUME NEW l \in Lookup, Throws(l) \/ KeyLogArrives(l) \/ RevocationsEnd(l)
      PROVE  Working'
  <2>1. job' = [job EXCEPT ![l] = NoJob]
    BY <1>2 DEF Throws, KeyLogArrives, RevocationsEnd
  <2> QED BY <1>0, <1>1, <2>1, OneJobChanges
<1>3. CASE job' = job
  BY <1>0, <1>3, NoJobChanges
<1>4. ASSUME NEW l \in Lookup, l \in KeyLookup, NEW p \in AsksAbout[l], NEW b \in Brings[l],
             AskKeyState(l, p, b)
      PROVE  Working'
  <2>1. p \in Participant /\ b \in Budget \cup {NoBudget}
    BY <1>4, DiscoveryLookupsAssumption DEF DiscoveryLookupsAssumption
  <2> QED BY <1>0, <1>4, <2>1, AskKeyStateKeepsWork
<1>5. CASE Service \/ Tick
  BY <1>3, <1>5 DEF Service, Tick
<1>6. ASSUME NEW c, Evict(c) PROVE Working'
  BY <1>3, <1>6 DEF Evict
<1>7. ASSUME NEW b, Request(b) PROVE Working'
  BY <1>3, <1>7 DEF Request
<1>8. ASSUME NEW l, NEW p, NEW b, KeyLogCached(l, p, b) PROVE Working'
  BY <1>3, <1>8 DEF KeyLogCached
<1> QED
  BY <1>0, <1>2, <1>4, <1>5, <1>6, <1>7, <1>8, AskRevocationsKeepsWork,
     RevocationsArriveKeepsWork, NextChunkKeepsWork
  DEF Next, Goes

-------------------------------------------------------------------------------
(* An entry ages as fast as what it was asked about, and a new one is of its age. *)
LEMMA EntriesWear ==
  ASSUME Served, EntriesAreComplete, Tick
  PROVE  EntriesAreComplete'
<1>1. cache' = [c \in 1 .. Len(Chunks) |-> Wear(cache[c])]
  BY DEF Tick
<1>2. ASSUME NEW e \in [found : SUBSET Participant, left : 0 .. Ttl]
      PROVE  /\ Wear(e) \in [found : SUBSET Participant, left : 0 .. Ttl]
             /\ Wear(e).left > 0 => Wear(e).left = e.left - 1 /\ e.left > 0 /\ Wear(e).found = e.found
  <2>1. CASE e.left <= 1
    BY <2>1, AgesAreNatural DEF Wear, NoEntry
  <2>2. CASE ~(e.left <= 1)
    <3>1. Wear(e) = [e EXCEPT !.left = @ - 1]
      BY <2>2 DEF Wear
    <3>2. e.left \in 0 .. Ttl /\ e.left - 1 \in 0 .. Ttl
      BY <2>2, AgesAreNatural
    <3> QED BY <2>2, <3>1, <3>2
  <2> QED BY <2>1, <2>2
<1>3. cache' \in [1 .. Len(Chunks) -> [found : SUBSET Participant, left : 0 .. Ttl]]
  BY <1>1, <1>2 DEF EntriesAreComplete
<1>4. ASSUME NEW c \in 1 .. Len(Chunks), cache'[c].left > 0
      PROVE  ToSet(Chunks[c]) \cap RevokedFor(KnownAge(c))' \subseteq cache'[c].found
  <2>1. /\ cache'[c].left = cache[c].left - 1 /\ cache[c].left \in 1 .. Ttl
        /\ cache'[c].found = cache[c].found
    BY <1>1, <1>2, <1>4, AgesAreNatural DEF EntriesAreComplete
  <2>2. KnownAge(c) \in 0 .. Oldest /\ KnownAge(c)' = KnownAge(c) + 1
    <3>1. Ttl \in Nat /\ FetchDeadline \in Nat /\ Oldest = Ttl + FetchDeadline
      BY AgesAreNatural DEF Oldest
    <3>2. KnownAge(c) = FetchDeadline + (Ttl - cache[c].left) + 1
      BY DEF KnownAge, EntryAge
    <3>3. KnownAge(c)' = FetchDeadline + (Ttl - cache'[c].left) + 1
      BY DEF KnownAge, EntryAge
    <3> DEFINE left == cache[c].left
    <3>4. left \in Int /\ 1 <= left /\ left <= Ttl /\ cache'[c].left = left - 1
      BY <2>1, <3>1
    <3> HIDE DEF left
    <3>5. KnownAge(c) = FetchDeadline + (Ttl - left) + 1
      BY <3>2 DEF left
    <3>6. KnownAge(c) \in Int /\ 0 <= KnownAge(c) /\ KnownAge(c) <= Oldest
      BY ONLY <3>1, <3>4, <3>5
    <3>7. KnownAge(c)' = KnownAge(c) + 1
      BY ONLY <3>1, <3>3, <3>4, <3>5
    <3>8. Oldest \in Nat
      BY AgesAreNatural
    <3> HIDE DEF KnownAge
    <3> QED BY ONLY <3>6, <3>7, <3>8
  <2>3. ToSet(Chunks[c]) \cap RevokedFor(KnownAge(c)) \subseteq cache[c].found
    BY <2>1 DEF EntriesAreComplete, Fresh
  <2>4. ASSUME NEW p \in Revokers, published'[p] >= KnownAge(c)'
        PROVE  published[p] >= KnownAge(c)
    <3>1. published[p] \in NotYet .. Oldest /\ published'[p] = Older(published[p])
      BY DEF Served, Tick
    <3> QED BY <2>2, <2>4, <3>1, AgesAreNatural DEF Older
  <2>5. RevokedFor(KnownAge(c))' \subseteq RevokedFor(KnownAge(c))
    BY <2>4 DEF RevokedFor
  <2> QED BY <2>1, <2>3, <2>5
<1> QED BY <1>3, <1>4 DEF EntriesAreComplete, Fresh, Chunks

LEMMA EntriesAreStored ==
  ASSUME Served, Working, EntriesAreComplete, NEW l \in Lookup, RevocationsArrive(l)
  PROVE  EntriesAreComplete'
<1> DEFINE c == job[l].chunk
           asked == ToSet(Chunks[c])
<1>1. c \in 1 .. Len(Chunks)
  BY CallsTellJobs DEF RevocationsArrive, RevocationJobs
<1>2. PICK found \in SUBSET (asked \cap RevokedFor(0)) :
          /\ asked \cap RevokedFor(FetchDeadline) \subseteq found
          /\ cache' = [cache EXCEPT ![c] = [found |-> found, left |-> Ttl]]
  BY DEF RevocationsArrive
<1>3. found \in SUBSET Participant
  BY <1>2, IssuersAreParticipants DEF RevokedFor
<1>4. published' = published
  BY DEF RevocationsArrive, serviceVars
<1> DEFINE entry == [found |-> found, left |-> Ttl]
<1>5. entry \in [found : SUBSET Participant, left : 0 .. Ttl] /\ entry.left = Ttl /\ entry.found = found
  BY <1>3, AgesAreNatural
<1>6. cache' = [cache EXCEPT ![c] = entry]
  BY <1>2
<1> HIDE DEF entry, c
<1>7. cache' \in [1 .. Len(Chunks) -> [found : SUBSET Participant, left : 0 .. Ttl]]
  BY <1>5, <1>6 DEF EntriesAreComplete
<1>8. \A d \in 1 .. Len(Chunks) : cache'[d] = IF d = c THEN entry ELSE cache[d]
  BY <1>6 DEF EntriesAreComplete
<1>9. ASSUME NEW d \in 1 .. Len(Chunks), cache'[d].left > 0
      PROVE  ToSet(Chunks[d]) \cap RevokedFor(KnownAge(d))' \subseteq cache'[d].found
  <2>1. CASE d = c
    <3>1. KnownAge(d)' = FetchDeadline + 1
      BY <1>5, <1>8, <2>1, AgesAreNatural DEF KnownAge, EntryAge
    <3>2. \A p \in Revokers : published[p] \in Int
      BY AgesAreNatural DEF Served
    <3>3. RevokedFor(KnownAge(d))' \subseteq RevokedFor(FetchDeadline)
      BY <1>4, <3>1, <3>2, AgesAreNatural DEF RevokedFor
    <3> QED BY <1>2, <1>5, <1>8, <2>1, <3>3
  <2>2. CASE d # c
    <3>1. cache'[d] = cache[d]
      BY <1>8, <2>2
    <3>2. RevokedFor(KnownAge(d))' = RevokedFor(KnownAge(d))
      BY <1>4, <3>1 DEF RevokedFor, KnownAge, EntryAge
    <3> QED BY <1>9, <3>1, <3>2 DEF EntriesAreComplete, Fresh
  <2> QED BY <2>1, <2>2
<1> QED BY <1>7, <1>9 DEF EntriesAreComplete, Fresh, Chunks

LEMMA EntriesAreKept ==
  ASSUME Served, Working, EntriesAreComplete, Next
  PROVE  EntriesAreComplete'
<1>1. CASE Service
  <2>1. cache' = cache
    BY <1>1 DEF Service
  <2>2. CASE published' = published
    BY <2>1, <2>2 DEF EntriesAreComplete, Fresh, KnownAge, EntryAge, Chunks, RevokedFor
  <2>3. ASSUME NEW p \in Revokers, published[p] = NotYet, published' = [published EXCEPT ![p] = 0]
        PROVE  EntriesAreComplete'
    <3>1. \A c \in 1 .. Len(Chunks) : KnownAge(c)' = KnownAge(c) /\ KnownAge(c) \in Nat \ {0}
      BY <2>1, AgesAreNatural DEF EntriesAreComplete, KnownAge, EntryAge
    <3>2. \A q \in Revokers : published'[q] = IF q = p THEN 0 ELSE published[q]
      BY <2>3 DEF Served
    <3>3. \A c \in 1 .. Len(Chunks) : RevokedFor(KnownAge(c))' \subseteq RevokedFor(KnownAge(c))
      BY <3>1, <3>2 DEF RevokedFor
    <3> QED BY <2>1, <3>3 DEF EntriesAreComplete, Fresh, Chunks
  <2> QED BY <1>1, <2>2, <2>3 DEF Service
<1>2. ASSUME NEW c \in 1 .. Len(Chunks), Evict(c) PROVE EntriesAreComplete'
  <2>1. cache' = [cache EXCEPT ![c] = NoEntry] /\ published' = published
    BY <1>2 DEF Evict, serviceVars
  <2>2. NoEntry \in [found : SUBSET Participant, left : 0 .. Ttl] /\ ~(NoEntry.left > 0)
    BY AgesAreNatural DEF NoEntry
  <2>3. /\ cache' \in [1 .. Len(Chunks) -> [found : SUBSET Participant, left : 0 .. Ttl]]
        /\ \A d \in 1 .. Len(Chunks) : cache'[d] = IF d = c THEN NoEntry ELSE cache[d]
    BY <2>1, <2>2 DEF EntriesAreComplete
  <2> QED BY <2>1, <2>2, <2>3 DEF EntriesAreComplete, Fresh, KnownAge, EntryAge, Chunks, RevokedFor
<1>3. CASE UNCHANGED <<cache, published>>
  BY <1>3 DEF EntriesAreComplete, Fresh, KnownAge, EntryAge, Chunks, RevokedFor
<1>4. Judged \/ Quiet
  BY WhoIsJudged
<1> QED
  BY <1>1, <1>2, <1>3, EntriesWear, EntriesAreStored
  DEF Next, Goes, Request, AskKeyState, KeyLogCached, AskRevocations, Throws, KeyLogArrives,
      NextChunk, RevocationsEnd, serviceVars

-------------------------------------------------------------------------------
(* What a memo hit and a memo miss leave in the memo.  The argument of a hit is  *)
(* that moving an entry drops none and repeats none; that of a miss, that what   *)
(* is restricted to the entries that stay is filed under the same participants.  *)
LEMMA MemoHitKeepsMemo ==
  ASSUME MemoIsSound, NEW p \in Participant, NEW b, NEW log, MemoHit(p, b, log)
  PROVE  MemoIsSound'
<1> DEFINE others == RemoveFirst(order, p)
<1>1. p \in DOMAIN keyStates /\ order' = Append(others, p) /\ keyStates' = keyStates
  BY DEF MemoHit, Remembered
<1>2. /\ others \in Seq(Participant) /\ IsInjective(others)
      /\ ToSet(others) = ToSet(order) \ {p}
  BY RemoveFirstDeletes DEF MemoIsSound
<1> HIDE DEF others
<1>3. /\ order' \in Seq(Participant) /\ IsInjective(order') /\ Len(order') = Len(others) + 1
      /\ ToSet(order') = ToSet(others) \cup {p}
  BY <1>1, <1>2, AppendJoins
<1>4. ToSet(order') = DOMAIN keyStates'
  BY <1>1, <1>2, <1>3 DEF MemoIsSound
<1>5. Len(order') <= MaxKeyStates
  <2>1. Len(others) < Len(order)
    BY <1>1, RemoveFirstDeletes DEF MemoIsSound, others
  <2> QED BY <1>2, <1>3, <2>1, DiscoveryLookupsAssumption DEF MemoIsSound, DiscoveryLookupsAssumption
<1> QED BY <1>1, <1>3, <1>4, <1>5 DEF MemoIsSound, Resolves

LEMMA RememberKeepsMemo ==
  ASSUME MemoIsSound, NEW p \in Participant, NEW log, Resolves(p, log), Remember(p, log)
  PROVE  MemoIsSound'
<1> DEFINE others == RemoveFirst(order, p)
           kept == IF Len(others) >= MaxKeyStates THEN Tail(others) ELSE others
<1>1. /\ keyStates' = [q \in ToSet(kept) \cup {p} |-> IF q = p THEN log ELSE keyStates[q]]
      /\ order' = Append(kept, p)
  BY DEF Remember
<1>2. /\ others \in Seq(Participant) /\ IsInjective(others)
      /\ ToSet(others) = ToSet(order) \ {p}
      /\ Len(others) <= Len(order)
  BY RemoveFirstDeletes DEF MemoIsSound
<1>3. MaxKeyStates \in Nat \ {0} /\ Len(order) <= MaxKeyStates
  BY DiscoveryLookupsAssumption DEF MemoIsSound, DiscoveryLookupsAssumption
<1> HIDE DEF others
<1>4. /\ kept \in Seq(Participant) /\ IsInjective(kept) /\ Len(kept) < MaxKeyStates
      /\ ToSet(kept) \subseteq ToSet(others)
  <2>1. CASE Len(others) >= MaxKeyStates
    <3>1. others # << >>
      BY <1>2, <1>3, <2>1
    <3>2. /\ Tail(others) \in Seq(Participant) /\ IsInjective(Tail(others))
          /\ Len(Tail(others)) = Len(others) - 1
          /\ ToSet(Tail(others)) = ToSet(others) \ {Head(others)}
      BY <1>2, <3>1, HeadLeaves
    <3>3. Len(order) \in Nat /\ Len(others) \in Nat
      BY <1>2 DEF MemoIsSound
    <3> QED BY <1>2, <1>3, <2>1, <3>2, <3>3
  <2>2. CASE ~(Len(others) >= MaxKeyStates)
    BY <1>2, <1>3, <2>2
  <2> QED BY <2>1, <2>2
<1> HIDE DEF kept
<1>5. p \notin ToSet(kept)
  BY <1>2, <1>4
<1>6. /\ order' \in Seq(Participant) /\ IsInjective(order') /\ Len(order') = Len(kept) + 1
      /\ ToSet(order') = ToSet(kept) \cup {p}
  BY <1>1, <1>4, <1>5, AppendJoins
<1>7. /\ DOMAIN keyStates' = {p} \cup ToSet(kept)
      /\ keyStates'[p] = log
      /\ \A q \in ToSet(kept) : keyStates'[q] = keyStates[q]
  BY <1>1, <1>5
<1>8. ToSet(kept) \subseteq DOMAIN keyStates
  BY <1>2, <1>4 DEF MemoIsSound
<1>9. Len(order') <= MaxKeyStates
  BY <1>3, <1>4, <1>6
<1> QED BY <1>6, <1>7, <1>8, <1>9 DEF MemoIsSound, Resolves

LEMMA MemoIsKept ==
  ASSUME MemoIsSound, Judged \/ Quiet
  PROVE  MemoIsSound'
<1>1. CASE UNCHANGED <<keyStates, order>>
  BY <1>1 DEF MemoIsSound, Resolves
<1>2. ASSUME NEW p \in Participant, NEW b, NEW log, MemoHit(p, b, log) PROVE MemoIsSound'
  BY <1>2, MemoHitKeepsMemo
<1>3. ASSUME NEW p \in Participant, NEW b, NEW log, MemoMiss(p, b, log) PROVE MemoIsSound'
  <2>1. CASE Resolves(p, log) /\ ~Outrun(b, log)
    BY <1>3, <2>1, RememberKeepsMemo DEF MemoMiss
  <2>2. CASE ~(Resolves(p, log) /\ ~Outrun(b, log))
    <3>1. keyStates' = Restrict(keyStates, DOMAIN keyStates \ {p}) /\ order' = RemoveFirst(order, p)
      BY <1>3, <2>2 DEF MemoMiss
    <3>2. /\ order' \in Seq(Participant) /\ IsInjective(order')
          /\ ToSet(order') = ToSet(order) \ {p}
          /\ Len(order') = IF p \in ToSet(order) THEN Len(order) - 1 ELSE Len(order)
      BY <3>1, RemoveFirstDeletes DEF MemoIsSound
    <3>3. Len(order') <= MaxKeyStates
      BY <3>2, DiscoveryLookupsAssumption DEF MemoIsSound, DiscoveryLookupsAssumption
    <3>4. /\ DOMAIN keyStates' = DOMAIN keyStates \ {p}
          /\ \A q \in DOMAIN keyStates' : keyStates'[q] = keyStates[q]
      BY <3>1 DEF Restrict
    <3> QED BY <3>2, <3>3, <3>4 DEF MemoIsSound, Resolves
  <2> QED BY <2>1, <2>2
<1>4. CASE Quiet
  BY <1>1, <1>4 DEF Quiet, memoVars
<1>5. CASE Judged
  <2>1. PICK p \in Participant, b \in Budget \cup {NoBudget}, log \in Logs : Judge(p, b, log)
    BY <1>5 DEF Judged
  <2> QED BY <1>1, <1>2, <1>3, <2>1 DEF Judge, NoLogResolves, memoVars
<1> QED BY <1>4, <1>5

-------------------------------------------------------------------------------
(* What is returned, by the step that returns it. *)
LEMMA KeyStateAnswers ==
  ASSUME Served, MemoIsSound, NEW p \in Participant, NEW b \in Budget \cup {NoBudget}, NEW log \in Logs,
         Judge(p, b, log)
  PROVE  AnswersTheLogInHand' /\ RevocationsComplete'
<1>1. ReplayCost(log) \in Nat /\ Affords(b) \in Nat
  BY DiscoveryLookupsAssumption
  DEF ReplayCost, Logs, Affords, Served, DiscoveryLookupsAssumption
<1>2. ASSUME NEW state, Returns(p, b, log, state)
      PROVE  /\ returned'.call = "getKeyState" /\ returned'.id = p /\ returned'.log = log
             /\ returned'.budget = b /\ returned'.affords = Affords(b) /\ returned'.state = state
  BY <1>2 DEF Returns
<1>3. ASSUME NEW state, Returns(p, b, log, state),
             \/ state = NoJob /\ b # NoBudget /\ ~(ReplayCost(log) <= Affords(b))
             \/ state = log /\ Resolves(p, log)
             \/ state = NoLog /\ ~Resolves(p, log)
             \/ state = NoLog /\ b = NoBudget /\ ~(ReplayCost(log) <= Affords(b))
      PROVE  AnswersTheLogInHand' /\ RevocationsComplete'
  <2> HIDE DEF Resolves, ReplayCost
  <2> QED BY <1>2, <1>3 DEF AnswersTheLogInHand, RevocationsComplete, Resolves, ReplayCost
<1>4. CASE NoLogResolves(p, b, log)
  <2>1. log = NoLog /\ ~Resolves(p, log)
    BY <1>4 DEF NoLogResolves, NoLog, Resolves
  <2> QED BY <1>3, <1>4, <2>1 DEF NoLogResolves
<1>5. CASE MemoHit(p, b, log)
  <2>1. keyStates[p] = log /\ Resolves(p, log)
    BY <1>5 DEF MemoHit, Remembered, MemoIsSound
  <2> QED BY <1>3, <1>5, <2>1 DEF MemoHit
<1>6. CASE MemoMiss(p, b, log)
  <2>1. CASE Resolves(p, log) /\ ~Outrun(b, log)
    BY <1>3, <1>6, <2>1 DEF MemoMiss
  <2>2. CASE Outrun(b, log)
    <3>1. ~(ReplayCost(log) <= Affords(b))
      BY <1>1, <2>2 DEF Outrun
    <3>2. Returns(p, b, log, IF b # NoBudget THEN NoJob ELSE NoLog)
      BY <1>6, <2>2 DEF MemoMiss
    <3> QED BY <1>3, <3>1, <3>2
  <2>3. CASE ~Resolves(p, log) /\ ~Outrun(b, log)
    BY <1>3, <1>6, <2>3 DEF MemoMiss
  <2> QED BY <2>1, <2>2, <2>3
<1> QED BY <1>4, <1>5, <1>6 DEF Judge

LEMMA RevocationAnswers ==
  ASSUME Working, NEW l \in Lookup, RevocationsEnd(l)
  PROVE  AnswersTheLogInHand' /\ RevocationsComplete'
<1>1. job[l] \in RevocationJobs /\ NothingMissed(job[l])
  BY CallsTellJobs DEF RevocationsEnd, Answered, Working
<1>2. returned' = job[l] /\ job[l].call = "getRevocations" /\ job[l].at = "answered"
  BY DEF RevocationsEnd, Answered
<1>3. job[l].before \subseteq job[l].found
  <2> SUFFICES ASSUME NEW x \in job[l].before PROVE x \in job[l].found
    OBVIOUS
  <2>1. x \in ToSet(Issuers)
    BY <1>1, DiscoveryLookupsAssumption DEF NothingMissed, RevokedFor, DiscoveryLookupsAssumption
  <2>2. PICK c \in 1 .. Len(Chunks) : x \in ToSet(Chunks[c])
    BY <2>1, ChunksCoverIssuers
  <2>3. job[l].chunk \in 1 .. Len(Chunks) /\ job[l].chunk >= Len(Chunks)
    BY <1>1 DEF RevocationJobs, RevocationsEnd
  <2>4. c \in AnsweredPieces(job[l])
    BY <1>2, <2>2, <2>3, ChunksCoverIssuers DEF AnsweredPieces
  <2> QED BY <1>1, <2>2, <2>4 DEF NothingMissed
<1> QED BY <1>2, <1>3 DEF AnswersTheLogInHand, RevocationsComplete

LEMMA AnswersAreRight ==
  ASSUME Served, Working, MemoIsSound, Judged \/ Quiet
  PROVE  AnswersTheLogInHand' /\ RevocationsComplete'
<1>1. CASE returned' = NoJob
  BY <1>1 DEF NoJob, AnswersTheLogInHand, RevocationsComplete
<1> QED BY <1>1, KeyStateAnswers, RevocationAnswers DEF Judged, Quiet

-------------------------------------------------------------------------------
LEMMA LookupsStart == Init => LookupInvariant
<1> SUFFICES ASSUME Init PROVE LookupInvariant
  OBVIOUS
<1>1. Throttled
  BY ThrottleStarts DEF Init
<1>2. Served /\ Working
  <2>1. NoJob \notin KeyJobs /\ NoJob \notin RevocationJobs
    BY DEF NoJob, KeyJobs, RevocationJobs
  <2> QED BY <2>1, AgesAreNatural, DiscoveryLookupsAssumption
          DEF Init, Served, Working, DiscoveryLookupsAssumption
<1>5. EntriesAreComplete
  <2>1. NoEntry \in [found : SUBSET Participant, left : 0 .. Ttl] /\ ~(NoEntry.left > 0)
    BY AgesAreNatural DEF NoEntry
  <2> QED BY <2>1 DEF Init, EntriesAreComplete, Fresh
<1>3. MemoIsSound
  BY DiscoveryLookupsAssumption DEF Init, MemoIsSound, IsInjective, ToSet, DiscoveryLookupsAssumption
<1>4. AnswersTheLogInHand /\ RevocationsComplete
  BY DEF Init, NoJob, AnswersTheLogInHand, RevocationsComplete
<1> QED BY <1>1, <1>2, <1>3, <1>4, <1>5 DEF LookupInvariant

LEMMA LookupInvariantIsInductive == LookupInvariant /\ [Next]_vars => LookupInvariant'
<1>1. ASSUME LookupInvariant, Next PROVE LookupInvariant'
  BY <1>1, LookupsAreThrottled, ThrottleKept, WhoIsJudged, ServedIsKept, WorkIsKept, EntriesAreKept,
     MemoIsKept, AnswersAreRight
  DEF LookupInvariant
<1>2. ASSUME LookupInvariant, UNCHANGED vars PROVE LookupInvariant'
  <2>1. Throttled'
    BY <1>2, ThrottleKept DEF LookupInvariant, vars
  <2>2. UNCHANGED lookupVars
    BY <1>2 DEF vars
  <2>3. Served' /\ Working'
    BY <1>2, <2>2
    DEF LookupInvariant, lookupVars, serviceVars, Served, Working, NothingMissed, AnsweredPieces, Chunks,
        RevokedFor
  <2>6. EntriesAreComplete'
    BY <1>2, <2>2
    DEF LookupInvariant, lookupVars, serviceVars, EntriesAreComplete, Fresh, KnownAge, EntryAge, Chunks,
        RevokedFor
  <2>4. MemoIsSound'
    BY <1>2, <2>2 DEF LookupInvariant, lookupVars, memoVars, MemoIsSound, Resolves
  <2>5. AnswersTheLogInHand' /\ RevocationsComplete'
    BY <1>2, <2>2
    DEF LookupInvariant, lookupVars, AnswersTheLogInHand, RevocationsComplete, Resolves, ReplayCost
  <2> QED BY <2>1, <2>3, <2>4, <2>5, <2>6 DEF LookupInvariant
<1> QED BY <1>1, <1>2

LEMMA LookupsKeepInvariant == Spec => []LookupInvariant
<1> QED BY LookupsStart, LookupInvariantIsInductive, PTL DEF Spec

(* The handover of a slot loses no wakeup: whatever ends an exchange or a wait,   *)
(* a lookup waits only while every slot is taken.                                 *)
THEOREM SlotsAreUsed == Spec => []NoIdleSlotWhileWaiting
<1>1. LookupInvariant => NoIdleSlotWhileWaiting
  BY DEF LookupInvariant, Throttled
<1> QED BY <1>1, LookupsKeepInvariant, PTL

(* getKeyState answers for the log it was sent, however the memo was filled,      *)
(* reordered and emptied by other lookups meanwhile; and it is refused for the    *)
(* cost only by what its request has left, or the view's ceiling, at that moment. *)
THEOREM LookupsAnswerTheLogInHand == Spec => []AnswersTheLogInHand
<1>1. LookupInvariant => AnswersTheLogInHand
  BY DEF LookupInvariant
<1> QED BY <1>1, LookupsKeepInvariant, PTL

(* getRevocations misses nothing that was published one lifetime of the cache and *)
(* one fetch deadline before it was called, for any number of issuers, any size   *)
(* of a piece, and whichever pieces the cache answers.                            *)
THEOREM RevocationLookupsMissNothing == Spec => []RevocationsComplete
<1>1. LookupInvariant => RevocationsComplete
  BY DEF LookupInvariant
<1> QED BY <1>1, LookupsKeepInvariant, PTL
===============================================================================
