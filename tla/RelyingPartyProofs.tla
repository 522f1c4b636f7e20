-------------------------- MODULE RelyingPartyProofs --------------------------
(***************************************************************************)
(* The replay-nonce guard implements its windows, for every set of nonces,  *)
(* ceiling and window; a request is accepted at most once, however many     *)
(* handlers run; and what a surface lets in was signed just so, for every   *)
(* set of messages and of records in hand, every decoding and every key.    *)
(***************************************************************************)
EXTENDS RelyingParty, NonceGuardCaller, FiniteSetTheorems, WellFoundedInduction, TLAPS

-------------------------------------------------------------------------------
(* What the operators of NonceGuard keep, drop and yield: for this caller and   *)
(* for the request verifier.                                                   *)
(* Retention lasts at least one tick. *)
LEMMA TtlPositive == TtlTicks \in Nat \ {0}
  BY NonceGuardAssumption, SMT DEF TtlTicks, ReplayTtlSeconds

(* A Map with at least one entry has an oldest one. *)
LEMMA OldestExists ==
  ASSUME NEW map, \A n \in DOMAIN map : map[n].pos \in Nat, DOMAIN map # {}
  PROVE  \E n \in DOMAIN map : IsOldest(map, n)
<1> DEFINE Places == {map[n].pos : n \in DOMAIN map}
<1>1. Places \subseteq Nat /\ Places # {}
  OBVIOUS
<1>2. PICK p \in Places : \A q \in Places : ~(<<q, p>> \in OpToRel(<, Nat))
  BY <1>1, WFMin, NatLessThanWellFounded
<1>3. \A q \in Places : ~(q < p)
  BY <1>1, <1>2 DEF OpToRel
<1>4. PICK n \in DOMAIN map : map[n].pos = p
  OBVIOUS
<1>5. ASSUME NEW m \in DOMAIN map
      PROVE  map[n].pos <= map[m].pos
  <2>1. map[m].pos \in Places
    OBVIOUS
  <2>2. ~(map[m].pos < p)
    BY <1>3, <2>1
  <2>3. map[m].pos \in Nat /\ map[n].pos \in Nat
    OBVIOUS
  <2> QED
    BY <1>4, <2>2, <2>3
<1> QED
  BY <1>4, <1>5 DEF IsOldest

(* sweep keeps exactly the live entries, unaltered. *)
LEMMA SweptFacts ==
  ASSUME NEW map
  PROVE  /\ DOMAIN Swept(map) = {n \in DOMAIN map : map[n].expires > mono}
         /\ \A n \in DOMAIN Swept(map) : Swept(map)[n] = map[n]
  BY DEF Swept, Restrict

(* The paced sweep loses no live entry and alters none. *)
LEMMA PacedFacts ==
  /\ DOMAIN Paced \subseteq DOMAIN seen
  /\ \A n \in DOMAIN Paced : Paced[n] = seen[n]
  /\ \A n \in DOMAIN seen : seen[n].expires > mono => n \in DOMAIN Paced
  BY SweptFacts DEF Paced

(* Pruning for a nonce that is not live loses no live entry, alters none, and *)
(* deletes the nonce's own expired entry.                                     *)
LEMMA PrunedFacts ==
  ASSUME NEW n, ~LiveIn(Paced, n)
  PROVE  /\ DOMAIN Pruned(n) \subseteq DOMAIN seen \ {n}
         /\ \A m \in DOMAIN Pruned(n) : Pruned(n)[m] = seen[m]
         /\ \A m \in DOMAIN seen : seen[m].expires > mono => m \in DOMAIN Pruned(n)
<1> DEFINE rest == Forget(Paced, n)
<1>1. /\ DOMAIN rest = DOMAIN Paced \ {n}
      /\ \A m \in DOMAIN rest : rest[m] = Paced[m]
  BY DEF Forget, Restrict
<1>2. \A m \in DOMAIN seen : seen[m].expires > mono => m # n
  BY PacedFacts DEF LiveIn
<1>3. CASE Full(rest) /\ SweepCouldFree(rest)
  <2>1. Pruned(n) = Swept(rest)
    BY <1>3 DEF Pruned
  <2> HIDE DEF rest
  <2>2. /\ DOMAIN Pruned(n) = {m \in DOMAIN rest : rest[m].expires > mono}
        /\ \A m \in DOMAIN Pruned(n) : Pruned(n)[m] = rest[m]
    BY <2>1, SweptFacts
  <2>3. \A m \in DOMAIN rest : rest[m] = seen[m]
    BY <1>1, PacedFacts
  <2>4. \A m \in DOMAIN seen : seen[m].expires > mono => m \in DOMAIN rest
    BY <1>1, <1>2, PacedFacts
  <2> QED
    BY <1>1, <2>2, <2>3, <2>4, PacedFacts
<1>4. CASE ~(Full(rest) /\ SweepCouldFree(rest))
  <2>1. Pruned(n) = rest
    BY <1>4 DEF Pruned
  <2> HIDE DEF rest
  <2> QED
    BY <2>1, <1>1, <1>2, PacedFacts
<1> QED
  BY <1>3, <1>4

(* The paced and the pruned Map are Maps of entries again. *)
LEMMA PacedType ==
  ASSUME GuardTypeOK
  PROVE  Paced \in [DOMAIN Paced -> Entry]
<1>1. Paced = [n \in DOMAIN Paced |-> Paced[n]]
  BY DEF Paced, Swept, Restrict, GuardTypeOK
<1> QED
  BY <1>1, PacedFacts DEF GuardTypeOK

\* What pruning leaves behind (check, before it records) is still a Map of
\* entries, when the nonce being checked has none that is live.
LEMMA PrunedType ==
  ASSUME GuardTypeOK, NEW n, ~LiveIn(Paced, n)
  PROVE  Pruned(n) \in [DOMAIN Pruned(n) -> Entry]
<1>1. Pruned(n) = [m \in DOMAIN Pruned(n) |-> Pruned(n)[m]]
  BY DEF Pruned, Swept, Forget, Restrict
<1> QED
  BY <1>1, PrunedFacts DEF GuardTypeOK

-------------------------------------------------------------------------------
(* The whole of check, whatever it answers: types are kept, no live entry is  *)
(* dropped or altered, nothing but the nonce itself is added, and it is added *)
(* only when it was not live, with a full retention window ahead of it.       *)
LEMMA CheckFacts ==
  ASSUME GuardTypeOK, NEW n \in Nonce, NEW at, NEW verdict,
         Check(n, at, verdict), UNCHANGED mono
  PROVE  /\ GuardTypeOK'
         /\ \A m \in DOMAIN seen :
               seen[m].expires > mono => m \in DOMAIN seen' /\ seen'[m] = seen[m]
         /\ \A m \in DOMAIN seen' :
               \/ m \in DOMAIN seen /\ seen'[m] = seen[m]
               \/ m = n /\ verdict = "fresh"
         /\ verdict = "fresh" =>
               /\ n \in DOMAIN seen'
               /\ seen'[n].expires = mono + TtlTicks
               /\ ~LiveIn(seen, n)
         /\ verdict # "fresh" => inserted' = inserted
<1>1. CASE verdict = "clock_invalid"
  BY <1>1 DEF Check, CheckClockInvalid, guardVars, GuardTypeOK
<1>2. CASE verdict = "replayed"
  <2>1. /\ seen' = Paced
        /\ UNCHANGED inserted
        /\ lastSweep' \in Nat \cup {NeverSwept}
    BY <1>2 DEF Check, CheckReplayed, GuardTypeOK
  <2> QED
    BY <1>2, <2>1, PacedFacts, PacedType DEF GuardTypeOK
<1>3. CASE verdict = "at_capacity"
  <2>1. /\ ~LiveIn(Paced, n)
        /\ seen' = Pruned(n)
        /\ UNCHANGED inserted
        /\ lastSweep' \in Nat \cup {NeverSwept}
    BY <1>3 DEF Check, CheckAtCapacity, GuardTypeOK
  <2> QED
    BY <1>3, <2>1, PrunedFacts, PrunedType DEF GuardTypeOK
<1>4. CASE verdict = "fresh"
  <2> DEFINE map == Pruned(n)
  <2>1. /\ ~LiveIn(Paced, n)
        /\ seen' = Record(map, n)
        /\ inserted' = inserted + 1
        /\ lastSweep' \in Nat \cup {NeverSwept}
    BY <1>4 DEF Check, CheckFresh, GuardTypeOK
  <2>2. /\ DOMAIN map \subseteq DOMAIN seen \ {n}
        /\ \A m \in DOMAIN map : map[m] = seen[m]
        /\ \A m \in DOMAIN seen : seen[m].expires > mono => m \in DOMAIN map
    BY <2>1, PrunedFacts
  <2> HIDE DEF map
  <2>3. /\ DOMAIN seen' = DOMAIN map \cup {n}
        /\ seen'[n] = [expires |-> mono + TtlTicks, pos |-> inserted]
        /\ \A m \in DOMAIN map : m # n /\ seen'[m] = seen[m]
        /\ seen' = [m \in DOMAIN map \cup {n} |-> seen'[m]]
    BY <2>1, <2>2 DEF Record
  <2>4. [expires |-> mono + TtlTicks, pos |-> inserted] \in Entry
    BY TtlPositive DEF GuardTypeOK, Entry
  <2>5. GuardTypeOK'
    <3>1. \A m \in DOMAIN seen' : seen'[m] \in Entry
      BY <2>2, <2>3, <2>4 DEF GuardTypeOK
    <3> QED
      BY <2>1, <2>2, <2>3, <3>1 DEF GuardTypeOK
  <2>6. ~LiveIn(seen, n)
    BY <2>1, PacedFacts DEF LiveIn
  <2> QED
    BY <1>4, <2>2, <2>3, <2>5, <2>6
<1> QED
  BY <1>1, <1>2, <1>3, <1>4 DEF Check

(* The order of the Map, whoever calls: first in, first to expire; one place   *)
(* each; and no deadline beyond one window from now.                           *)
DeadlineOrder == InsertionOrderIsDeadlineOrder /\ PlacesDistinct /\ DeadlinesWithinWindow

(* check keeps the order: it only drops entries, and what it adds goes to the  *)
(* back with the latest of all deadlines.                                      *)
LEMMA CheckKeepsOrder ==
  ASSUME GuardTypeOK, DeadlineOrder, NEW n \in Nonce, NEW at, NEW verdict,
         Check(n, at, verdict), UNCHANGED mono
  PROVE  DeadlineOrder'
<1>1. \A m \in DOMAIN seen' :
         \/ m \in DOMAIN seen /\ seen'[m] = seen[m]
         \/ m = n /\ verdict = "fresh"
  BY CheckFacts
<1>2. verdict # "fresh" => inserted' = inserted
  BY CheckFacts
<1>3. /\ mono \in Nat /\ inserted \in Nat /\ TtlTicks \in Nat /\ TtlTicks' = TtlTicks
      /\ \A m \in DOMAIN seen : seen[m].expires \in Nat /\ seen[m].pos \in Nat
      /\ \A m \in DOMAIN seen : seen[m].pos < inserted /\ seen[m].expires <= mono + TtlTicks
  BY TtlPositive
  DEF GuardTypeOK, Entry, DeadlineOrder, PlacesDistinct, DeadlinesWithinWindow, TtlTicks
<1>4. CASE verdict # "fresh"
  <2>1. \A m \in DOMAIN seen' : m \in DOMAIN seen /\ seen'[m] = seen[m]
    BY <1>1, <1>4
  <2> QED
    BY <1>2, <1>3, <1>4, <2>1
    DEF DeadlineOrder, InsertionOrderIsDeadlineOrder, PlacesDistinct, DeadlinesWithinWindow
<1>5. CASE verdict = "fresh"
  <2>1. seen' = Record(Pruned(n), n) /\ inserted' = inserted + 1 /\ ~LiveIn(Paced, n)
    BY <1>5 DEF Check, CheckFresh
  <2>2. seen'[n] = [expires |-> mono + TtlTicks, pos |-> inserted]
    BY <2>1 DEF Record
  <2>3. \A m \in DOMAIN seen' : m # n => m \in DOMAIN seen /\ seen'[m] = seen[m]
    BY <1>1
  <2>4. InsertionOrderIsDeadlineOrder'
    <3> SUFFICES ASSUME NEW k \in DOMAIN seen', NEW m \in DOMAIN seen',
                        seen'[k].pos < seen'[m].pos
                 PROVE  seen'[k].expires <= seen'[m].expires
      BY DEF InsertionOrderIsDeadlineOrder
    <3>1. CASE k = n
      BY <1>3, <2>2, <2>3, <3>1
    <3>2. CASE k # n /\ m = n
      BY <1>3, <2>2, <2>3, <3>2
    <3>3. CASE k # n /\ m # n
      BY <2>3, <3>3 DEF DeadlineOrder, InsertionOrderIsDeadlineOrder
    <3> QED
      BY <3>1, <3>2, <3>3
  <2>5. \A m \in DOMAIN seen' : seen'[m].pos < inserted'
    BY <1>3, <2>1, <2>2, <2>3
  <2>6. \A k, m \in DOMAIN seen' : seen'[k].pos = seen'[m].pos => k = m
    <3> SUFFICES ASSUME NEW k \in DOMAIN seen', NEW m \in DOMAIN seen',
                        seen'[k].pos = seen'[m].pos
                 PROVE  k = m
      OBVIOUS
    <3>1. CASE k = n \/ m = n
      BY <1>3, <2>2, <2>3, <3>1
    <3>2. CASE k # n /\ m # n
      BY <2>3, <3>2 DEF DeadlineOrder, PlacesDistinct
    <3> QED
      BY <3>1, <3>2
  <2>7. \A m \in DOMAIN seen' : seen'[m].expires <= mono' + TtlTicks
    BY <1>3, <2>2, <2>3
  <2> QED
    BY <1>3, <2>4, <2>5, <2>6, <2>7 DEF DeadlineOrder, PlacesDistinct, DeadlinesWithinWindow
<1> QED
  BY <1>4, <1>5

(* Time keeps it too. *)
LEMMA TimeKeepsOrder ==
  ASSUME GuardTypeOK, DeadlineOrder, mono' \in Nat, mono' >= mono, UNCHANGED <<seen, inserted>>
  PROVE  DeadlineOrder'
<1>1. \A m \in DOMAIN seen : seen[m].expires \in Nat
  BY DEF GuardTypeOK, Entry
<1>2. TtlTicks \in Nat /\ TtlTicks' = TtlTicks /\ mono \in Nat
  BY TtlPositive DEF TtlTicks, GuardTypeOK
<1>3. DeadlinesWithinWindow'
  BY <1>1, <1>2 DEF DeadlineOrder, DeadlinesWithinWindow
<1> QED
  BY <1>3 DEF DeadlineOrder, InsertionOrderIsDeadlineOrder, PlacesDistinct

-------------------------------------------------------------------------------
(* The conjuncts of CallerTypeOK that the caller's history adds to the guard's. *)
HistoryTypeOK ==
    /\ openUntil \in [Nonce -> Nat]
    /\ said \in {NothingSaid} \cup (Nonce \X Verdict)

(* The O(1) look at the first entry is exact: a Map still full after pruning *)
(* holds live entries only.                                                  *)
LEMMA FullOfLiveEntries ==
  ASSUME GuardTypeOK, InsertionOrderIsDeadlineOrder, PlacesDistinct,
         NEW n, ~LiveIn(Paced, n), Full(Pruned(n))
  PROVE  \A m \in DOMAIN Pruned(n) : seen[m].expires > mono
<1> DEFINE rest == Forget(Paced, n)
<1>1. /\ DOMAIN rest \subseteq DOMAIN seen
      /\ \A m \in DOMAIN rest : rest[m] = seen[m]
  BY PacedFacts DEF Forget, Restrict
<1>2. CASE Full(rest) /\ SweepCouldFree(rest)
  <2>1. Pruned(n) = Swept(rest)
    BY <1>2 DEF Pruned
  <2> HIDE DEF rest
  <2> QED
    BY <2>1, <1>1, SweptFacts
<1>3. CASE ~(Full(rest) /\ SweepCouldFree(rest))
  <2>1. Pruned(n) = rest
    BY <1>3 DEF Pruned
  <2>2. ~SweepCouldFree(rest)
    BY <1>3, <2>1
  <2> HIDE DEF rest
  <2>3. SUFFICES ASSUME NEW m \in DOMAIN rest, ~(seen[m].expires > mono)
                 PROVE  FALSE
    BY <2>1
  <2>4. \A k \in DOMAIN rest : rest[k].pos \in Nat /\ rest[k].expires \in Nat
    BY <1>1 DEF GuardTypeOK, Entry
  <2>5. PICK o \in DOMAIN rest : IsOldest(rest, o)
    BY <2>3, <2>4, OldestExists
  <2>6. rest[o].pos <= rest[m].pos
    BY <2>3, <2>5 DEF IsOldest
  <2>7. rest[o].expires <= rest[m].expires
    <3>1. CASE rest[o].pos < rest[m].pos
      BY <3>1, <1>1, <2>3, <2>5 DEF InsertionOrderIsDeadlineOrder
    <3>2. CASE rest[o].pos = rest[m].pos
      BY <3>2, <1>1, <2>3, <2>4, <2>5 DEF PlacesDistinct
    <3> QED
      BY <2>4, <2>6, <3>1, <3>2
  <2>8. rest[o].expires <= mono
    BY <1>1, <2>3, <2>4, <2>7 DEF GuardTypeOK
  <2> QED
    BY <2>2, <2>5, <2>8 DEF SweepCouldFree
<1> QED
  BY <1>2, <1>3

-------------------------------------------------------------------------------
(* A step that only drops expired entries preserves the invariant. *)
LEMMA DroppingExpiredKeepsInvariant ==
  ASSUME GuardInvariant, NEW map,
         DOMAIN map \subseteq DOMAIN seen,
         map \in [DOMAIN map -> Entry],
         \A m \in DOMAIN map : map[m] = seen[m],
         \A m \in DOMAIN seen : seen[m].expires > mono => m \in DOMAIN map,
         seen' = map, UNCHANGED <<inserted, mono, openUntil>>,
         lastSweep' \in Nat \cup {NeverSwept},
         said' \in Nonce \X Verdict
  PROVE  GuardInvariant'
<1> USE DEF GuardInvariant
<1>1. CallerTypeOK'
  BY DEF CallerTypeOK, GuardTypeOK
<1>2. InsertionOrderIsDeadlineOrder'
  BY DEF InsertionOrderIsDeadlineOrder
<1>3. PlacesDistinct'
  BY DEF PlacesDistinct
<1>4. MapHoldsOpenWindows'
  BY DEF MapHoldsOpenWindows
<1>5. DeadlinesWithinWindow'
  BY DEF DeadlinesWithinWindow
<1> QED
  BY <1>1, <1>2, <1>3, <1>4, <1>5

(* The step that records a nonce preserves the invariant. *)
LEMMA FreshKeepsInvariant ==
  ASSUME GuardInvariant, NEW n \in Nonce, NEW at, CheckFresh(n, at),
         UNCHANGED mono,
         openUntil' = [openUntil EXCEPT ![n] = mono + TtlTicks],
         said' \in Nonce \X Verdict
  PROVE  GuardInvariant'
<1> DEFINE map == Pruned(n)
<1>1. ~LiveIn(Paced, n)
  BY DEF CheckFresh
<1>2. GuardTypeOK /\ HistoryTypeOK
  BY DEF GuardInvariant, CallerTypeOK, HistoryTypeOK
<1>3. /\ DOMAIN map \subseteq DOMAIN seen \ {n}
      /\ \A m \in DOMAIN map : map[m] = seen[m]
      /\ \A m \in DOMAIN seen : seen[m].expires > mono => m \in DOMAIN map
  BY <1>1, PrunedFacts
<1>4. /\ seen' = Record(map, n)
      /\ inserted' = inserted + 1
      /\ lastSweep' \in Nat \cup {NeverSwept}
  BY <1>2 DEF CheckFresh, GuardTypeOK
<1> HIDE DEF map
<1>5. /\ DOMAIN seen' = DOMAIN map \cup {n}
      /\ seen'[n] = [expires |-> mono + TtlTicks, pos |-> inserted]
      /\ \A m \in DOMAIN map : m # n /\ seen'[m] = seen[m]
      /\ seen' = [m \in DOMAIN map \cup {n} |-> seen'[m]]
  BY <1>3, <1>4 DEF Record
<1>6. /\ mono \in Nat /\ inserted \in Nat /\ TtlTicks \in Nat \ {0}
      /\ \A m \in DOMAIN seen : seen[m].expires \in Nat /\ seen[m].pos \in Nat
      /\ \A m \in DOMAIN seen : seen[m].pos < inserted
      /\ \A m \in DOMAIN seen : seen[m].expires <= mono + TtlTicks
  BY <1>2, TtlPositive
     DEF GuardTypeOK, Entry, GuardInvariant, PlacesDistinct, DeadlinesWithinWindow
<1>7. [expires |-> mono + TtlTicks, pos |-> inserted] \in Entry
  BY <1>6 DEF Entry
<1>8. CallerTypeOK'
  <2>1. \A m \in DOMAIN seen' : seen'[m] \in Entry
    BY <1>2, <1>3, <1>5, <1>7 DEF GuardTypeOK
  <2>2. GuardTypeOK'
    BY <1>2, <1>3, <1>4, <1>5, <1>6, <2>1 DEF GuardTypeOK
  <2>3. HistoryTypeOK'
    BY <1>2, <1>6 DEF HistoryTypeOK
  <2> QED
    BY <2>2, <2>3 DEF CallerTypeOK, HistoryTypeOK
<1>9. InsertionOrderIsDeadlineOrder'
  <2> SUFFICES ASSUME NEW k \in DOMAIN seen', NEW m \in DOMAIN seen',
                      seen'[k].pos < seen'[m].pos
               PROVE  seen'[k].expires <= seen'[m].expires
    BY DEF InsertionOrderIsDeadlineOrder
  <2>1. CASE k = n
    BY <2>1, <1>3, <1>5, <1>6
  <2>2. CASE k # n /\ m = n
    BY <2>2, <1>3, <1>5, <1>6
  <2>3. CASE k # n /\ m # n
    BY <2>3, <1>3, <1>5 DEF GuardInvariant, InsertionOrderIsDeadlineOrder
  <2> QED
    BY <2>1, <2>2, <2>3
<1>10. PlacesDistinct'
  <2>1. \A m \in DOMAIN seen' : seen'[m].pos < inserted'
    BY <1>3, <1>4, <1>5, <1>6
  <2>2. \A k, m \in DOMAIN seen' : seen'[k].pos = seen'[m].pos => k = m
    BY <1>3, <1>5, <1>6 DEF GuardInvariant, PlacesDistinct
  <2> QED
    BY <2>1, <2>2 DEF PlacesDistinct
<1>11. MapHoldsOpenWindows'
  <2>1. openUntil'[n] = mono + TtlTicks
    BY <1>2 DEF HistoryTypeOK
  <2>2. \A m \in Nonce : m # n => openUntil'[m] = openUntil[m]
    BY <1>2 DEF HistoryTypeOK
  <2>3. \A m \in Nonce : openUntil'[m] > mono' => m \in DOMAIN seen'
    BY <1>3, <1>5, <2>2 DEF GuardInvariant, MapHoldsOpenWindows
  <2>4. DOMAIN seen \subseteq Nonce
    BY <1>2 DEF GuardTypeOK
  <2>5. \A m \in DOMAIN seen' : seen'[m].expires = openUntil'[m]
    BY <1>3, <1>5, <2>1, <2>2, <2>4 DEF GuardInvariant, MapHoldsOpenWindows
  <2> QED
    BY <2>3, <2>5 DEF MapHoldsOpenWindows
<1>12. DeadlinesWithinWindow'
  BY <1>3, <1>5, <1>6 DEF DeadlinesWithinWindow, TtlTicks
<1> QED
  BY <1>8, <1>9, <1>10, <1>11, <1>12 DEF GuardInvariant

-------------------------------------------------------------------------------
(* GuardInvariant is an invariant: the Map holds exactly the open windows,   *)
(* in deadline order, whatever is called and however time passes.            *)
THEOREM GuardInvariantHolds == CallerSpec => []GuardInvariant
<1>1. CallerInit => GuardInvariant
  BY DEF CallerInit, GuardInit, GuardInvariant, CallerTypeOK, GuardTypeOK, NeverSwept, NothingSaid,
         InsertionOrderIsDeadlineOrder, PlacesDistinct, MapHoldsOpenWindows,
         DeadlinesWithinWindow
<1>2. ASSUME GuardInvariant, [CallerNext]_callerVars
      PROVE  GuardInvariant'
  <2>1. GuardTypeOK
    BY <1>2 DEF GuardInvariant, CallerTypeOK
  <2>2. CASE PassTime
    <3>1. /\ mono' \in Nat /\ mono' > mono
          /\ UNCHANGED <<seen, inserted, lastSweep, openUntil>>
          /\ said' = NothingSaid
      BY <2>1, <2>2 DEF PassTime, guardVars, GuardTypeOK
    <3>2. CallerTypeOK'
      BY <1>2, <3>1 DEF GuardInvariant, CallerTypeOK, GuardTypeOK
    <3>3. InsertionOrderIsDeadlineOrder' /\ PlacesDistinct'
      BY <1>2, <3>1
         DEF GuardInvariant, InsertionOrderIsDeadlineOrder, PlacesDistinct
    <3>4. MapHoldsOpenWindows'
      BY <1>2, <2>1, <3>1 DEF GuardInvariant, CallerTypeOK, GuardTypeOK, MapHoldsOpenWindows
    <3>5. DeadlinesWithinWindow'
      BY <1>2, <2>1, <3>1, TtlPositive
         DEF GuardInvariant, GuardTypeOK, Entry, DeadlinesWithinWindow, TtlTicks
    <3> QED
      BY <3>2, <3>3, <3>4, <3>5 DEF GuardInvariant
  <2>3. ASSUME NEW n \in Nonce, NEW at \in Readings, CallCheck(n, at)
        PROVE  GuardInvariant'
    <3>1. PICK verdict \in Verdict :
              /\ Check(n, at, verdict)
              /\ said' = <<n, verdict>>
              /\ openUntil' = IF verdict = "fresh"
                              THEN [openUntil EXCEPT ![n] = mono + TtlTicks]
                              ELSE openUntil
              /\ UNCHANGED mono
      BY <2>3 DEF CallCheck
    <3>2. said' \in Nonce \X Verdict
      BY <3>1
    <3>3. CASE verdict = "fresh"
      BY <1>2, <3>1, <3>2, <3>3, FreshKeepsInvariant DEF Check
    <3>4. CASE verdict = "replayed"
      <4>1. /\ seen' = Paced
            /\ UNCHANGED <<inserted, mono, openUntil>>
            /\ lastSweep' \in Nat \cup {NeverSwept}
        BY <2>1, <3>1, <3>4 DEF Check, CheckReplayed, GuardTypeOK
      <4> QED
        BY <1>2, <2>1, <3>2, <4>1, PacedFacts, PacedType,
           DroppingExpiredKeepsInvariant
    <3>5. CASE verdict = "at_capacity"
      <4>1. /\ ~LiveIn(Paced, n)
            /\ seen' = Pruned(n)
            /\ UNCHANGED <<inserted, mono, openUntil>>
            /\ lastSweep' \in Nat \cup {NeverSwept}
        BY <2>1, <3>1, <3>5 DEF Check, CheckAtCapacity, GuardTypeOK
      <4> QED
        BY <1>2, <2>1, <3>2, <4>1, PrunedFacts, PrunedType,
           DroppingExpiredKeepsInvariant
    <3>6. CASE verdict = "clock_invalid"
      <4>1. UNCHANGED <<seen, inserted, lastSweep, mono, openUntil>>
        BY <3>1, <3>6 DEF Check, CheckClockInvalid, guardVars
      <4> QED
        BY <1>2, <2>1, <3>2, <4>1, DroppingExpiredKeepsInvariant DEF GuardTypeOK
    <3> QED
      BY <3>3, <3>4, <3>5, <3>6 DEF Verdict
  <2>4. CASE UNCHANGED callerVars
    BY <1>2, <2>4
       DEF callerVars, GuardInvariant, CallerTypeOK, GuardTypeOK, InsertionOrderIsDeadlineOrder,
           PlacesDistinct, MapHoldsOpenWindows, DeadlinesWithinWindow
  <2> QED
    BY <1>2, <2>2, <2>3, <2>4 DEF CallerNext
<1> QED
  BY <1>1, <1>2, PTL DEF CallerSpec

-------------------------------------------------------------------------------
(* The abstract module counts with the same Cardinality. *)
LEMMA SameCardinality == \A S : Window!Cardinality(S) = Cardinality(S)
  BY DEF Window!Cardinality, Cardinality

(* The live entries of the Map are the open windows of the abstract guard. *)
LEMMA LiveEntriesAreOpenWindows ==
  ASSUME GuardInvariant
  PROVE  Window!Open = {n \in DOMAIN seen : seen[n].expires > mono}
<1>1. DOMAIN seen \subseteq Nonce
  BY DEF GuardInvariant, CallerTypeOK, GuardTypeOK
<1> QED
  BY <1>1 DEF Window!Open, GuardInvariant, MapHoldsOpenWindows

(* "replayed" is answered exactly of the nonces with an open window. *)
LEMMA LiveIffOpen ==
  ASSUME GuardInvariant, NEW n \in Nonce
  PROVE  LiveIn(Paced, n) <=> n \in Window!Open
  BY LiveEntriesAreOpenWindows, PacedFacts DEF LiveIn

(* The ceiling refuses exactly when that many windows are open. *)
LEMMA FullIffAllOpen ==
  ASSUME GuardInvariant, NEW n \in Nonce, ~LiveIn(Paced, n)
  PROVE  Full(Pruned(n)) <=> Cardinality(Window!Open) >= MaxEntries
<1>1. IsFiniteSet(DOMAIN Pruned(n))
  <2>1. DOMAIN Pruned(n) \subseteq Nonce
    BY PrunedFacts DEF GuardInvariant, CallerTypeOK, GuardTypeOK
  <2> QED
    BY <2>1, FS_Subset, NonceGuardAssumption
<1>2. Window!Open \subseteq DOMAIN Pruned(n)
  BY LiveEntriesAreOpenWindows, PrunedFacts
<1>3. Cardinality(Window!Open) <= Cardinality(DOMAIN Pruned(n))
  BY <1>1, <1>2, FS_Subset
<1>4. /\ Cardinality(Window!Open) \in Nat
      /\ Cardinality(DOMAIN Pruned(n)) \in Nat
  BY <1>1, <1>2, FS_Subset, FS_CardinalityType
<1>5. ASSUME Full(Pruned(n))
      PROVE  DOMAIN Pruned(n) \subseteq Window!Open
  <2>1. \A m \in DOMAIN Pruned(n) : seen[m].expires > mono
    BY <1>5, FullOfLiveEntries DEF GuardInvariant, CallerTypeOK
  <2> QED
    BY <2>1, LiveEntriesAreOpenWindows, PrunedFacts
<1>6. ASSUME Full(Pruned(n))
      PROVE  Cardinality(Window!Open) >= MaxEntries
  <2>1. Window!Open = DOMAIN Pruned(n)
    BY <1>2, <1>5, <1>6
  <2> QED
    BY <1>6, <2>1 DEF Full
<1>7. ASSUME Cardinality(Window!Open) >= MaxEntries
      PROVE  Full(Pruned(n))
  BY <1>3, <1>4, <1>7, NonceGuardAssumption DEF Full
<1> QED
  BY <1>6, <1>7

(* The bounded Map, with its lazy deletions, its paced sweep and its O(1)    *)
(* gate, implements the retention windows: every step of the guard is a step *)
(* of ReplayWindow or leaves its variables unchanged.                        *)
THEOREM GuardImplementsReplayWindow == CallerSpec => ImplementsReplayWindow
<1>1. CallerInit => Window!Init
  BY DEF CallerInit, Window!Init, NothingSaid, Window!NoAnswer
<1>2. ASSUME GuardInvariant, [CallerNext]_callerVars
      PROVE  [Window!Next]_(Window!windowVars)
  <2>1. CASE PassTime
    BY <2>1 DEF PassTime, Window!Next, Window!Tick, NothingSaid, Window!NoAnswer
  <2>2. ASSUME NEW n \in Nonce, NEW at \in Readings, CallCheck(n, at)
        PROVE  Window!Next
    <3>1. PICK verdict \in Verdict :
              /\ Check(n, at, verdict)
              /\ said' = <<n, verdict>>
              /\ openUntil' = IF verdict = "fresh"
                              THEN [openUntil EXCEPT ![n] = mono + TtlTicks]
                              ELSE openUntil
              /\ UNCHANGED mono
      BY <2>2 DEF CallCheck
    <3>2. CASE verdict = "fresh"
      <4>1. ~LiveIn(Paced, n) /\ ~Full(Pruned(n))
        BY <3>1, <3>2 DEF Check, CheckFresh
      <4>2. n \notin Window!Open /\ ~(Cardinality(Window!Open) >= MaxEntries)
        BY <1>2, <4>1, LiveIffOpen, FullIffAllOpen
      <4>3. Cardinality(Window!Open) \in Nat
        BY NonceGuardAssumption, FS_Subset, FS_CardinalityType DEF Window!Open
      <4>4. Cardinality(Window!Open) < MaxEntries
        BY <4>2, <4>3, NonceGuardAssumption
      <4>5. Window!Fresh(n)
        BY <3>1, <3>2, <4>2, <4>4, SameCardinality DEF Window!Fresh
      <4> QED
        BY <4>5 DEF Window!Next
    <3>3. CASE verdict = "replayed"
      <4>1. LiveIn(Paced, n)
        BY <3>1, <3>3 DEF Check, CheckReplayed
      <4>2. Window!Replayed(n)
        BY <1>2, <3>1, <3>3, <4>1, LiveIffOpen DEF Window!Replayed
      <4> QED
        BY <4>2 DEF Window!Next
    <3>4. CASE verdict = "at_capacity"
      <4>1. ~LiveIn(Paced, n) /\ Full(Pruned(n))
        BY <3>1, <3>4 DEF Check, CheckAtCapacity
      <4>2. Window!AtCapacity(n)
        BY <1>2, <3>1, <3>4, <4>1, LiveIffOpen, FullIffAllOpen,
           SameCardinality DEF Window!AtCapacity
      <4> QED
        BY <4>2 DEF Window!Next
    <3>5. CASE verdict = "clock_invalid"
      <4>1. Window!ClockInvalid(n)
        BY <3>1, <3>5 DEF Window!ClockInvalid
      <4> QED
        BY <4>1 DEF Window!Next
    <3> QED
      BY <3>2, <3>3, <3>4, <3>5 DEF Verdict
  <2>3. CASE UNCHANGED callerVars
    BY <2>3 DEF callerVars, Window!windowVars
  <2> QED
    BY <1>2, <2>1, <2>2, <2>3 DEF CallerNext
<1> QED
  BY <1>1, <1>2, GuardInvariantHolds, PTL
     DEF CallerSpec, ImplementsReplayWindow, Window!Spec
-------------------------------------------------------------------------------
(* What check decides of a nonce, peek would have said just before it: both    *)
(* look through entries whose retention has ended, whether or not check        *)
(* sweeps them away first.                                                     *)
LEMMA PacingHidesNothing ==
  ASSUME NEW n
  PROVE  LiveIn(Paced, n) <=> LiveIn(seen, n)
  BY PacedFacts DEF LiveIn

(* peek foresees the check that follows it at once, in every state and for     *)
(* every nonce, ceiling and age of the entries.                                *)
THEOREM PeekForeseesWhatCheckSays == CallerSpec => PeekForeseesCheck
<1>1. ASSUME CallerNext
      PROVE  \A n \in Nonce :
                /\ said' = <<n, "replayed">> => Peek(n, 0) = "replayed"
                /\ said' = <<n, "fresh">> => Peek(n, 0) = "fresh"
  <2> SUFFICES ASSUME NEW n \in Nonce
               PROVE  /\ said' = <<n, "replayed">> => Peek(n, 0) = "replayed"
                      /\ said' = <<n, "fresh">> => Peek(n, 0) = "fresh"
    OBVIOUS
  <2>1. CASE PassTime
    BY <2>1 DEF PassTime, NothingSaid
  <2>2. ASSUME NEW m \in Nonce, NEW at \in Readings, CallCheck(m, at)
        PROVE  /\ said' = <<n, "replayed">> => Peek(n, 0) = "replayed"
               /\ said' = <<n, "fresh">> => Peek(n, 0) = "fresh"
    <3>1. PICK verdict \in Verdict : Check(m, at, verdict) /\ said' = <<m, verdict>>
      BY <2>2 DEF CallCheck
    <3>2. /\ verdict = "replayed" => LiveIn(seen, m)
          /\ verdict = "fresh" => ~LiveIn(seen, m)
      BY <3>1, PacingHidesNothing DEF Check, CheckReplayed, CheckFresh
    <3> QED
      BY <3>1, <3>2 DEF Peek, UsableClock
  <2> QED
    BY <1>1, <2>1, <2>2 DEF CallerNext
<1> QED
  BY <1>1, PTL DEF CallerSpec, PeekForeseesCheck


-------------------------------------------------------------------------------
(* The two-phase use of the nonce guard by verify is sound for every set       *)
(* of requests and concurrent handlers, every ceiling, skew and clock          *)
(* resolution, provided that no handler spends a full retention window between *)
(* peek and commit and that the wall clock is never stepped backward.  The     *)
(* code enforces neither.                                                      *)
ForwardOnly == WallSteps \subseteq Nat

AuthorizationFitsRetention == MaxLatency < TtlTicks

(* The first tick of the wall clock at which r is no longer fresh. *)
StaleFrom(r) == (Created[r] + MaxSkew + 1) * TicksPerSecond

(* An accepted request is stale for good, or its nonce is retained at least  *)
(* until it is.                                                              *)
AcceptedIsStaleOrRetained ==
    \A r \in Request :
        accepted[r] >= 1 =>
            \/ wall >= StaleFrom(r)
            \/ /\ NonceOf[r] \in DOMAIN seen
               /\ seen[NonceOf[r]].expires + wall - mono >= StaleFrom(r)

(* A handler that peeked before a presentation of the like of its request was *)
(* accepted will still find the nonce retained when it commits.              *)
InFlightFindsNonce ==
    \A h \in Handler, q \in Request :
        pc[h] = "authorizing" /\ Alike(q, request[h]) /\ accepted[q] >= 1 =>
            /\ NonceOf[request[h]] \in DOMAIN seen
            /\ seen[NonceOf[request[h]]].expires >= peekedAt[h] + TtlTicks

(* What a handler past its peek knows. *)
InFlightWasFresh ==
    \A h \in Handler :
        pc[h] = "authorizing" =>
            /\ FreshAt(request[h], reading[h])
            /\ wall >= reading[h] * TicksPerSecond
            /\ peekedAt[h] <= mono
            /\ mono - peekedAt[h] <= MaxLatency

ReplayInvariant ==
    /\ TypeOK
    /\ AtMostOnce
    /\ AcceptedIsStaleOrRetained
    /\ InFlightFindsNonce
    /\ InFlightWasFresh

-------------------------------------------------------------------------------
(* A request that is fresh at the current second is not stale yet. *)
LEMMA FreshIsNotStale ==
  ASSUME NEW r \in Request, wall \in Nat, FreshAt(r, NowSeconds)
  PROVE  wall < StaleFrom(r) /\ NowSeconds \in Nat /\ wall >= NowSeconds * TicksPerSecond
<1> DEFINE now == wall \div TicksPerSecond
           last == Created[r] + MaxSkew
<1>1. TicksPerSecond \in Nat \ {0} /\ MaxSkew \in Nat /\ Created[r] \in Nat
  BY NonceGuardAssumption, RequestVerifierAssumption
<1>2. now \in Nat /\ wall >= now * TicksPerSecond /\ wall < (now + 1) * TicksPerSecond
  BY <1>1
<1>3. now <= last /\ last \in Nat
  BY <1>1, <1>2 DEF FreshAt, NowSeconds
<1> HIDE DEF now, last
<1>4. (now + 1) * TicksPerSecond <= (last + 1) * TicksPerSecond
  BY <1>1, <1>2, <1>3
<1>5. wall < (last + 1) * TicksPerSecond
  BY <1>1, <1>2, <1>3, <1>4
<1> QED
  BY <1>1, <1>2, <1>5 DEF StaleFrom, NowSeconds, now, last

(* The arithmetic of retention: 2 * skew + 1 seconds, counted from no earlier *)
(* than the reading at which r was fresh, reach to where r is stale.          *)
LEMMA RetentionCoversFreshness ==
  ASSUME NEW r \in Request, NEW now \in Nat, wall \in Nat, FreshAt(r, now),
         wall >= now * TicksPerSecond
  PROVE  TtlTicks + wall >= StaleFrom(r)
<1> DEFINE span == 2 * MaxSkew + 1
           last == Created[r] + MaxSkew + 1
<1>1. TicksPerSecond \in Nat \ {0} /\ MaxSkew \in Nat /\ Created[r] \in Nat
  BY NonceGuardAssumption, RequestVerifierAssumption
<1>2. span + now >= last /\ span \in Nat /\ last \in Nat
  BY <1>1 DEF FreshAt
<1> HIDE DEF span, last
<1>3. (span + now) * TicksPerSecond >= last * TicksPerSecond
  BY <1>1, <1>2
<1>4. (span + now) * TicksPerSecond = span * TicksPerSecond + now * TicksPerSecond
  BY <1>1, <1>2
<1>5. span * TicksPerSecond + wall >= last * TicksPerSecond
  BY <1>1, <1>2, <1>3, <1>4
<1> QED
  BY <1>1, <1>5 DEF StaleFrom, TtlTicks, ReplayTtlSeconds, span, last

\* The tick from which verifyRequest refuses a request as stale is a natural.
LEMMA StaleFromType == \A r \in Request : StaleFrom(r) \in Nat
  BY NonceGuardAssumption, RequestVerifierAssumption DEF StaleFrom

(* No accepted request gets past the peek again. *)
LEMMA PeekRefusesAccepted ==
  ASSUME ReplayInvariant, NEW h \in Handler,
         NEW now \in {NowSeconds} \cup BrokenReadings, PeekNonce(h, now)
  PROVE  /\ \A q \in Request : Alike(q, request[h]) => accepted[q] = 0
         /\ now = NowSeconds
<1>1. now = NowSeconds
  BY RequestVerifierAssumption DEF PeekNonce, UsableClock
<1>2. /\ request[h] \in Request /\ wall \in Nat /\ mono \in Nat
      /\ accepted \in [Request -> Nat]
      /\ GuardTypeOK
  BY DEF ReplayInvariant, TypeOK, GuardTypeOK
<1>3. wall < StaleFrom(request[h])
  BY <1>1, <1>2, FreshIsNotStale DEF PeekNonce
<1>4. ~LiveIn(seen, NonceOf[request[h]])
  BY DEF PeekNonce, Peek
<1>5. SUFFICES ASSUME NEW q \in Request, Alike(q, request[h]), accepted[q] >= 1
               PROVE  FALSE
  BY <1>1, <1>2
<1>10. NonceOf[q] = NonceOf[request[h]] /\ StaleFrom(q) = StaleFrom(request[h])
  BY <1>5 DEF Alike, StaleFrom
<1>6. /\ NonceOf[request[h]] \in DOMAIN seen
      /\ seen[NonceOf[request[h]]].expires + wall - mono >= StaleFrom(request[h])
  BY <1>2, <1>3, <1>5, <1>10, StaleFromType DEF ReplayInvariant, AcceptedIsStaleOrRetained
<1>7. seen[NonceOf[request[h]]].expires \in Nat
  BY <1>2, <1>6 DEF GuardTypeOK, Entry
<1>8. seen[NonceOf[request[h]]].expires > mono
  BY <1>2, <1>3, <1>6, <1>7, StaleFromType
<1> QED
  BY <1>4, <1>6, <1>8 DEF LiveIn

(* At its commit a handler is answered "fresh" only for a request the like of *)
(* which nobody has had accepted.                                            *)
LEMMA CommitRefusesAccepted ==
  ASSUME ReplayInvariant, AuthorizationFitsRetention, NEW h \in Handler,
         pc[h] = "authorizing", ~LiveIn(seen, NonceOf[request[h]])
  PROVE  \A q \in Request : Alike(q, request[h]) => accepted[q] = 0
<1>1. /\ request[h] \in Request /\ mono \in Nat /\ peekedAt[h] \in Nat
      /\ accepted \in [Request -> Nat] /\ GuardTypeOK
  BY DEF ReplayInvariant, TypeOK, GuardTypeOK
<1>2. mono < peekedAt[h] + TtlTicks
  BY <1>1, TtlPositive, RequestVerifierAssumption
     DEF ReplayInvariant, InFlightWasFresh, AuthorizationFitsRetention
<1>3. SUFFICES ASSUME NEW q \in Request, Alike(q, request[h]), accepted[q] >= 1
               PROVE  FALSE
  BY <1>1
<1>4. /\ NonceOf[request[h]] \in DOMAIN seen
      /\ seen[NonceOf[request[h]]].expires >= peekedAt[h] + TtlTicks
  BY <1>3 DEF ReplayInvariant, InFlightFindsNonce
<1>5. seen[NonceOf[request[h]]].expires \in Nat
  BY <1>1, <1>4 DEF GuardTypeOK, Entry
<1> QED
  BY <1>1, <1>2, <1>4, <1>5, TtlPositive DEF LiveIn

(* What a handler that ends leaves of the others and of itself. *)
LeftBy(h) ==
    /\ pc' \in [Handler -> {"idle", "resolving", "authorizing"}]
    /\ request' \in [Handler -> Request]
    /\ reading' \in [Handler -> Nat]
    /\ peekedAt' \in [Handler -> Nat]
    /\ \A g \in Handler : pc'[g] = "authorizing" =>
          /\ pc[g] = "authorizing"
          /\ request'[g] = request[g]
          /\ reading'[g] = reading[g]
          /\ peekedAt'[g] = peekedAt[g]

LEMMA NoRequestType == NoRequest \in Request
  BY RequestVerifierAssumption DEF NoRequest

LEMMA LeavingIsClean ==
  ASSUME TypeOK, NEW h \in Handler, Leave(h)
  PROVE  LeftBy(h)
  BY NoRequestType DEF TypeOK, Leave, LeftBy

(* The invariant survives every commit, whatever the guard answers. *)
LEMMA CommitKeepsInvariant ==
  ASSUME ReplayInvariant, AuthorizationFitsRetention, NEW h \in Handler, Commit(h)
  PROVE  ReplayInvariant'
<1> DEFINE r == request[h]
           n == NonceOf[request[h]]
<1>1. PICK verdict \in Verdict :
          /\ Check(n, reading[h], verdict)
          /\ accepted' = IF verdict = "fresh" THEN [accepted EXCEPT ![r] = @ + 1]
                                              ELSE accepted
  BY DEF Commit
<1>3. TypeOK
  BY DEF ReplayInvariant
<1>2. /\ pc[h] = "authorizing"
      /\ LeftBy(h)
      /\ UNCHANGED <<mono, wall, stepped>>
  BY <1>3, LeavingIsClean DEF Commit, clockVars
<1>4. /\ r \in Request /\ n \in Nonce /\ mono \in Nat /\ wall \in Nat
      /\ reading[h] \in Nat /\ TtlTicks \in Nat \ {0} /\ GuardTypeOK
  BY <1>3, RequestVerifierAssumption, TtlPositive DEF TypeOK, GuardTypeOK
<1>5. /\ GuardTypeOK'
      /\ \A m \in DOMAIN seen :
            seen[m].expires > mono => m \in DOMAIN seen' /\ seen'[m] = seen[m]
      /\ verdict = "fresh" =>
            /\ n \in DOMAIN seen'
            /\ seen'[n].expires = mono + TtlTicks
            /\ ~LiveIn(seen, n)
  BY <1>1, <1>2, <1>4, CheckFacts
<1>6. verdict = "fresh" => \A q \in Request : Alike(q, r) => accepted[q] = 0
  BY <1>2, <1>5, CommitRefusesAccepted
<1>13. Alike(r, r) /\ \A q \in Request : Alike(q, r) => Alike(r, q)
  BY DEF Alike
<1>7. /\ accepted' \in [Request -> Nat]
      /\ \A q \in Request : q # r => accepted'[q] = accepted[q]
      /\ accepted'[r] = IF verdict = "fresh" THEN 1 ELSE accepted[r]
  BY <1>1, <1>3, <1>4, <1>6, <1>13 DEF TypeOK
<1> HIDE DEF r, n
<1>8. TypeOK'
  BY <1>2, <1>3, <1>5, <1>7 DEF TypeOK, LeftBy
<1>9. AtMostOnce'
  <2> SUFFICES ASSUME NEW p \in Request, accepted'[p] > 0
               PROVE  /\ accepted'[p] = 1
                      /\ \A q \in Request \ {p} : accepted'[q] > 0 => ~Alike(q, p)
    BY DEF AtMostOnce, Alike
  <2>1. \A q \in Request : accepted[q] \in Nat
    BY <1>3 DEF TypeOK
  <2>2. accepted[p] > 0 =>
           /\ accepted[p] = 1
           /\ \A q \in Request \ {p} : accepted[q] > 0 => ~Alike(q, p)
    BY DEF ReplayInvariant, AtMostOnce
  <2>3. CASE verdict = "fresh" /\ p = r
    BY <1>6, <1>7, <2>3
  <2>4. CASE verdict = "fresh" /\ p # r
    <3>1. accepted[p] > 0 /\ ~Alike(p, r)
      BY <1>6, <1>7, <2>1, <2>4
    <3>2. ~Alike(r, p)
      BY <3>1 DEF Alike
    <3> QED
      BY <1>7, <2>2, <3>1, <3>2
  <2>5. CASE verdict # "fresh"
    BY <1>7, <2>2, <2>5
  <2> QED
    BY <2>3, <2>4, <2>5
<1>10. AcceptedIsStaleOrRetained'
  <2> SUFFICES ASSUME NEW q \in Request, accepted'[q] >= 1, wall < StaleFrom(q)
               PROVE  /\ NonceOf[q] \in DOMAIN seen'
                      /\ seen'[NonceOf[q]].expires + wall - mono >= StaleFrom(q)
    BY <1>2, <1>4, StaleFromType DEF AcceptedIsStaleOrRetained, StaleFrom
  <2>1. CASE q = r /\ verdict = "fresh"
    <3>1. FreshAt(r, reading[h]) /\ wall >= reading[h] * TicksPerSecond
      BY <1>2 DEF ReplayInvariant, InFlightWasFresh, r
    <3>2. TtlTicks + wall >= StaleFrom(r)
      BY <1>4, <3>1, RetentionCoversFreshness
    <3>3. n \in DOMAIN seen' /\ seen'[n].expires = mono + TtlTicks
      BY <1>5, <2>1
    <3>4. NonceOf[q] = n
      BY <2>1 DEF n, r
    <3> QED
      BY <1>4, <2>1, <3>2, <3>3, <3>4, StaleFromType
  <2>2. CASE ~(q = r /\ verdict = "fresh")
    <3>1. accepted[q] >= 1
      BY <1>7, <2>2
    <3>2. /\ NonceOf[q] \in DOMAIN seen
          /\ seen[NonceOf[q]].expires + wall - mono >= StaleFrom(q)
      BY <1>4, <3>1, StaleFromType DEF ReplayInvariant, AcceptedIsStaleOrRetained
    <3>3. seen[NonceOf[q]].expires \in Nat
      BY <1>4, <3>2 DEF GuardTypeOK, Entry
    <3>4. seen[NonceOf[q]].expires > mono
      BY <1>4, <3>2, <3>3, StaleFromType
    <3> QED
      BY <1>5, <3>2, <3>4
  <2> QED
    BY <2>1, <2>2
<1>11. InFlightFindsNonce'
  <2> SUFFICES ASSUME NEW g \in Handler, NEW q \in Request, pc'[g] = "authorizing",
                      Alike(q, request[g]), accepted'[q] >= 1
               PROVE  /\ NonceOf[request[g]] \in DOMAIN seen'
                      /\ seen'[NonceOf[request[g]]].expires >= peekedAt[g] + TtlTicks
    BY <1>2 DEF InFlightFindsNonce, LeftBy, Alike
  <2>1. pc[g] = "authorizing" /\ request[g] \in Request /\ peekedAt[g] \in Nat
    BY <1>2, <1>3 DEF TypeOK, LeftBy
  <2>2. peekedAt[g] <= mono /\ mono - peekedAt[g] <= MaxLatency
    BY <2>1 DEF ReplayInvariant, InFlightWasFresh
  <2>3. CASE q = r /\ verdict = "fresh"
    <3>1. NonceOf[request[g]] = n
      BY <2>3 DEF Alike, n, r
    <3> QED
      BY <1>4, <1>5, <2>1, <2>2, <2>3, <3>1
  <2>4. CASE ~(q = r /\ verdict = "fresh")
    <3>1. accepted[q] >= 1
      BY <1>7, <2>1, <2>4
    <3>2. /\ NonceOf[request[g]] \in DOMAIN seen
          /\ seen[NonceOf[request[g]]].expires >= peekedAt[g] + TtlTicks
      BY <2>1, <3>1 DEF ReplayInvariant, InFlightFindsNonce
    <3>3. seen[NonceOf[request[g]]].expires \in Nat
      BY <1>4, <3>2 DEF GuardTypeOK, Entry
    <3>4. seen[NonceOf[request[g]]].expires > mono
      BY <1>4, <2>1, <2>2, <3>2, <3>3, RequestVerifierAssumption
         DEF AuthorizationFitsRetention
    <3> QED
      BY <1>5, <3>2, <3>4
  <2> QED
    BY <2>3, <2>4
<1>12. InFlightWasFresh'
  BY <1>2 DEF ReplayInvariant, InFlightWasFresh, LeftBy, FreshAt
<1> QED
  BY <1>8, <1>9, <1>10, <1>11, <1>12 DEF ReplayInvariant

(* So does the step from the peek into the authorization work. *)
LEMMA PeekKeepsInvariant ==
  ASSUME ReplayInvariant, NEW h \in Handler,
         NEW now \in {NowSeconds} \cup BrokenReadings, PeekNonce(h, now)
  PROVE  ReplayInvariant'
<1>1. /\ \A q \in Request : Alike(q, request[h]) => accepted[q] = 0
      /\ now = NowSeconds
  BY PeekRefusesAccepted
<1>2. /\ pc' = [pc EXCEPT ![h] = "authorizing"]
      /\ reading' = [reading EXCEPT ![h] = now]
      /\ peekedAt' = [peekedAt EXCEPT ![h] = mono]
      /\ UNCHANGED <<seen, inserted, lastSweep, mono, wall, stepped, request, accepted>>
      /\ FreshAt(request[h], now)
  BY DEF PeekNonce, guardVars, clockVars
<1>3. TypeOK
  BY DEF ReplayInvariant
<1>4. wall \in Nat /\ mono \in Nat /\ request[h] \in Request
  BY <1>3 DEF TypeOK, GuardTypeOK
<1>5. now \in Nat /\ wall >= now * TicksPerSecond
  BY <1>1, <1>2, <1>4, FreshIsNotStale
<1>6. TypeOK'
  BY <1>2, <1>3, <1>4, <1>5 DEF TypeOK, GuardTypeOK
<1>7. AtMostOnce' /\ AcceptedIsStaleOrRetained'
  BY <1>2 DEF ReplayInvariant, AtMostOnce, Alike, AcceptedIsStaleOrRetained, StaleFrom
<1>8. InFlightFindsNonce'
  BY <1>1, <1>2, <1>3 DEF ReplayInvariant, InFlightFindsNonce, Alike, TypeOK
<1>9. InFlightWasFresh'
  <2> SUFFICES ASSUME NEW g \in Handler, pc'[g] = "authorizing"
               PROVE  /\ FreshAt(request[g], reading'[g])
                      /\ wall >= reading'[g] * TicksPerSecond
                      /\ peekedAt'[g] <= mono
                      /\ mono - peekedAt'[g] <= MaxLatency
    BY <1>2 DEF InFlightWasFresh, FreshAt
  <2>1. CASE g = h
    BY <1>2, <1>3, <1>4, <1>5, <2>1, RequestVerifierAssumption DEF TypeOK
  <2>2. CASE g # h
    BY <1>2, <1>3, <2>2 DEF ReplayInvariant, InFlightWasFresh, TypeOK
  <2> QED
    BY <2>1, <2>2
<1> QED
  BY <1>6, <1>7, <1>8, <1>9 DEF ReplayInvariant

(* And the passing of time, on both clocks. *)
LEMMA TimeKeepsInvariant ==
  ASSUME ReplayInvariant, ForwardOnly, Tick \/ StepWallClock
  PROVE  ReplayInvariant'
<1>1. TypeOK
  BY DEF ReplayInvariant
<1>2. /\ wall \in Nat /\ mono \in Nat
      /\ UNCHANGED <<seen, inserted, lastSweep, handlerVars, accepted>>
  BY <1>1 DEF TypeOK, GuardTypeOK, Tick, StepWallClock, guardVars
<1>3. /\ wall' \in Nat /\ mono' \in Nat /\ stepped' \in Nat
      /\ wall' >= wall /\ wall' - mono' >= wall - mono
  BY <1>1, <1>2, RequestVerifierAssumption
     DEF TypeOK, Tick, StepWallClock, ForwardOnly
<1>4. TypeOK'
  BY <1>1, <1>2, <1>3 DEF TypeOK, GuardTypeOK, handlerVars
<1>5. AtMostOnce' /\ InFlightFindsNonce'
  BY <1>2 DEF ReplayInvariant, AtMostOnce, Alike, InFlightFindsNonce, handlerVars
<1>6. AcceptedIsStaleOrRetained'
  <2> SUFFICES ASSUME NEW r \in Request, accepted[r] >= 1, wall' < StaleFrom(r)
               PROVE  /\ NonceOf[r] \in DOMAIN seen
                      /\ seen[NonceOf[r]].expires + wall' - mono' >= StaleFrom(r)
    BY <1>2, <1>3, StaleFromType DEF AcceptedIsStaleOrRetained, StaleFrom
  <2>1. /\ NonceOf[r] \in DOMAIN seen
        /\ seen[NonceOf[r]].expires + wall - mono >= StaleFrom(r)
    BY <1>2, <1>3, StaleFromType DEF ReplayInvariant, AcceptedIsStaleOrRetained
  <2>2. seen[NonceOf[r]].expires \in Nat
    BY <1>1, <2>1 DEF TypeOK, GuardTypeOK, Entry
  <2>3. ASSUME NEW e \in Nat, NEW z \in Nat, NEW w \in Nat, NEW m \in Nat,
               NEW ww \in Nat, NEW mm \in Nat,
               ww - mm >= w - m, e + w - m >= z
        PROVE  e + ww - mm >= z
    BY <2>3
  <2> QED
    BY <1>2, <1>3, <2>1, <2>2, <2>3, StaleFromType
<1>7. InFlightWasFresh'
  <2> SUFFICES ASSUME NEW h \in Handler, pc[h] = "authorizing"
               PROVE  /\ FreshAt(request[h], reading[h])
                      /\ wall' >= reading[h] * TicksPerSecond
                      /\ peekedAt[h] <= mono'
                      /\ mono' - peekedAt[h] <= MaxLatency
    BY <1>2 DEF InFlightWasFresh, handlerVars, FreshAt
  <2>1. /\ FreshAt(request[h], reading[h])
        /\ wall >= reading[h] * TicksPerSecond
        /\ peekedAt[h] <= mono
        /\ mono - peekedAt[h] <= MaxLatency
    BY DEF ReplayInvariant, InFlightWasFresh
  <2>2. /\ peekedAt[h] \in Nat /\ reading[h] * TicksPerSecond \in Nat
    BY <1>1, NonceGuardAssumption DEF TypeOK
  <2>3. CASE Tick
    <3>1. mono' = mono + 1 /\ wall' = wall + 1 /\ mono - peekedAt[h] < MaxLatency
      BY <2>3 DEF Tick
    <3> QED
      BY <1>2, <2>1, <2>2, <3>1, RequestVerifierAssumption
  <2>4. CASE StepWallClock
    BY <1>2, <1>3, <2>1, <2>2, <2>4 DEF StepWallClock
  <2> QED
    BY <2>3, <2>4
<1> QED
  BY <1>4, <1>5, <1>6, <1>7 DEF ReplayInvariant

(* An arrival or a refusal disturbs nothing but the handler's own place. *)
LEMMA IdlingKeepsInvariant ==
  ASSUME ReplayInvariant, NEW h \in Handler,
         (\E r \in Request : Arrive(h, r)) \/ RefuseEarly(h) \/ RefuseUnauthorized(h)
  PROVE  ReplayInvariant'
<1>1. LeftBy(h) /\ UNCHANGED <<seen, inserted, lastSweep, mono, wall, stepped, accepted>>
  <2>1. CASE \E r \in Request : Arrive(h, r)
    BY <2>1 DEF ReplayInvariant, TypeOK, Arrive, LeftBy, guardVars, clockVars
  <2>2. CASE RefuseEarly(h) \/ RefuseUnauthorized(h)
    BY <2>2, LeavingIsClean
       DEF ReplayInvariant, RefuseEarly, RefuseUnauthorized, Refuse, guardVars, clockVars
  <2> QED
    BY <2>1, <2>2
<1>2. TypeOK'
  BY <1>1 DEF ReplayInvariant, TypeOK, GuardTypeOK, LeftBy
<1>3. AtMostOnce' /\ AcceptedIsStaleOrRetained'
  BY <1>1 DEF ReplayInvariant, AtMostOnce, Alike, AcceptedIsStaleOrRetained, StaleFrom
<1>4. InFlightFindsNonce' /\ InFlightWasFresh'
  BY <1>1 DEF ReplayInvariant, InFlightFindsNonce, Alike, InFlightWasFresh, FreshAt, LeftBy
<1> QED
  BY <1>2, <1>3, <1>4 DEF ReplayInvariant

LEMMA InitEstablishesInvariant == Init => ReplayInvariant
  BY NoRequestType
     DEF Init, GuardInit, NeverSwept, ReplayInvariant, TypeOK, GuardTypeOK, AtMostOnce,
         AcceptedIsStaleOrRetained, InFlightFindsNonce, InFlightWasFresh

(* The inductive step, one case per action. *)
LEMMA NextKeepsInvariant ==
  ASSUME ForwardOnly, AuthorizationFitsRetention, ReplayInvariant, [Next]_vars
  PROVE  ReplayInvariant'
<1>1. CASE Tick \/ StepWallClock
  BY <1>1, TimeKeepsInvariant
<1>2. ASSUME NEW h \in Handler,
             (\E r \in Request : Arrive(h, r)) \/ RefuseEarly(h) \/ RefuseUnauthorized(h)
      PROVE  ReplayInvariant'
  BY <1>2, IdlingKeepsInvariant
<1>3. ASSUME NEW h \in Handler, NEW now \in {NowSeconds} \cup BrokenReadings,
             PeekNonce(h, now)
      PROVE  ReplayInvariant'
  BY <1>3, PeekKeepsInvariant
<1>4. ASSUME NEW h \in Handler, Commit(h)
      PROVE  ReplayInvariant'
  BY <1>4, CommitKeepsInvariant
<1>5. CASE UNCHANGED vars
  BY <1>5 DEF vars, clockVars, handlerVars, ReplayInvariant, TypeOK, GuardTypeOK,
              AtMostOnce, Alike, AcceptedIsStaleOrRetained, InFlightFindsNonce,
              InFlightWasFresh, StaleFrom, FreshAt
<1> QED
  BY <1>1, <1>2, <1>3, <1>4, <1>5 DEF Next

-------------------------------------------------------------------------------
(* verify returns successfully at most once for one signed request: its      *)
(* presentations may be concurrent, the wall clock may be stepped forward,   *)
(* and the guard may be at its ceiling.                                      *)
THEOREM AtMostOnceHolds ==
  ASSUME ForwardOnly, AuthorizationFitsRetention
  PROVE  Spec => []AtMostOnce
<1>1. ReplayInvariant /\ [Next]_vars => ReplayInvariant'
  BY NextKeepsInvariant
<1>2. ReplayInvariant => AtMostOnce
  BY DEF ReplayInvariant
<1> QED
  BY <1>1, <1>2, InitEstablishesInvariant, PTL DEF Spec

(* A request that was accepted is refused before the authorization work      *)
(* whenever it is presented again.                                           *)
THEOREM ReplayRefusedBeforeAuthorizationHolds ==
  ASSUME ForwardOnly, AuthorizationFitsRetention
  PROVE  Spec => ReplayRefusedBeforeAuthorization
<1>1. ReplayInvariant /\ [Next]_vars => ReplayInvariant'
  BY NextKeepsInvariant
<1>2. ASSUME ReplayInvariant, [Next]_vars, NEW h \in Handler,
             pc[h] = "resolving", pc'[h] = "authorizing"
      PROVE  \A q \in Request : accepted[q] > 0 => ~Alike(q, request[h])
  <2>1. pc \in [Handler -> {"idle", "resolving", "authorizing"}]
    BY <1>2 DEF ReplayInvariant, TypeOK
  <2>2. \E now \in {NowSeconds} \cup BrokenReadings : PeekNonce(h, now)
    BY <1>2, <2>1
       DEF Next, vars, handlerVars, Tick, StepWallClock, Arrive, RefuseEarly,
           RefuseUnauthorized, Refuse, Leave, PeekNonce, Commit
  <2> QED
    BY <1>2, <2>2, PeekRefusesAccepted
<1>3. ReplayInvariant /\ [Next]_vars
         => [\A h \in Handler :
               pc[h] = "resolving" /\ pc'[h] = "authorizing"
                 => \A q \in Request : accepted[q] > 0 => ~Alike(q, request[h])]_vars
  BY <1>2
<1> QED
  BY <1>1, <1>3, InitEstablishesInvariant, PTL
     DEF Spec, ReplayRefusedBeforeAuthorization

-------------------------------------------------------------------------------
(* What holds of the guard under verify whichever way the wall clock is        *)
(* stepped and however long a handler takes: its Map is in order, and what it  *)
(* holds was committed by somebody who was let in.                             *)
HeldNoncesWereAccepted ==
    \A n \in DOMAIN seen : \E r \in Request : accepted[r] > 0 /\ NonceOf[r] = n

VerifierInvariant == TypeOK /\ DeadlineOrder /\ HeldNoncesWereAccepted

(* The commit of a handler: its verdict, and what becomes of the Map. *)
LEMMA CommitFacts ==
  ASSUME TypeOK, NEW h \in Handler, Commit(h)
  PROVE  \E verdict \in Verdict :
            /\ Check(NonceOf[request[h]], reading[h], verdict)
            /\ GuardTypeOK'
            /\ \A m \in DOMAIN seen' :
                  \/ m \in DOMAIN seen
                  \/ m = NonceOf[request[h]] /\ verdict = "fresh"
            /\ verdict = "fresh" => accepted' = [accepted EXCEPT ![request[h]] = @ + 1]
            /\ verdict # "fresh" => accepted' = accepted /\ inserted' = inserted
<1>1. PICK verdict \in Verdict :
          /\ Check(NonceOf[request[h]], reading[h], verdict)
          /\ accepted' = IF verdict = "fresh" THEN [accepted EXCEPT ![request[h]] = @ + 1]
                                              ELSE accepted
  BY DEF Commit
<1>2. GuardTypeOK /\ NonceOf[request[h]] \in Nonce /\ UNCHANGED mono
  BY RequestVerifierAssumption DEF TypeOK, Commit
<1>3. /\ GuardTypeOK'
      /\ \A m \in DOMAIN seen' :
            \/ m \in DOMAIN seen /\ seen'[m] = seen[m]
            \/ m = NonceOf[request[h]] /\ verdict = "fresh"
      /\ verdict # "fresh" => inserted' = inserted
  BY <1>1, <1>2, CheckFacts
<1> QED
  BY <1>1, <1>3

LEMMA CommitKeepsVerifier ==
  ASSUME VerifierInvariant, NEW h \in Handler, Commit(h)
  PROVE  VerifierInvariant'
<1> DEFINE r == request[h]
<1>1. TypeOK /\ GuardTypeOK /\ DeadlineOrder /\ UNCHANGED <<mono, wall, stepped>> /\ LeftBy(h)
  BY LeavingIsClean DEF VerifierInvariant, TypeOK, Commit, clockVars
<1>2. PICK verdict \in Verdict :
            /\ Check(NonceOf[r], reading[h], verdict)
            /\ GuardTypeOK'
            /\ \A m \in DOMAIN seen' : m \in DOMAIN seen \/ (m = NonceOf[r] /\ verdict = "fresh")
            /\ verdict = "fresh" => accepted' = [accepted EXCEPT ![r] = @ + 1]
            /\ verdict # "fresh" => accepted' = accepted
  BY <1>1, CommitFacts
<1>3. r \in Request /\ NonceOf[r] \in Nonce /\ accepted \in [Request -> Nat]
  BY <1>1, RequestVerifierAssumption DEF TypeOK
<1> HIDE DEF r
<1>4. /\ accepted' \in [Request -> Nat]
      /\ \A q \in Request : accepted[q] > 0 => accepted'[q] > 0
      /\ verdict = "fresh" => accepted'[r] > 0
  BY <1>2, <1>3
<1>5. TypeOK'
  BY <1>1, <1>2, <1>4 DEF TypeOK, LeftBy
<1>6. DeadlineOrder'
  BY <1>1, <1>2, <1>3, CheckKeepsOrder
<1>7. HeldNoncesWereAccepted'
  <2> SUFFICES ASSUME NEW n \in DOMAIN seen'
               PROVE  \E q \in Request : accepted'[q] > 0 /\ NonceOf[q] = n
    BY DEF HeldNoncesWereAccepted
  <2>1. CASE n \in DOMAIN seen
    BY <1>4, <2>1 DEF VerifierInvariant, HeldNoncesWereAccepted
  <2>2. CASE n = NonceOf[r] /\ verdict = "fresh"
    BY <1>3, <1>4, <2>2
  <2> QED
    BY <1>2, <2>1, <2>2
<1> QED
  BY <1>5, <1>6, <1>7 DEF VerifierInvariant

(* Every step of verify and of the clocks keeps it. *)
LEMMA StepKeepsVerifier == VerifierInvariant /\ [Next]_vars => VerifierInvariant'
<1> SUFFICES ASSUME VerifierInvariant, [Next]_vars PROVE VerifierInvariant'
  OBVIOUS
<1>1. TypeOK /\ GuardTypeOK /\ DeadlineOrder
  BY DEF VerifierInvariant, TypeOK
<1>2. ASSUME UNCHANGED <<seen, inserted, lastSweep, accepted>>, mono' \in Nat, mono' >= mono,
             wall' \in Nat, stepped' \in Nat,
             pc' \in [Handler -> {"idle", "resolving", "authorizing"}],
             request' \in [Handler -> Request], reading' \in [Handler -> Nat],
             peekedAt' \in [Handler -> Nat]
      PROVE  VerifierInvariant'
  <2>1. TypeOK'
    BY <1>1, <1>2 DEF TypeOK, GuardTypeOK
  <2>2. DeadlineOrder'
    BY <1>1, <1>2, TimeKeepsOrder
  <2>3. HeldNoncesWereAccepted'
    BY <1>2 DEF VerifierInvariant, HeldNoncesWereAccepted
  <2> QED
    BY <2>1, <2>2, <2>3 DEF VerifierInvariant
<1>3. CASE Tick
  BY <1>1, <1>2, <1>3 DEF Tick, TypeOK, GuardTypeOK, guardVars, handlerVars
<1>4. CASE StepWallClock
  <2>1. wall' \in Nat /\ stepped' \in Nat
    BY <1>1, <1>4, RequestVerifierAssumption DEF StepWallClock, TypeOK
  <2> QED
    BY <1>1, <1>2, <1>4, <2>1 DEF StepWallClock, TypeOK, GuardTypeOK, guardVars, handlerVars
<1>5. ASSUME NEW h \in Handler, NEW r \in Request, Arrive(h, r)
      PROVE  VerifierInvariant'
  BY <1>1, <1>2, <1>5 DEF Arrive, TypeOK, GuardTypeOK, guardVars, clockVars
<1>6. ASSUME NEW h \in Handler, RefuseEarly(h) \/ RefuseUnauthorized(h)
      PROVE  VerifierInvariant'
  <2>1. LeftBy(h) /\ UNCHANGED <<seen, inserted, lastSweep, accepted, mono, wall, stepped>>
    BY <1>1, <1>6, LeavingIsClean
    DEF RefuseEarly, RefuseUnauthorized, Refuse, guardVars, clockVars
  <2> QED
    BY <1>1, <1>2, <2>1 DEF LeftBy, TypeOK, GuardTypeOK
<1>7. ASSUME NEW h \in Handler, NEW now, PeekNonce(h, now)
      PROVE  VerifierInvariant'
  BY <1>1, <1>2, <1>7 DEF PeekNonce, UsableClock, TypeOK, GuardTypeOK, guardVars, clockVars
<1>8. ASSUME NEW h \in Handler, Commit(h)
      PROVE  VerifierInvariant'
  BY <1>8, CommitKeepsVerifier
<1>9. CASE UNCHANGED vars
  BY <1>1, <1>2, <1>9 DEF vars, clockVars, handlerVars, TypeOK, GuardTypeOK
<1> QED
  BY <1>3, <1>4, <1>5, <1>6, <1>7, <1>8, <1>9 DEF Next

LEMMA VerifierInvariantHolds == Spec => []VerifierInvariant
<1>1. Init => VerifierInvariant
  BY NoRequestType
  DEF Init, GuardInit, NeverSwept, VerifierInvariant, TypeOK, GuardTypeOK, DeadlineOrder,
      InsertionOrderIsDeadlineOrder, PlacesDistinct, DeadlinesWithinWindow,
      HeldNoncesWereAccepted
<1> QED
  BY <1>1, StepKeepsVerifier, PTL DEF Spec

(* A place in the guard is spent only in the step in which verify returns      *)
(* successfully, and on the nonce of the request it returns for: whatever is   *)
(* refused, before the peek, after it or at the commit, leaves none behind.    *)
THEOREM RefusedLeaveNoTrace == Spec => RefusedLeavesNoTrace
<1>1. VerifierInvariant /\ [Next]_vars
      => [inserted' # inserted \/ ~(DOMAIN seen' \subseteq DOMAIN seen)
             => \E h \in Handler :
                   /\ accepted'[request[h]] = accepted[request[h]] + 1
                   /\ DOMAIN seen' \subseteq DOMAIN seen \cup {NonceOf[request[h]]}]_vars
  <2> SUFFICES ASSUME VerifierInvariant, Next,
                      inserted' # inserted \/ ~(DOMAIN seen' \subseteq DOMAIN seen)
               PROVE  \E h \in Handler :
                         /\ accepted'[request[h]] = accepted[request[h]] + 1
                         /\ DOMAIN seen' \subseteq DOMAIN seen \cup {NonceOf[request[h]]}
    OBVIOUS
  <2>1. PICK h \in Handler : Commit(h)
    BY DEF Next, Tick, StepWallClock, Arrive, RefuseEarly, RefuseUnauthorized, Refuse,
           PeekNonce, guardVars
  <2>2. TypeOK
    BY DEF VerifierInvariant
  <2>3. PICK verdict \in Verdict :
            /\ \A m \in DOMAIN seen' :
                  \/ m \in DOMAIN seen
                  \/ m = NonceOf[request[h]] /\ verdict = "fresh"
            /\ verdict = "fresh" => accepted' = [accepted EXCEPT ![request[h]] = @ + 1]
            /\ verdict # "fresh" => inserted' = inserted
    BY <2>1, <2>2, CommitFacts
  <2>4. verdict = "fresh"
    BY <2>3
  <2>5. request[h] \in Request /\ accepted \in [Request -> Nat]
    BY <2>2 DEF TypeOK
  <2> QED
    BY <2>3, <2>4, <2>5
<1> QED
  BY <1>1, VerifierInvariantHolds, PTL DEF Spec, RefusedLeavesNoTrace

-------------------------------------------------------------------------------
(* A signature verifies only if a key of the state made it over just this     *)
(* message.                                                                   *)
LEMMA VerifiedHasAKey ==
  ASSUME NEW m, NEW octets, NEW keys, NEW threshold, NEW now, NEW skew, NEW limit,
         VerifyRequest(m, octets, keys, threshold, now, skew, limit) = "verified"
  PROVE  /\ m.digest = ContentDigest(octets)
         /\ m.signature \notin {Absent, Malformed}
         /\ \E i \in DOMAIN keys : KeyMatches(m, keys[i])
<1>1. /\ m.digest = ContentDigest(octets)
      /\ m.signature \notin {Absent, Malformed}
      /\ ProbeKeys(m, keys, limit) = "verified"
  BY DEF VerifyRequest
<1>2. \E i \in DOMAIN keys : KeyMatches(m, keys[i])
  BY <1>1 DEF ProbeKeys
<1> QED
  BY <1>1, <1>2

(* The answers of verifyRequest. *)
LEMMA VerifyRequestAnswers ==
  ASSUME NEW m, NEW octets, NEW keys, NEW threshold, NEW now, NEW skew, NEW limit
  PROVE  VerifyRequest(m, octets, keys, threshold, now, skew, limit) # "none"
  BY DEF VerifyRequest, ProbeKeys

(* What a request that gets past the signature was sent as. *)
LEMMA PastTheSignature ==
  ASSUME NEW r \in Request, NEW now, DoorRefusal[r] = "none", SignatureRefusal(r, now) = "none"
  PROVE  SignedJustSo[r]
<1> DEFINE m == Delivery[r]
<1>1. VerifyRequest(m, Handed[r], KeyState[r].keys, KeyState[r].threshold, now, MaxSkew,
                    LeftForSignature[r]) = "verified"
  BY VerifyRequestAnswers DEF SignatureRefusal, Verified
<1>2. PICK i \in DOMAIN KeyState[r].keys : KeyMatches(m, KeyState[r].keys[i])
  BY <1>1, VerifiedHasAKey
<1>3. m.digest = ContentDigest(Handed[r]) /\ m.signature \notin {Absent, Malformed}
  BY <1>1, VerifiedHasAKey
<1>4. PICK s \in Sent : m.signature = s.signature
  BY <1>3, SignaturesAreUnforgeable
<1>5. /\ s.digest = ContentDigest(s.body)
      /\ s.signature.base = SignatureBase(s.method, s.url, s.digest, s.input, s.grants)
  BY SignaturesAreUnforgeable
<1>6. /\ s.signature.key = KeyState[r].keys[i]
      /\ SignatureBase(s.method, s.url, s.digest, s.input, s.grants)
            = SignatureBase(m.method, m.url, m.digest, m.input, m.grants)
  BY <1>2, <1>4, <1>5 DEF KeyMatches
<1>7. Content(s) = Content(m) /\ s.body = Handed[r]
  BY <1>3, <1>4, <1>5, <1>6 DEF Content, SignatureBase, ContentDigest
<1>8. Read(r) = Handed[r]
  BY DEF Read, DoorRefusal, NotRaw
<1>9. s.signature.key \in CurrentKeys(r)
  BY <1>6 DEF CurrentKeys
<1> QED
  BY <1>7, <1>8, <1>9 DEF SignedJustSo

-------------------------------------------------------------------------------
(* A handler holds a request that got past the door, and past its peek one    *)
(* that was signed just so.                                                   *)
HeldRequestsPassed ==
    \A h \in Handler :
        /\ pc[h] # "idle" => DoorRefusal[request[h]] = "none"
        /\ pc[h] = "authorizing" => SignedJustSo[request[h]]

Places ==
    /\ pc \in [Handler -> {"idle", "resolving", "authorizing"}]
    /\ request \in [Handler -> Request]
    /\ accepted \in [Request -> Nat]

SurfaceInvariant == Places /\ HeldRequestsPassed /\ AcceptedAsSigned

LEMMA SurfaceInitHolds == SurfaceInit => SurfaceInvariant
  BY NoRequestType
     DEF SurfaceInit, Init, SurfaceInvariant, Places, HeldRequestsPassed, AcceptedAsSigned

(* A handler that leaves takes its request with it. *)
LEMMA LeavingKeepsPassed ==
  ASSUME SurfaceInvariant, NEW h \in Handler, Leave(h)
  PROVE  /\ pc' \in [Handler -> {"idle", "resolving", "authorizing"}]
         /\ request' \in [Handler -> Request]
         /\ HeldRequestsPassed'
  BY NoRequestType DEF SurfaceInvariant, Places, HeldRequestsPassed, Leave

LEMMA RefusingKeepsInvariant ==
  ASSUME SurfaceInvariant, NEW h \in Handler, Refuse(h)
  PROVE  SurfaceInvariant'
  BY LeavingKeepsPassed DEF Refuse, SurfaceInvariant, Places, AcceptedAsSigned

LEMMA CommittingKeepsInvariant ==
  ASSUME SurfaceInvariant, NEW h \in Handler, Commit(h)
  PROVE  SurfaceInvariant'
<1>1. /\ HeldRequestsPassed'
      /\ pc' \in [Handler -> {"idle", "resolving", "authorizing"}]
      /\ request' \in [Handler -> Request]
  BY LeavingKeepsPassed DEF Commit
<1>2. request[h] \in Request /\ SignedJustSo[request[h]] /\ accepted \in [Request -> Nat]
  BY DEF Commit, SurfaceInvariant, Places, HeldRequestsPassed
<1>3. accepted' = [accepted EXCEPT ![request[h]] = @ + 1] \/ accepted' = accepted
  BY DEF Commit
<1>4. accepted' \in [Request -> Nat]
  BY <1>2, <1>3
<1>5. AcceptedAsSigned'
  BY <1>2, <1>3 DEF SurfaceInvariant, AcceptedAsSigned
<1> QED
  BY <1>1, <1>4, <1>5 DEF SurfaceInvariant, Places

(* The inductive step, one case per action. *)
LEMMA SurfaceStepKeepsInvariant ==
  ASSUME SurfaceInvariant, [SurfaceNext]_surfaceVars
  PROVE  SurfaceInvariant'
<1>1. CASE Clocks
  BY <1>1 DEF Clocks, Tick, StepWallClock, handlerVars, SurfaceInvariant, Places,
              HeldRequestsPassed, AcceptedAsSigned
<1>2. ASSUME NEW h \in Handler, NEW r \in Request, RefuseAtTheDoor(h, r)
      PROVE  SurfaceInvariant'
  BY <1>2 DEF RefuseAtTheDoor, vars, handlerVars, SurfaceInvariant, Places,
              HeldRequestsPassed, AcceptedAsSigned
<1>3. ASSUME NEW h \in Handler, NEW r \in Request, ArriveAt(h, r)
      PROVE  SurfaceInvariant'
  BY <1>3 DEF ArriveAt, Arrive, SurfaceInvariant, Places, HeldRequestsPassed, AcceptedAsSigned
<1>4. ASSUME NEW h \in Handler, NEW now, RefuseSignature(h, now)
      PROVE  SurfaceInvariant'
  BY <1>4, RefusingKeepsInvariant DEF RefuseSignature, RefuseEarly
<1>5. ASSUME NEW h \in Handler, NEW now, AskNonce(h, now)
      PROVE  SurfaceInvariant'
  <2>1. request[h] \in Request /\ SignedJustSo[request[h]]
    BY <1>5, PastTheSignature
       DEF AskNonce, PeekNonce, SurfaceInvariant, Places, HeldRequestsPassed
  <2>2. /\ pc' = [pc EXCEPT ![h] = "authorizing"] /\ pc[h] = "resolving"
        /\ UNCHANGED <<request, accepted>>
    BY <1>5 DEF AskNonce, PeekNonce
  <2> QED
    BY <2>1, <2>2 DEF SurfaceInvariant, Places, HeldRequestsPassed, AcceptedAsSigned
<1>6. ASSUME NEW h \in Handler, RefuseAuthorization(h)
      PROVE  SurfaceInvariant'
  BY <1>6, RefusingKeepsInvariant DEF RefuseAuthorization, RefuseUnauthorized
<1>7. ASSUME NEW h \in Handler, CommitNonce(h)
      PROVE  SurfaceInvariant'
  BY <1>7, CommittingKeepsInvariant DEF CommitNonce
<1>8. CASE UNCHANGED surfaceVars
  BY <1>8 DEF surfaceVars, vars, handlerVars, SurfaceInvariant, Places, HeldRequestsPassed,
              AcceptedAsSigned
<1> QED
  BY <1>1, <1>2, <1>3, <1>4, <1>5, <1>6, <1>7, <1>8 DEF SurfaceNext

(* What verify returns for was signed just so, with a key of the current      *)
(* state: the target, the chain, and the octets the application reads.        *)
THEOREM AcceptedAsSignedHolds == SurfaceSpec => []AcceptedAsSigned
<1>1. SurfaceInvariant /\ [SurfaceNext]_surfaceVars => SurfaceInvariant'
  BY SurfaceStepKeepsInvariant
<1>2. SurfaceInvariant => AcceptedAsSigned
  BY DEF SurfaceInvariant
<1> QED
  BY <1>1, <1>2, SurfaceInitHolds, PTL DEF SurfaceSpec

-------------------------------------------------------------------------------
(* The surface is the verifier of RequestVerifier, each of its steps one of   *)
(* the verifier's or none.                                                    *)
THEOREM SurfaceIsAVerifier == SurfaceSpec => Spec
<1>1. SurfaceInit => Init
  BY DEF SurfaceInit
<1>2. ASSUME [SurfaceNext]_surfaceVars
      PROVE  [Next]_vars
  <2>1. CASE Clocks
    BY <2>1 DEF Clocks, Next
  <2>2. ASSUME NEW h \in Handler, NEW r \in Request, RefuseAtTheDoor(h, r) \/ ArriveAt(h, r)
        PROVE  [Next]_vars
    BY <2>2 DEF RefuseAtTheDoor, ArriveAt, Next
  <2>3. ASSUME NEW h \in Handler, NEW now \in {NowSeconds} \cup BrokenReadings,
               RefuseSignature(h, now) \/ AskNonce(h, now)
        PROVE  [Next]_vars
    BY <2>3 DEF RefuseSignature, AskNonce, Next
  <2>4. ASSUME NEW h \in Handler, RefuseAuthorization(h) \/ CommitNonce(h)
        PROVE  [Next]_vars
    BY <2>4 DEF RefuseAuthorization, CommitNonce, Next
  <2>5. CASE UNCHANGED surfaceVars
    BY <2>5 DEF surfaceVars
  <2> QED
    BY <1>2, <2>1, <2>2, <2>3, <2>4, <2>5 DEF SurfaceNext
<1> QED
  BY <1>1, <1>2, PTL DEF SurfaceSpec, Spec

(* So no message, however it is altered or repeated on the way, is let in     *)
(* twice under one signature.                                                 *)
THEOREM SurfaceAcceptsAtMostOnce ==
  ASSUME ForwardOnly, AuthorizationFitsRetention
  PROVE  SurfaceSpec => []AtMostOnce
  BY SurfaceIsAVerifier, AtMostOnceHolds, PTL

-------------------------------------------------------------------------------
(* A record that no earlier one hides is the one the lookup returns. *)
LEMMA UnshadowedIsReturned ==
  ASSUME NEW j \in DOMAIN Revocations, ~Shadowed(j)
  PROVE  Revocations[j] \in GetRevocations(Revocations[j].revokes, {Revocations[j].issuer})
<1> DEFINE places == Naming(Revocations[j].revokes, Revocations[j].issuer)
<1>1. DOMAIN Revocations \subseteq Int /\ \A k \in DOMAIN Revocations : 1 <= k
  BY StaticViewAssumption DEF IsSequence
<1>2. j \in places /\ places \subseteq DOMAIN Revocations
  BY DEF Naming
<1>3. ASSUME NEW k \in places
      PROVE  j <= k
  <2>1. k \in Int /\ j \in Int /\ 1 <= k
    BY <1>1, <1>2
  <2>2. Revocations[k].revokes = Revocations[j].revokes /\ Revocations[k].issuer = Revocations[j].issuer
    BY DEF Naming
  <2>3. k \notin 1 .. j - 1
    BY <2>2 DEF Shadowed
  <2> QED
    BY <2>1, <2>3
<1> HIDE DEF places
<1>4. /\ FirstOf(places) \in places
      /\ \A k \in places : FirstOf(places) <= k
  BY <1>2, <1>3 DEF FirstOf
<1>5. j = FirstOf(places)
  BY <1>1, <1>2, <1>3, <1>4
<1> QED
  BY <1>2, <1>5 DEF places, GetRevocations

(* The edge that lets an agent in is one of the organization's own. *)
LEMMA AuthorizedIsRepresented ==
  ASSUME NEW r \in Request, RequireRepresents # Absent, AuthorizationRefusal[r] = "none"
  PROVE  AgentOf(r) \in Represented
<1> DEFINE edge == EdgeFor(r)
<1>1. EdgesFor(r) # {} /\ RepresentsReason(r, edge) = "none"
  BY RelyingPartyAssumption, ChainsAreVerdicts DEF AuthorizationRefusal, CapacityReasons, CostReasons
<1>2. edge \in EdgesFor(r)
  BY <1>1 DEF EdgeFor
<1>3. Apt(r, edge) /\ Standing(edge)
  <2> HIDE DEF edge
  <2> QED
    BY <1>1 DEF RepresentsReason
<1>4. PICK i \in DOMAIN Relationships : edge = Relationships[i]
  BY <1>2 DEF EdgesFor, GetRelationshipEdge, EdgesOn
<1> HIDE DEF edge
<1>5. ASSUME NEW j \in DOMAIN Revocations, Withdraws(Revocations[j], edge), ~Shadowed(j)
      PROVE  FALSE
  BY <1>3, <1>5, UnshadowedIsReturned DEF Withdraws, Standing, Found
<1> QED
  BY <1>3, <1>4, <1>5 DEF Represented, Apt, Standing

(* What is accepted was authorized when its nonce was committed. *)
AcceptedWasAuthorized ==
    \A r \in Request : accepted[r] > 0 => AuthorizationRefusal[r] = "none"

LEMMA StepKeepsAuthorized ==
  ASSUME SurfaceInvariant, AcceptedWasAuthorized, [SurfaceNext]_surfaceVars
  PROVE  AcceptedWasAuthorized'
<1>1. CASE accepted' = accepted
  BY <1>1 DEF AcceptedWasAuthorized
<1>2. ASSUME NEW h \in Handler, CommitNonce(h)
      PROVE  AcceptedWasAuthorized'
  <2>1. AuthorizationRefusal[request[h]] = "none"
    BY <1>2 DEF CommitNonce
  <2>2. request[h] \in Request /\ accepted \in [Request -> Nat]
    BY DEF SurfaceInvariant, Places
  <2>3. accepted' = [accepted EXCEPT ![request[h]] = @ + 1] \/ accepted' = accepted
    BY <1>2 DEF CommitNonce, Commit
  <2> QED
    BY <2>1, <2>2, <2>3 DEF AcceptedWasAuthorized
<1>3. accepted' = accepted \/ \E h \in Handler : CommitNonce(h)
  BY DEF SurfaceNext, Clocks, Tick, StepWallClock, RefuseAtTheDoor, ArriveAt, Arrive,
         RefuseSignature, RefuseEarly, Refuse, AskNonce, PeekNonce, RefuseAuthorization,
         RefuseUnauthorized, surfaceVars, vars
<1> QED
  BY <1>1, <1>2, <1>3

(* Whoever is let in for the organization holds an edge of its own, current    *)
(* and not withdrawn by any record the view returns.                           *)
THEOREM AcceptedActForTheOrganization == SurfaceSpec => []ActsForOrganization
<1>1. SurfaceInit => SurfaceInvariant /\ AcceptedWasAuthorized
  BY SurfaceInitHolds DEF SurfaceInit, Init, AcceptedWasAuthorized
<1>2. SurfaceInvariant /\ AcceptedWasAuthorized /\ [SurfaceNext]_surfaceVars
      => (SurfaceInvariant /\ AcceptedWasAuthorized)'
  BY SurfaceStepKeepsInvariant, StepKeepsAuthorized
<1>3. AcceptedWasAuthorized => ActsForOrganization
  BY AuthorizedIsRepresented DEF AcceptedWasAuthorized, ActsForOrganization
<1> QED
  BY <1>1, <1>2, <1>3, PTL DEF SurfaceSpec

-------------------------------------------------------------------------------
(* Some natural number of a set is the least. *)
LEMMA LeastExists ==
  ASSUME NEW S \in SUBSET Nat, S # {}
  PROVE  \E i \in S : \A j \in S : i <= j
<1>1. PICK i \in S : \A j \in S : ~(<<j, i>> \in OpToRel(<, Nat))
  BY WFMin, NatLessThanWellFounded
<1>2. S \subseteq Nat
  OBVIOUS
<1>3. \A j \in S : ~(j < i)
  BY <1>1, <1>2 DEF OpToRel
<1>4. \A j \in S : i <= j
  BY <1>2, <1>3
<1> QED
  BY <1>4

(* A place in a sequence that a lookup finds last is one it found. *)
LEMMA LastIsAmongThem ==
  ASSUME NEW s, IsSequence(s), NEW places \in SUBSET DOMAIN s, places # {}
  PROVE  LastOf(places) \in places
<1>1. Len(s) \in Nat /\ DOMAIN s = 1 .. Len(s)
  BY DEF IsSequence
<1> DEFINE toEnd == {Len(s) - i : i \in places}
<1>2. toEnd \subseteq Nat /\ toEnd # {}
  BY <1>1
<1>3. PICK d \in toEnd : \A e \in toEnd : d <= e
  BY <1>2, LeastExists
<1>5. PICK i \in places : Len(s) - i = d
  OBVIOUS
<1>6. ASSUME NEW j \in places PROVE j <= i
  <2>1. Len(s) - i <= Len(s) - j
    BY <1>3, <1>5
  <2> QED
    BY <1>1, <2>1
<1> QED
  BY <1>6 DEF LastOf

(* The keys a signature is held against are a sequence, whichever log they *)
(* come from.                                                              *)
LEMMA KeysAreASequence ==
  ASSUME NEW r \in Request
  PROVE  IsSequence(KeyState[r].keys)
<1> DEFINE id == Delivery[r].input.keyId
           log == GetKeyLog(id)
<1>1. CASE KeyState[r] = NoState
  BY <1>1 DEF NoState, IsSequence
<1>2. CASE KeyState[r].keys = <<id>>
  BY <1>2 DEF IsSequence
<1>3. CASE KeyState[r] = GetKeyState(id) /\ KeyState[r] # NoState
  <2>1. log # NoLog /\ KeyState[r].keys = log[Len(log)].keys
    BY <1>3 DEF GetKeyState, Resolves
  <2>2. FiledUnder(id) # {} /\ log = KeyLogs[LastOf(FiledUnder(id))]
    BY <2>1 DEF GetKeyLog
  <2>3. LastOf(FiledUnder(id)) \in DOMAIN KeyLogs
    BY <2>2, StaticViewAssumption, LastIsAmongThem DEF FiledUnder
  <2>4. /\ IsSequence(log)
        /\ \A j \in DOMAIN log : IsSequence(log[j].keys)
    BY <2>2, <2>3, StaticViewAssumption
  <2> HIDE DEF log
  <2>5. Len(log) \in DOMAIN log
    BY <2>1, <2>4 DEF IsSequence, NoLog
  <2> QED
    BY <2>1, <2>4, <2>5
<1> QED
  BY <1>1, <1>2, <1>3 DEF KeyState

(* The probe spends a number of checks, and a message signed with one of the   *)
(* keys is verified unless they are more than the limit.                       *)
LEMMA ProbeAnswers ==
  ASSUME NEW m, NEW keys, IsSequence(keys), NEW limit
  PROVE  /\ ProbeCost(m, keys) \in Nat
         /\ ProbeKeys(m, keys, limit) \in
               {"request_signature_too_expensive", "signature_invalid", "verified"}
         /\ ProbeKeys(m, keys, limit) = "request_signature_too_expensive" =>
               ProbeCost(m, keys) > limit
         /\ ProbeKeys(m, keys, limit) = "signature_invalid" =>
               \A i \in DOMAIN keys : ~KeyMatches(m, keys[i])
<1>1. Len(keys) \in Nat /\ DOMAIN keys = 1 .. Len(keys)
  BY DEF IsSequence
<1>2. IsFiniteSet(1 .. Len(keys))
  BY <1>1, FS_Interval
<1> DEFINE tried == {i \in DOMAIN keys : \A j \in 1 .. i - 1 : ~KeyMatches(m, keys[j])}
<1>4. tried \in SUBSET (1 .. Len(keys))
  BY <1>1
<1>3. ProbeCost(m, keys) \in Nat
  <2> HIDE DEF tried
  <2>1. Cardinality(tried) \in Nat
    BY <1>2, <1>4, FS_Subset, FS_CardinalityType
  <2> QED
    BY <2>1 DEF ProbeCost, tried
<1> QED
  BY <1>3 DEF ProbeKeys

-------------------------------------------------------------------------------
(* What verify spends on each rung is a number of checks.                      *)
LEMMA ChecksAreCounted ==
  ASSUME NEW S, IsFiniteSet(S), NEW f, \A i \in S : IsFiniteSet(f[i])
  PROVE  Cardinality(UNION {{i} \X f[i] : i \in S}) \in Nat
<1> DEFINE Piece == [i \in S |-> {i} \X f[i]]
           Pieces == {{i} \X f[i] : i \in S}
<1>1. Piece \in Surjection(S, Pieces)
  BY DEF Surjection
<1>2. IsFiniteSet(Pieces)
  BY <1>1, FS_Surjection
<1>3. \A T \in Pieces : IsFiniteSet(T)
  <2>1. ASSUME NEW i \in S PROVE IsFiniteSet({i} \X f[i])
    <3>1. IsFiniteSet({i}) /\ IsFiniteSet(f[i])
      BY FS_Singleton
    <3> QED
      BY <3>1, FS_Product
  <2> QED
    BY <2>1
<1> HIDE DEF Pieces
<1>4. IsFiniteSet(UNION Pieces)
  BY <1>2, <1>3, FS_UNION
<1> QED
  BY <1>4, FS_CardinalityType DEF Pieces

(* A log in hand is a sequence of events of sequences of keys. *)
LEMMA LogsAreSequences ==
  ASSUME NEW id, NEW log, log = GetKeyLog(id)
  PROVE  /\ IsSequence(log)
         /\ IsFiniteSet(DOMAIN log)
         /\ \A i \in DOMAIN log : IsSequence(log[i].keys) /\ log[i].price \in Nat
<1>1. CASE log = NoLog
  BY <1>1, FS_EmptySet DEF NoLog, IsSequence
<1>2. CASE log # NoLog
  <2>1. FiledUnder(id) # {} /\ log = KeyLogs[LastOf(FiledUnder(id))]
    BY <1>2 DEF GetKeyLog
  <2>2. LastOf(FiledUnder(id)) \in DOMAIN KeyLogs
    BY <2>1, StaticViewAssumption, LastIsAmongThem DEF FiledUnder
  <2>3. /\ IsSequence(log)
        /\ \A i \in DOMAIN log : IsSequence(log[i].keys) /\ log[i].price \in 0 .. Len(log[i].keys)
    BY <2>1, <2>2, StaticViewAssumption
  <2>4. ASSUME NEW i \in DOMAIN log PROVE log[i].price \in Nat
    <3>1. log[i].price \in 0 .. Len(log[i].keys)
      BY <2>3
    <3>2. Len(log[i].keys) \in Nat
      BY <2>3 DEF IsSequence
    <3> QED
      BY <3>1, <3>2
  <2>5. DOMAIN log = 1 .. Len(log) /\ Len(log) \in Nat
    BY <2>3 DEF IsSequence
  <2> QED
    BY <2>3, <2>4, <2>5, FS_Interval
<1> QED
  BY <1>1, <1>2

LEMMA ReplayCostIsNat ==
  ASSUME NEW id
  PROVE  ReplayCost(id) \in Nat
<1> DEFINE log == GetKeyLog(id)
           judged == {i \in DOMAIN log : \A j \in 1 .. i - 1 : Follows(id, log[j])}
           checks == [i \in DOMAIN log |-> 1 .. log[i].price]
<1>1. IsFiniteSet(DOMAIN log) /\ \A i \in DOMAIN log : log[i].price \in Nat
  BY LogsAreSequences
<1>2. IsFiniteSet(judged)
  BY <1>1, FS_Subset
<1>3. \A i \in judged : IsFiniteSet(checks[i])
  BY <1>1, FS_Interval
<1>4. Cardinality(UNION {{i} \X checks[i] : i \in judged}) \in Nat
  <2> HIDE DEF judged, checks
  <2> QED
    BY <1>2, <1>3, ChecksAreCounted
<1>5. {{i} \X checks[i] : i \in judged} = {{i} \X (1 .. log[i].price) : i \in judged}
  OBVIOUS
<1> QED
  BY <1>4, <1>5 DEF ReplayCost

(* The keys of one state are at most as many as it lists. *)
LEMMA KeysTriedAreFinite ==
  ASSUME NEW state, IsSequence(state.keys), NEW signer
  PROVE  IsFiniteSet(KeysTried(state, signer))
<1>1. Len(state.keys) \in Nat /\ DOMAIN state.keys = 1 .. Len(state.keys)
  BY DEF IsSequence
<1>2. KeysTried(state, signer) \in SUBSET (1 .. Len(state.keys))
  BY <1>1 DEF KeysTried
<1>3. IsFiniteSet(1 .. Len(state.keys))
  BY <1>1, FS_Interval
<1> QED
  BY <1>2, <1>3, FS_Subset

LEMMA SearchCostIsNat ==
  ASSUME NEW id, NEW signer
  PROVE  SearchCost(id, signer) \in Nat
<1> DEFINE log == GetKeyLog(id)
           same(i, j) == log[i].keys = log[j].keys /\ log[i].threshold = log[j].threshold
           reached == {i \in DOMAIN log : \A j \in DOMAIN log :
                          j > i => ~same(i, j) /\ ~SatisfiedBy(log[j], signer)}
           tried == [i \in DOMAIN log |-> KeysTried(log[i], signer)]
<1>1. IsFiniteSet(DOMAIN log) /\ \A i \in DOMAIN log : IsSequence(log[i].keys)
  BY LogsAreSequences
<1>2. IsFiniteSet(reached)
  BY <1>1, FS_Subset
<1>3. \A i \in reached : IsFiniteSet(tried[i])
  BY <1>1, KeysTriedAreFinite
<1>4. Cardinality(UNION {{i} \X tried[i] : i \in reached}) \in Nat
  <2> HIDE DEF reached, tried
  <2> QED
    BY <1>2, <1>3, ChecksAreCounted
<1>5. {{i} \X tried[i] : i \in reached} = {{i} \X KeysTried(log[i], signer) : i \in reached}
  OBVIOUS
<1> QED
  BY <1>4, <1>5 DEF SearchCost

LEMMA RevocationCostIsNat ==
  ASSUME NEW edge
  PROVE  RevocationCost(edge) \in Nat
<1> DEFINE cost(c) == AnchoredCost(c.issuer, c.anchor, c.signer)
           checks == [c \in Found(edge) |-> 1 .. cost(c)]
           held == {Revocations[i] : i \in DOMAIN Revocations}
<1>1. ASSUME NEW id, NEW anchor, NEW signer
      PROVE  AnchoredCost(id, anchor, signer) \in Nat
  BY LogsAreSequences, KeysTriedAreFinite, FS_CardinalityType DEF AnchoredCost
<1>2. IsFiniteSet(Found(edge))
  <2>1. DOMAIN Revocations = 1 .. Len(Revocations) /\ Len(Revocations) \in Nat
    BY StaticViewAssumption DEF IsSequence
  <2>2. [i \in DOMAIN Revocations |-> Revocations[i]] \in Surjection(DOMAIN Revocations, held)
    BY DEF Surjection
  <2>3. IsFiniteSet(DOMAIN Revocations)
    BY <2>1, FS_Interval
  <2>4. IsFiniteSet(held)
    BY <2>2, <2>3, FS_Surjection
  <2>5. Found(edge) \in SUBSET held
    BY DEF Found, GetRevocations, Naming
  <2> HIDE DEF held
  <2> QED
    BY <2>4, <2>5, FS_Subset
<1>3. \A c \in Found(edge) : IsFiniteSet(checks[c])
  BY <1>1, FS_Interval
<1>4. Cardinality(UNION {{c} \X checks[c] : c \in Found(edge)}) \in Nat
  <2> HIDE DEF checks
  <2> QED
    BY <1>2, <1>3, ChecksAreCounted
<1>5. {{c} \X checks[c] : c \in Found(edge)} = {{c} \X (1 .. cost(c)) : c \in Found(edge)}
  OBVIOUS
<1> QED
  BY <1>4, <1>5 DEF RevocationCost

(* So the rungs spend numbers of checks, and a request that outruns the         *)
(* allowance on one of them is more work than the allowance.                    *)
LEMMA CostsAreNat ==
  ASSUME NEW r \in Request
  PROVE  /\ StateCost[r] \in Nat
         /\ ProbeCost(Delivery[r], KeyState[r].keys) \in Nat
         /\ ChainCost(r) \in Nat
         /\ AgentCost(r) \in Nat
         /\ \A edge : EdgeCost(r, edge) \in Nat
         /\ RepresentsCost(r) \in Nat
<1>1. StateCost[r] \in Nat
  BY ReplayCostIsNat DEF StateCost
<1>2. ProbeCost(Delivery[r], KeyState[r].keys) \in Nat
  BY KeysAreASequence, ProbeAnswers
<1>3. ChainCost(r) \in Nat
  BY ChainsAreVerdicts DEF ChainCost
<1>4. AgentCost(r) \in Nat
  BY ReplayCostIsNat DEF AgentCost
<1>5. ASSUME NEW edge
      PROVE  EdgeCost(r, edge) \in Nat
  <2>1. OrganizationCost(r) \in Nat
    BY ReplayCostIsNat DEF OrganizationCost
  <2>2. SearchCost(edge.issuer, edge.signer) \in Nat /\ RevocationCost(edge) \in Nat
    BY SearchCostIsNat, RevocationCostIsNat
  <2> QED
    BY <2>1, <2>2 DEF EdgeCost
<1>6. RepresentsCost(r) \in Nat
  BY <1>4, <1>5 DEF RepresentsCost
<1> QED
  BY <1>1, <1>2, <1>3, <1>4, <1>5, <1>6

LEMMA OutrunningIsTooMuchWork ==
  ASSUME NEW r \in Request, DoorRefusal[r] = "none",
         \/ LeftForSignature[r] < 0
         \/ LeftForChain(r) < 0
         \/ LeftForEdge(r) < 0
         \/ RepresentsCost(r) > LeftForEdge(r)
  PROVE  Work[r] > MaxVerifications
<1> DEFINE probe == ProbeCost(Delivery[r], KeyState[r].keys)
<1>1. /\ MaxVerifications \in Nat
      /\ StateCost[r] \in Nat /\ probe \in Nat
      /\ ChainCost(r) \in Nat /\ RepresentsCost(r) \in Nat
  BY CostsAreNat, HttpSignatureAssumption
<1>2. Work[r] = StateCost[r] + probe + ChainCost(r) + RepresentsCost(r)
  BY DEF Work
<1>3. /\ LeftForSignature[r] = MaxVerifications - StateCost[r]
      /\ LeftForChain(r) = LeftForSignature[r] - probe
      /\ LeftForEdge(r) = LeftForChain(r) - ChainCost(r)
  BY DEF LeftForSignature, LeftForChain, LeftForEdge
<1> HIDE DEF probe
<1> QED
  BY <1>1, <1>2, <1>3

-------------------------------------------------------------------------------
(* What verifyRequest says of a delivery that got past the door: one that was  *)
(* signed just so, with a key of a 1-of-n state, and is fresh verifies, unless *)
(* the probe takes more checks than the replay of the log has left.            *)
LEMMA VerifyRequestIsFair ==
  ASSUME NEW r \in Request, NEW now \in Int, DoorRefusal[r] = "none",
         NEW verdict, verdict = Verified(r, now)
  PROVE  /\ verdict \in {"verified", "signature_invalid", "content_digest_mismatch",
                         "signature_stale", "request_signature_too_expensive"}
         /\ SignedJustSo[r] /\ KeyState[r].threshold = 1 /\ FreshAt(r, now)
               => verdict \in {"verified", "request_signature_too_expensive"}
         /\ verdict = "request_signature_too_expensive" =>
               ProbeCost(Delivery[r], KeyState[r].keys) > LeftForSignature[r]
<1> DEFINE m == Delivery[r]
           keys == KeyState[r].keys
           probe == ProbeKeys(m, keys, LeftForSignature[r])
<1>1. /\ probe \in {"request_signature_too_expensive", "signature_invalid", "verified"}
      /\ probe = "request_signature_too_expensive" => ProbeCost(m, keys) > LeftForSignature[r]
      /\ probe = "signature_invalid" => \A i \in DOMAIN keys : ~KeyMatches(m, keys[i])
  BY KeysAreASequence, ProbeAnswers
<1>2. /\ m.adapter # "text"
      /\ m.input \notin {Absent, Malformed}
      /\ m.input.created = Created[r]
  BY RelyingPartyAssumption DEF DoorRefusal, NotRaw, NamesKeyId
<1> HIDE DEF probe
<1>3. \/ verdict \in {"signature_invalid", "content_digest_mismatch", "signature_stale"}
      \/ verdict = probe
  BY DEF Verified, VerifyRequest, probe
<1>4. ASSUME SignedJustSo[r], KeyState[r].threshold = 1, FreshAt(r, now)
      PROVE  verdict = probe /\ \E i \in DOMAIN keys : KeyMatches(m, keys[i])
  <2>1. PICK s \in Sent : /\ Content(s) = Content(m)
                          /\ Read(r) = s.body
                          /\ s.signature.key \in CurrentKeys(r)
    BY <1>4 DEF SignedJustSo
  <2>2. /\ m.method = s.method /\ m.url = s.url /\ m.grants = s.grants
        /\ m.digest = s.digest /\ m.input = s.input /\ m.signature = s.signature
    BY <2>1 DEF Content
  <2>3. /\ Absent \notin {m.digest, m.input, m.signature}
        /\ m.signature # Malformed
        /\ m.input.grants = (m.grants # Absent)
        /\ m.signature.base = SignatureBase(m.method, m.url, m.digest, m.input, m.grants)
        /\ m.digest = ContentDigest(s.body)
    BY <2>2, SignaturesAreUnforgeable
  <2>4. s.body = Handed[r]
    BY <1>2, <2>1 DEF Read
  <2>5. PICK i \in DOMAIN keys : keys[i] = m.signature.key
    BY <2>1, <2>2 DEF CurrentKeys
  <2>6. KeyMatches(m, keys[i])
    BY <2>3, <2>5 DEF KeyMatches
  <2>7. ~(now - m.input.created > MaxSkew \/ m.input.created - now > MaxSkew)
    BY <1>2, <1>4, RequestVerifierAssumption, NonceGuardAssumption DEF FreshAt
  <2>8. verdict = probe
    BY <1>2, <1>4, <2>3, <2>4, <2>7 DEF Verified, VerifyRequest, probe, SupportedThreshold
  <2> QED
    BY <2>6, <2>8
<1>5. ASSUME SignedJustSo[r], KeyState[r].threshold = 1, FreshAt(r, now)
      PROVE  verdict \in {"verified", "request_signature_too_expensive"}
  BY <1>1, <1>4, <1>5
<1> QED
  BY <1>1, <1>3, <1>5

(* A refusal blames whom it concerns: the sender for what the sender did, the *)
(* surface for what it lacks.                                                 *)
Fair(r, reason, now) ==
    IF Status(reason) = 401 THEN ~Faultless(r) ELSE SurfaceFault(r, now)

LEMMA SignatureRefusalsAreFair ==
  ASSUME VerifierInvariant, NEW r \in Request, NEW now \in {NowSeconds} \cup BrokenReadings,
         DoorRefusal[r] = "none", SignatureRefusal(r, now) # "none"
  PROVE  Fair(r, SignatureRefusal(r, now), now)
<1> DEFINE reason == SignatureRefusal(r, now)
           verdict == Verified(r, now)
           affords == ~(LeftForSignature[r] < 0)
<1>1. CASE ~affords
  <2>1. Work[r] > MaxVerifications
    BY <1>1, OutrunningIsTooMuchWork
  <2> QED
    BY <1>1, <2>1 DEF SignatureRefusal, Fair, Status, CapacityReasons, CostReasons, SurfaceFault
<1>2. CASE affords /\ KeyState[r] = NoState
  <2>1. reason = "agent_key_log_unresolved"
    BY <1>2 DEF SignatureRefusal
  <2>2. CurrentKeys(r) = {}
    BY <1>2 DEF CurrentKeys, NoState
  <2>3. ~Faultless(r)
    BY <2>2 DEF Faultless, SignedJustSo
  <2> QED
    BY <2>1, <2>3 DEF Fair, Status, CapacityReasons, CostReasons
<1>3. CASE affords /\ KeyState[r] # NoState /\ ~UsableClock(now)
  BY <1>3 DEF SignatureRefusal, Fair, Status, CapacityReasons, CostReasons, SurfaceFault
<1>4. CASE affords /\ KeyState[r] # NoState /\ UsableClock(now)
  <2>1. now = NowSeconds /\ now \in Nat
    BY <1>4, RequestVerifierAssumption DEF UsableClock
  <2> HIDE DEF verdict
  <2>2. /\ verdict \in {"verified", "signature_invalid", "content_digest_mismatch",
                         "signature_stale", "request_signature_too_expensive"}
        /\ SignedJustSo[r] /\ KeyState[r].threshold = 1 /\ FreshAt(r, now)
              => verdict \in {"verified", "request_signature_too_expensive"}
        /\ verdict = "request_signature_too_expensive" =>
              ProbeCost(Delivery[r], KeyState[r].keys) > LeftForSignature[r]
    BY <2>1, VerifyRequestIsFair DEF verdict
  <2>3. CASE verdict # "verified"
    <3>1. reason = verdict
      BY <1>4, <2>3 DEF SignatureRefusal, verdict
    <3>2. CASE verdict = "request_signature_too_expensive"
      <4>1. LeftForChain(r) < 0
        <5>1. /\ ProbeCost(Delivery[r], KeyState[r].keys) \in Nat
              /\ LeftForSignature[r] \in Int
          BY CostsAreNat, HttpSignatureAssumption DEF LeftForSignature
        <5> QED
          BY <2>2, <3>2, <5>1 DEF LeftForChain
      <4>2. Work[r] > MaxVerifications
        BY <4>1, OutrunningIsTooMuchWork
      <4> QED
        BY <3>1, <3>2, <4>2 DEF Fair, Status, CapacityReasons, CostReasons, SurfaceFault
    <3>3. CASE verdict \in {"signature_invalid", "content_digest_mismatch", "signature_stale"}
      <4>1. ~Faultless(r)
        BY <2>1, <2>2, <3>3 DEF Faultless
      <4> QED
        BY <3>1, <3>3, <4>1 DEF Fair, Status, CapacityReasons, CostReasons
    <3> QED
      BY <2>2, <2>3, <3>2, <3>3
  <2>4. CASE verdict = "verified"
    <3>1. reason = "nonce_replayed" /\ LiveIn(seen, Delivery[r].input.nonce)
      BY <1>4, <2>4 DEF SignatureRefusal, Peek, verdict
    <3>2. Delivery[r].input.nonce = NonceOf[r]
      BY RelyingPartyAssumption DEF DoorRefusal, NamesKeyId
    <3>3. \E other \in Request : accepted[other] > 0 /\ NonceOf[other] = NonceOf[r]
      BY <3>1, <3>2 DEF VerifierInvariant, HeldNoncesWereAccepted, LiveIn
    <3>4. ~Faultless(r)
      BY <3>3 DEF Faultless
    <3> QED
      BY <3>1, <3>4 DEF Fair, Status, CapacityReasons, CostReasons
  <2> QED
    BY <2>3, <2>4
<1> QED
  BY <1>1, <1>2, <1>3, <1>4

LEMMA AuthorizationRefusalsAreFair ==
  ASSUME NEW r \in Request, NEW now, DoorRefusal[r] = "none", AuthorizationRefusal[r] # "none"
  PROVE  Fair(r, AuthorizationRefusal[r], now)
<1> DEFINE reason == AuthorizationRefusal[r]
<1>1. ~Faultless(r)
  BY DEF Faultless
<1>2. ASSUME reason \in CapacityReasons
      PROVE  Work[r] > MaxVerifications
  <2>1. \/ LeftForEdge(r) < 0
        \/ /\ RequireRepresents # Absent /\ EdgesFor(r) # {}
           /\ reason = RepresentsReason(r, EdgeFor(r))
    BY <1>2, ChainsAreVerdicts DEF AuthorizationRefusal, CapacityReasons, CostReasons
  <2>2. ASSUME RequireRepresents # Absent, EdgesFor(r) # {},
               reason = RepresentsReason(r, EdgeFor(r))
        PROVE  RepresentsCost(r) > LeftForEdge(r)
    <3> DEFINE edge == EdgeFor(r)
    <3>1. /\ AgentCost(r) \in Nat /\ EdgeCost(r, edge) \in Nat
          /\ LeftForEdge(r) \in Int
      BY CostsAreNat, HttpSignatureAssumption DEF LeftForEdge, LeftForChain, LeftForSignature
    <3>2. RepresentsCost(r) = AgentCost(r) + IF Apt(r, edge) THEN EdgeCost(r, edge) ELSE 0
      BY <2>2 DEF RepresentsCost
    <3> HIDE DEF edge
    <3>3. \/ AgentCost(r) > LeftForEdge(r)
          \/ Apt(r, edge) /\ AgentCost(r) + EdgeCost(r, edge) > LeftForEdge(r)
      BY <1>2, <2>2 DEF RepresentsReason, CapacityReasons, CostReasons, edge
    <3> QED
      BY <3>1, <3>2, <3>3
  <2> QED
    BY <2>1, <2>2, OutrunningIsTooMuchWork
<1> QED
  BY <1>1, <1>2 DEF Fair, Status, SurfaceFault

(* A verdict the guard refuses with: the nonce is that of somebody who was let *)
(* in, or every place is taken by a live entry.                                *)
LEMMA CommitRefusalsAreFair ==
  ASSUME VerifierInvariant, VerifierInvariant', NEW h \in Handler, Commit(h),
         NEW r \in Request, r = request[h], NEW now, now = reading[h],
         NEW verdict \in Verdict, Check(NonceOf[r], now, verdict), verdict # "fresh"
  PROVE  Fair(r, ReasonOf(verdict), now)'
<1> DEFINE n == NonceOf[r]
<1>1. /\ TypeOK /\ GuardTypeOK
      /\ InsertionOrderIsDeadlineOrder /\ PlacesDistinct
      /\ UNCHANGED mono
  BY DEF VerifierInvariant, TypeOK, DeadlineOrder, Commit
<1>2. CASE verdict = "clock_invalid"
  <2>1. ~UsableClock(now)
    BY <1>2 DEF Check, CheckClockInvalid
  <2>2. SurfaceFault(r, now)'
    BY <2>1 DEF SurfaceFault, UsableClock
  <2>3. Status(ReasonOf(verdict)) = 503
    BY <1>2 DEF ReasonOf, Status, CapacityReasons, CostReasons
  <2> QED
    BY <2>2, <2>3 DEF Fair
<1>3. CASE verdict = "replayed"
  <2>1. LiveIn(Paced, n) /\ seen' = Paced
    BY <1>3 DEF Check, CheckReplayed
  <2>2. \E other \in Request : accepted'[other] > 0 /\ NonceOf[other] = n
    BY <2>1 DEF VerifierInvariant, HeldNoncesWereAccepted, LiveIn
  <2>3. ~Faultless(r)'
    BY <2>2 DEF Faultless
  <2>4. Status(ReasonOf(verdict)) = 401
    BY <1>3 DEF ReasonOf, Status, CapacityReasons, CostReasons
  <2> QED
    BY <2>3, <2>4 DEF Fair
<1>4. CASE verdict = "at_capacity"
  <2>1. ~LiveIn(Paced, n) /\ Full(Pruned(n)) /\ seen' = Pruned(n)
    BY <1>4 DEF Check, CheckAtCapacity
  <2>2. \A m \in DOMAIN Pruned(n) : seen[m].expires > mono
    BY <1>1, <2>1, FullOfLiveEntries
  <2>3. \A m \in DOMAIN Pruned(n) : Pruned(n)[m] = seen[m]
    BY <2>1, PrunedFacts
  <2>4. \A m \in DOMAIN seen' : seen'[m].expires > mono'
    BY <1>1, <2>1, <2>2, <2>3
  <2>5. Full(seen') /\ \A m \in DOMAIN seen' : m \in DOMAIN seen' /\ seen'[m].expires > mono'
    BY <2>1, <2>4 DEF Full
  <2>6. SurfaceFault(r, now)'
    BY <2>5 DEF SurfaceFault, LiveIn
  <2>7. Status(ReasonOf(verdict)) = 503
    BY <1>4 DEF ReasonOf, Status, CapacityReasons, CostReasons
  <2> QED
    BY <2>6, <2>7 DEF Fair
<1> QED
  BY <1>2, <1>3, <1>4 DEF Verdict

(* Who is blamed does not change while the guard, the clock and the accepted *)
(* requests stay as they are.                                                *)
LEMMA FairnessRests ==
  ASSUME NEW r, NEW reason, NEW now, Fair(r, reason, now), UNCHANGED <<seen, mono, wall, accepted>>
  PROVE  Fair(r, reason, now)'
  BY DEF Fair, Faultless, SurfaceFault, FreshAt, NowSeconds, LiveIn, Full

(* The inductive step, by who answers. *)
LEMMA StepBlamesFairly ==
  ASSUME VerifierInvariant, VerifierInvariant', SurfaceInvariant, BlamesWhomItConcerns,
         [SurfaceNext]_surfaceVars
  PROVE  BlamesWhomItConcerns'
<1>1. ASSUME answer' = NoAnswer
      PROVE  BlamesWhomItConcerns'
  BY <1>1 DEF BlamesWhomItConcerns
<1>2. ASSUME NEW r \in Request, NEW reason, NEW now, Answer(r, reason, now),
             reason # Accepted => Fair(r, reason, now)'
      PROVE  BlamesWhomItConcerns'
  <2>1. answer'.request = r /\ answer'.reason = reason /\ answer'.now = now
    BY <1>2 DEF Answer
  <2>2. reason # Accepted => IF Status(reason) = 401 THEN ~Faultless(r)' ELSE SurfaceFault(r, now)'
    BY <1>2 DEF Fair
  <2> QED
    BY <2>1, <2>2 DEF BlamesWhomItConcerns, Faultless, SurfaceFault, FreshAt
<1>3. CASE Clocks
  BY <1>1, <1>3 DEF Clocks
<1>4. ASSUME NEW h \in Handler, NEW r \in Request, RefuseAtTheDoor(h, r)
      PROVE  BlamesWhomItConcerns'
  <2>1. ~Faultless(r) /\ Status(DoorRefusal[r]) = 401
    BY <1>4 DEF RefuseAtTheDoor, Faultless, DoorRefusal, Status, CapacityReasons, CostReasons
  <2>2. Fair(r, DoorRefusal[r], 0)
    BY <2>1 DEF Fair
  <2>3. Fair(r, DoorRefusal[r], 0)'
    BY <1>4, <2>2, FairnessRests DEF RefuseAtTheDoor, vars, clockVars
  <2> QED
    BY <1>2, <1>4, <2>3 DEF RefuseAtTheDoor
<1>5. ASSUME NEW h \in Handler, NEW r \in Request, ArriveAt(h, r)
      PROVE  BlamesWhomItConcerns'
  BY <1>1, <1>5 DEF ArriveAt
<1>6. ASSUME NEW h \in Handler, NEW now \in {NowSeconds} \cup BrokenReadings, RefuseSignature(h, now)
      PROVE  BlamesWhomItConcerns'
  <2>1. PICK r \in Request : r = request[h]
    BY DEF SurfaceInvariant, Places
  <2>2. DoorRefusal[r] = "none"
    BY <1>6, <2>1 DEF RefuseSignature, RefuseEarly, SurfaceInvariant, HeldRequestsPassed
  <2>3. PICK reason : reason = SignatureRefusal(r, now)
    OBVIOUS
  <2>4. Answer(r, reason, now) /\ reason # "none"
    BY <1>6, <2>1, <2>3 DEF RefuseSignature, Answer
  <2>5. Fair(r, reason, now)
    BY <2>2, <2>3, <2>4, SignatureRefusalsAreFair
  <2>6. Fair(r, reason, now)'
    BY <1>6, <2>5, FairnessRests DEF RefuseSignature, RefuseEarly, Refuse, guardVars, clockVars
  <2> QED
    BY <1>2, <2>4, <2>6
<1>7. ASSUME NEW h \in Handler, NEW now, AskNonce(h, now)
      PROVE  BlamesWhomItConcerns'
  BY <1>1, <1>7 DEF AskNonce
<1>8. ASSUME NEW h \in Handler, RefuseAuthorization(h)
      PROVE  BlamesWhomItConcerns'
  <2>1. PICK r \in Request : r = request[h]
    BY DEF SurfaceInvariant, Places
  <2>0. PICK now : now = reading[h]
    OBVIOUS
  <2>2. DoorRefusal[r] = "none" /\ AuthorizationRefusal[r] # "none"
    BY <1>8, <2>1 DEF RefuseAuthorization, RefuseUnauthorized, SurfaceInvariant, HeldRequestsPassed
  <2>3. Answer(r, AuthorizationRefusal[r], now)
    BY <1>8, <2>1, <2>0 DEF RefuseAuthorization
  <2>4. Fair(r, AuthorizationRefusal[r], now)
    BY <2>2, AuthorizationRefusalsAreFair
  <2>5. Fair(r, AuthorizationRefusal[r], now)'
    BY <1>8, <2>4, FairnessRests
    DEF RefuseAuthorization, RefuseUnauthorized, Refuse, guardVars, clockVars
  <2> QED
    BY <1>2, <2>3, <2>5
<1>9. ASSUME NEW h \in Handler, CommitNonce(h)
      PROVE  BlamesWhomItConcerns'
  <2>1. PICK r \in Request : r = request[h]
    BY DEF SurfaceInvariant, Places
  <2>0. PICK now : now = reading[h]
    OBVIOUS
  <2>2. PICK verdict \in Verdict :
            /\ Check(NonceOf[request[h]], reading[h], verdict)
            /\ Answer(request[h], ReasonOf(verdict), reading[h])
    BY <1>9 DEF CommitNonce
  <2>3. Check(NonceOf[r], now, verdict) /\ Answer(r, ReasonOf(verdict), now) /\ Commit(h)
    BY <1>9, <2>1, <2>0, <2>2 DEF CommitNonce
  <2>4. ReasonOf(verdict) # Accepted => verdict # "fresh"
    BY DEF ReasonOf
  <2>5. ReasonOf(verdict) # Accepted => Fair(r, ReasonOf(verdict), now)'
    BY <2>1, <2>0, <2>3, <2>4, CommitRefusalsAreFair
  <2> QED
    BY <1>2, <2>3, <2>5
<1>10. CASE UNCHANGED surfaceVars
  <2>1. UNCHANGED <<seen, mono, wall, accepted, answer>>
    BY <1>10 DEF surfaceVars, vars, clockVars
  <2> QED
    BY <2>1 DEF BlamesWhomItConcerns, Faultless, SurfaceFault, FreshAt, NowSeconds, LiveIn, Full
<1> QED
  BY <1>3, <1>4, <1>5, <1>6, <1>7, <1>8, <1>9, <1>10 DEF SurfaceNext

(* 401 and 503 say whose fault it is, on every rung of verify: whoever did     *)
(* everything right is never told that its credentials are wrong, and a retry  *)
(* is asked for only when the surface lacks its clock, a place for a nonce, or *)
(* the means for the work.                                                     *)
THEOREM RefusalsBlameWhomTheyConcern == SurfaceSpec => []BlamesWhomItConcerns
<1>1. SurfaceInit => SurfaceInvariant /\ BlamesWhomItConcerns
  BY SurfaceInitHolds DEF SurfaceInit, BlamesWhomItConcerns
<1>2. /\ VerifierInvariant /\ VerifierInvariant'
      /\ SurfaceInvariant /\ BlamesWhomItConcerns
      /\ [SurfaceNext]_surfaceVars
      => SurfaceInvariant' /\ BlamesWhomItConcerns'
  BY SurfaceStepKeepsInvariant, StepBlamesFairly
<1>3. SurfaceSpec => []VerifierInvariant
  BY SurfaceIsAVerifier, VerifierInvariantHolds, PTL
<1> QED
  BY <1>1, <1>2, <1>3, PTL DEF SurfaceSpec
===============================================================================
