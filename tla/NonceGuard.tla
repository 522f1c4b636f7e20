------------------------------ MODULE NonceGuard ------------------------------
(***************************************************************************)
(* The replay control of packages/crypto/src/nonce-guard.ts: a bounded     *)
(* JavaScript Map from nonce to the monotonic instant its retention ends.  *)
(* This module is the component: its state and its two operations.  It is  *)
(* driven by any caller in NonceGuardCaller and by the request verifier in *)
(* RequestVerifier.                                                        *)
(*                                                                         *)
(* Time is counted in ticks, TicksPerSecond of them to a second, so that   *)
(* events inside one wall-clock second are told apart.                     *)
(***************************************************************************)
EXTENDS Integers, FiniteSets, Functions

CONSTANTS
    Nonce,           \* the nonces callers may present
    MaxEntries,      \* maxEntries: the hard ceiling on tracked nonces
    MaxSkew,         \* maxSkewSeconds of the freshness check
    TicksPerSecond   \* resolution of the monotonic clock

ASSUME NonceGuardAssumption ==
    /\ IsFiniteSet(Nonce)
    /\ MaxEntries \in Nat \ {0}
    /\ MaxSkew \in Nat
    /\ TicksPerSecond \in Nat \ {0}

VARIABLES
    seen,        \* nonce -> [expires, pos]; pos is the place in insertion order
    inserted,    \* insertions so far: the pos of the next one
    lastSweep,   \* lastSweepMono, or NeverSwept
    mono         \* the monotonic clock, in ticks

guardVars == <<seen, inserted, lastSweep>>

NeverSwept == -1

(* A fault to be caught: the boundary second is not counted. *)
FaultyReplayTtlSeconds(skew) == 2 * skew

(* replayTtlSeconds: freshness is inclusive at both ends, retention is not. *)
ReplayTtlSeconds(skew) == 2 * skew + 1

TtlTicks == ReplayTtlSeconds(MaxSkew) * TicksPerSecond

Entry == [expires : Nat, pos : Nat]

Verdict == {"fresh", "replayed", "at_capacity", "clock_invalid"}

GuardTypeOK ==
    /\ DOMAIN seen \subseteq Nonce
    /\ seen \in [DOMAIN seen -> Entry]
    /\ inserted \in Nat
    /\ lastSweep \in Nat \cup {NeverSwept}
    /\ mono \in Nat

GuardInit ==
    /\ seen = << >>
    /\ inserted = 0
    /\ lastSweep = NeverSwept

-------------------------------------------------------------------------------
(* An entry still inside its retention: the strict comparison of the code. *)
LiveIn(map, n) == n \in DOMAIN map /\ map[n].expires > mono

Forget(map, n) == Restrict(map, DOMAIN map \ {n})

(* sweep: drop every entry whose retention has ended. *)
Swept(map) == Restrict(map, {n \in DOMAIN map : map[n].expires > mono})

IsOldest(map, n) ==
    /\ n \in DOMAIN map
    /\ \A m \in DOMAIN map : map[n].pos <= map[m].pos

(* A fault to be caught: the gate looks at the newest entry instead. *)
FaultySweepCouldFree(map) ==
    \E n \in DOMAIN map :
        /\ \A m \in DOMAIN map : map[m].pos <= map[n].pos
        /\ map[n].expires <= mono

(* sweepCouldFree: looks at the first entry of the Map and at no other. *)
SweepCouldFree(map) ==
    \E n \in DOMAIN map : IsOldest(map, n) /\ map[n].expires <= mono

Full(map) == Cardinality(DOMAIN map) >= MaxEntries

(* The clock reading the caller hands over is a non-negative safe integer. *)
UsableClock(atSeconds) == atSeconds \in Nat

PacedSweepDue == lastSweep = NeverSwept \/ mono - lastSweep >= TtlTicks

(* The Map after the sweep that is paced at one per retention window. *)
Paced == IF PacedSweepDue THEN Swept(seen) ELSE seen

(* set: a new key goes to the back of the Map. *)
Record(map, n) ==
    [m \in DOMAIN map \cup {n} |->
        IF m = n THEN [expires |-> mono + TtlTicks, pos |-> inserted] ELSE map[m]]

(* The Map once an expired entry of n is deleted and, at the ceiling, swept. *)
Pruned(n) ==
    LET rest == Forget(Paced, n)
    IN  IF Full(rest) /\ SweepCouldFree(rest) THEN Swept(rest) ELSE rest

SweptByPruning(n) ==
    LET rest == Forget(Paced, n) IN Full(rest) /\ SweepCouldFree(rest)

(***************************************************************************)
(* check(nonce, atSeconds): decides and, on "fresh", records.              *)
(***************************************************************************)
CheckClockInvalid(atSeconds) ==
    /\ ~UsableClock(atSeconds)
    /\ UNCHANGED guardVars

CheckReplayed(n, atSeconds) ==
    /\ UsableClock(atSeconds)
    /\ LiveIn(Paced, n)
    /\ seen' = Paced
    /\ lastSweep' = IF PacedSweepDue THEN mono ELSE lastSweep
    /\ UNCHANGED inserted

CheckAtCapacity(n, atSeconds) ==
    /\ UsableClock(atSeconds)
    /\ ~LiveIn(Paced, n)
    /\ Full(Pruned(n))
    /\ seen' = Pruned(n)
    /\ lastSweep' = IF PacedSweepDue \/ SweptByPruning(n) THEN mono ELSE lastSweep
    /\ UNCHANGED inserted

CheckFresh(n, atSeconds) ==
    /\ UsableClock(atSeconds)
    /\ ~LiveIn(Paced, n)
    /\ ~Full(Pruned(n))
    /\ seen' = Record(Pruned(n), n)
    /\ inserted' = inserted + 1
    /\ lastSweep' = IF PacedSweepDue \/ SweptByPruning(n) THEN mono ELSE lastSweep

Check(n, atSeconds, verdict) ==
    \/ verdict = "clock_invalid" /\ CheckClockInvalid(atSeconds)
    \/ verdict = "replayed" /\ CheckReplayed(n, atSeconds)
    \/ verdict = "at_capacity" /\ CheckAtCapacity(n, atSeconds)
    \/ verdict = "fresh" /\ CheckFresh(n, atSeconds)

(***************************************************************************)
(* peek(nonce, atSeconds): the same question, recording nothing.  The      *)
(* first definition is a fault to be caught: it forgets about expiry.      *)
(***************************************************************************)
FaultyPeek(n, atSeconds) ==
    IF ~UsableClock(atSeconds) THEN "clock_invalid"
    ELSE IF n \in DOMAIN seen THEN "replayed" ELSE "fresh"

Peek(n, atSeconds) ==
    IF ~UsableClock(atSeconds) THEN "clock_invalid"
    ELSE IF LiveIn(seen, n) THEN "replayed" ELSE "fresh"
===============================================================================
