----------------------------- MODULE ReplayWindow -----------------------------
(***************************************************************************)
(* What a nonce guard promises, with no map, no sweep and no ordering: a   *)
(* nonce answered "fresh" has an open window for TtlTicks; while the       *)
(* window is open every check of it is "replayed"; a nonce with no open    *)
(* window is recorded, unless MaxEntries windows are open at that instant. *)
(***************************************************************************)
EXTENDS Integers, FiniteSets

CONSTANTS Nonce, MaxEntries, TtlTicks, MaxTime

VARIABLES
    openUntil,   \* nonce -> the instant its window closes (0: never opened)
    mono,        \* the monotonic clock
    answer       \* the last question answered: <<nonce, verdict>>

windowVars == <<openUntil, mono, answer>>

NoAnswer == << >>

Open == {n \in Nonce : openUntil[n] > mono}

Init ==
    /\ openUntil = [n \in Nonce |-> 0]
    /\ mono = 0
    /\ answer = NoAnswer

Fresh(n) ==
    /\ n \notin Open
    /\ Cardinality(Open) < MaxEntries
    /\ openUntil' = [openUntil EXCEPT ![n] = mono + TtlTicks]
    /\ answer' = <<n, "fresh">>
    /\ UNCHANGED mono

Replayed(n) ==
    /\ n \in Open
    /\ answer' = <<n, "replayed">>
    /\ UNCHANGED <<openUntil, mono>>

AtCapacity(n) ==
    /\ n \notin Open
    /\ Cardinality(Open) >= MaxEntries
    /\ answer' = <<n, "at_capacity">>
    /\ UNCHANGED <<openUntil, mono>>

ClockInvalid(n) ==
    /\ answer' = <<n, "clock_invalid">>
    /\ UNCHANGED <<openUntil, mono>>

Tick ==
    /\ mono < MaxTime
    /\ mono' \in mono + 1 .. MaxTime
    /\ answer' = NoAnswer
    /\ UNCHANGED openUntil

Next ==
    \/ Tick
    \/ \E n \in Nonce : Fresh(n) \/ Replayed(n) \/ AtCapacity(n) \/ ClockInvalid(n)

Spec == Init /\ [][Next]_windowVars
===============================================================================
