--------------------------- MODULE NonceGuardCaller ---------------------------
(***************************************************************************)
(* The nonce guard driven by an arbitrary caller: any nonce, any clock     *)
(* reading, any monotonic instant.  Two history variables record what the  *)
(* guard answered, so that it can be held against ReplayWindow, the        *)
(* abstract statement of its contract.                                     *)
(***************************************************************************)
EXTENDS NonceGuard

CONSTANTS
    MaxCallerTime,    \* bound: the monotonic clock stops here
    Readings    \* wall-clock readings callers hand over, usable or not

VARIABLES
    openUntil,  \* history: when the window opened by the last "fresh" closes
    said      \* history: the last <<nonce, verdict>>

callerVars == <<seen, inserted, lastSweep, mono, openUntil, said>>

NothingSaid == << >>

CallerInit ==
    /\ GuardInit
    /\ mono = 0
    /\ openUntil = [n \in Nonce |-> 0]
    /\ said = NothingSaid

CallCheck(n, at) ==
    \E verdict \in Verdict :
        /\ Check(n, at, verdict)
        /\ said' = <<n, verdict>>
        /\ openUntil' = IF verdict = "fresh"
                        THEN [openUntil EXCEPT ![n] = mono + TtlTicks]
                        ELSE openUntil
        /\ UNCHANGED mono

(* Time passes between calls, by any amount. *)
PassTime ==
    /\ mono < MaxCallerTime
    /\ mono' \in mono + 1 .. MaxCallerTime
    /\ said' = NothingSaid
    /\ UNCHANGED <<guardVars, openUntil>>

CallerNext == PassTime \/ \E n \in Nonce, at \in Readings : CallCheck(n, at)

CallerSpec == CallerInit /\ [][CallerNext]_callerVars

-------------------------------------------------------------------------------
(* Every variable holds a value of its kind. *)
CallerTypeOK ==
    /\ GuardTypeOK
    /\ openUntil \in [Nonce -> Nat]
    /\ said \in {NothingSaid} \cup (Nonce \X Verdict)

(* The order the Map iterates in is the order its deadlines fall in, which  *)
(* is what lets sweepCouldFree decide from the first entry alone.  A read    *)
(* that reordered the Map, or a refreshed entry that kept its old place,     *)
(* would break it many calls later.                                          *)
InsertionOrderIsDeadlineOrder ==
    \A m, n \in DOMAIN seen :
        seen[m].pos < seen[n].pos => seen[m].expires <= seen[n].expires

(* No two entries share a place, and the next place is past them all. *)
PlacesDistinct ==
    /\ \A n \in DOMAIN seen : seen[n].pos < inserted
    /\ \A m, n \in DOMAIN seen : seen[m].pos = seen[n].pos => m = n

(* The Map agrees with the windows that are open: every open window has its  *)
(* entry with exactly that deadline, whatever was swept, and no entry claims *)
(* a window that was never opened.                                           *)
MapHoldsOpenWindows ==
    /\ \A n \in Nonce : openUntil[n] > mono => n \in DOMAIN seen
    /\ \A n \in DOMAIN seen : seen[n].expires = openUntil[n]

(* No deadline is further away than one retention window. *)
DeadlinesWithinWindow ==
    \A n \in DOMAIN seen : seen[n].expires <= mono + TtlTicks

GuardInvariant ==
    /\ CallerTypeOK
    /\ InsertionOrderIsDeadlineOrder
    /\ PlacesDistinct
    /\ MapHoldsOpenWindows
    /\ DeadlinesWithinWindow

(* A peek foresees the check that follows it at once: a nonce is reported    *)
(* replayed by both or by neither, so an entry whose retention has ended but *)
(* which no sweep has reclaimed yet is not a refusal to either of them.      *)
PeekForeseesCheck ==
    [][\A n \in Nonce :
          /\ said' = <<n, "replayed">> => Peek(n, 0) = "replayed"
          /\ said' = <<n, "fresh">> => Peek(n, 0) = "fresh"]_callerVars

(* The bounded, lazily swept Map implements the retention windows: in        *)
(* particular "fresh" is never said twice within a window, "replayed" is     *)
(* never said of a nonce whose window has closed, and "at_capacity" is said  *)
(* only when MaxEntries windows really are open (the guard heals by itself). *)
Window == INSTANCE ReplayWindow WITH answer <- said, MaxTime <- MaxCallerTime

ImplementsReplayWindow == Window!Spec
===============================================================================
