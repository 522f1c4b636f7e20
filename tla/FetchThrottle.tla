----------------------------- MODULE FetchThrottle -----------------------------
(***************************************************************************)
(* The self-throttle on outbound fetches of                                *)
(* packages/verify/src/discovery-view.ts: acquireFetchSlot,                *)
(* releaseFetchSlot, the timer of a queued lookup and the deadline of a    *)
(* running exchange.  A lookup here is one cache miss inside getJson.      *)
(***************************************************************************)
EXTENDS Naturals, Sequences, FiniteSets, SequencesExt

CONSTANTS
    Lookup,          \* the lookups that may miss the cache at the same time
    MaxConcurrent,   \* maxConcurrentFetches
    MaxQueued        \* maxQueuedFetches

(* boundedThrottleOption floors every bound at one. *)
ASSUME FetchThrottleAssumption ==
    /\ IsFiniteSet(Lookup)
    /\ MaxConcurrent \in Nat \ {0}
    /\ MaxQueued \in Nat \ {0}

VARIABLES
    phase,      \* where each lookup is: "idle", "queued" or "fetching"
    inFlight,   \* fetchesInFlight
    waiters,    \* the queue of lookups without a slot
    timers      \* the lookups whose queue timer is armed

throttleVars == <<phase, inFlight, waiters, timers>>

ThrottleInit ==
    /\ phase = [l \in Lookup |-> "idle"]
    /\ inFlight = 0
    /\ waiters = << >>
    /\ timers = {}

Fetching == {l \in Lookup : phase[l] = "fetching"}
Queued == {l \in Lookup : phase[l] = "queued"}

(* acquireFetchSlot with a free slot: taken before the promise is returned. *)
AcquireAtOnce(l) ==
    /\ phase[l] = "idle"
    /\ inFlight < MaxConcurrent
    /\ inFlight' = inFlight + 1
    /\ phase' = [phase EXCEPT ![l] = "fetching"]
    /\ UNCHANGED <<waiters, timers>>

(* acquireFetchSlot with no slot but room in the queue. *)
Enqueue(l) ==
    /\ phase[l] = "idle"
    /\ inFlight >= MaxConcurrent
    /\ Len(waiters) < MaxQueued
    /\ waiters' = Append(waiters, l)
    /\ timers' = timers \cup {l}
    /\ phase' = [phase EXCEPT ![l] = "queued"]
    /\ UNCHANGED inFlight

(* acquireFetchSlot with neither: refused at once. *)
RefuseAtCapacity(l) ==
    /\ phase[l] = "idle"
    /\ inFlight >= MaxConcurrent
    /\ Len(waiters) >= MaxQueued
    /\ UNCHANGED throttleVars

(* The queue timer fires: the waiter is spliced out and its promise rejected, *)
(* which does nothing to a promise the grant has already resolved.            *)
QueueTimeout(l) ==
    /\ l \in timers
    /\ timers' = timers \ {l}
    /\ waiters' = RemoveFirst(waiters, l)
    /\ phase' = IF phase[l] = "queued" THEN [phase EXCEPT ![l] = "idle"] ELSE phase
    /\ UNCHANGED inFlight

(* A fault to be caught: the slot is given back and nobody is woken. *)
FaultyRelease(l) ==
    /\ inFlight' = inFlight - 1
    /\ phase' = [phase EXCEPT ![l] = "idle"]
    /\ UNCHANGED <<waiters, timers>>

(* releaseFetchSlot: give the slot back and hand it on, in one step. *)
Release(l) ==
    IF waiters = << >>
    THEN /\ inFlight' = inFlight - 1
         /\ phase' = [phase EXCEPT ![l] = "idle"]
         /\ UNCHANGED <<waiters, timers>>
    ELSE /\ inFlight' = (inFlight - 1) + 1
         /\ phase' = [phase EXCEPT ![l] = "idle", ![Head(waiters)] = "fetching"]
         /\ waiters' = Tail(waiters)
         /\ timers' = timers \ {Head(waiters)}

(* The exchange ends by itself: an answer, a 404, a refusal or a transport    *)
(* error.  The release sits in a finally, so all of them give the slot back.  *)
ExchangeEnds(l) ==
    /\ phase[l] = "fetching"
    /\ Release(l)

(* The fetch deadline aborts the exchange; the same finally runs. *)
DeadlineFires(l) ==
    /\ phase[l] = "fetching"
    /\ Release(l)

-------------------------------------------------------------------------------
(* No lookup waits while a slot is free: the handover loses no wakeup. *)
NoIdleSlotWhileWaiting == waiters # << >> => inFlight = MaxConcurrent

(* Every lookup that wants a slot is answered in the end, even if no queue    *)
(* timer ever fires and the service answers nothing.                          *)
EveryLookupSettles ==
    \A l \in Lookup : phase[l] # "idle" ~> phase[l] = "idle"
===============================================================================
