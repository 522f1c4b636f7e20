---------------------------- MODULE RequestVerifier ----------------------------
(***************************************************************************)
(* createVerifier().verify of packages/verify/src/verifier.ts as a set of  *)
(* concurrent handlers over one nonce guard.  A handler awaits twice: for  *)
(* the key state of the actor before it reads the clock, and for the grant *)
(* chain and the represents edge between the peek and the commit of the    *)
(* nonce.  Everything between two awaits is one atomic step, as it is on   *)
(* the JavaScript event loop.                                              *)
(*                                                                         *)
(* What the awaited work decides (is the key log valid, does the chain     *)
(* authorize) is a nondeterministic outcome here: this module is about the *)
(* order of the steps, the two clocks and the guard.                       *)
(***************************************************************************)
EXTENDS NonceGuard

CONSTANTS
    Request,          \* signed requests, each presentable any number of times
    Handler,          \* calls of verify that can be in progress at once
    Created,          \* Created[r]: the signature's created parameter, in seconds
    NonceOf,          \* NonceOf[r]: its nonce
    BrokenReadings,   \* what now() may yield besides the wall-clock second
    WallSteps,        \* the amounts, in ticks, by which the wall clock is stepped
    MaxWallSteps,     \* bound: how often it is stepped
    MaxLatency,       \* ticks a handler may spend between peek and commit
    MaxTime           \* bound: the monotonic clock stops here

ASSUME RequestVerifierAssumption ==
    /\ Request # {}
    /\ Created \in [Request -> Nat]
    /\ NonceOf \in [Request -> Nonce]
    /\ BrokenReadings \cap Nat = {}
    /\ WallSteps \subseteq Int
    /\ MaxWallSteps \in Nat
    /\ MaxLatency \in Nat
    /\ MaxTime \in Nat

VARIABLES
    wall,       \* the wall clock, in ticks
    stepped,    \* how often it has been stepped
    pc,         \* where each handler is
    request,    \* the request each handler is verifying
    reading,    \* nowSeconds, read once per handler
    peekedAt,   \* history: the monotonic instant of the handler's peek
    accepted    \* history: how often verify returned successfully for a request

clockVars == <<wall, stepped>>
handlerVars == <<pc, request, reading, peekedAt>>
vars == <<seen, inserted, lastSweep, mono, clockVars, handlerVars, accepted>>

NowSeconds == wall \div TicksPerSecond

(* verifyRequest: Math.abs(now - created) > maxSkew is refused. *)
FreshAt(r, now) == now - Created[r] <= MaxSkew /\ Created[r] - now <= MaxSkew

(* What a handler that is not in a call is said to hold. *)
NoRequest == CHOOSE r \in Request : TRUE

Init ==
    /\ GuardInit
    /\ mono = 0
    /\ wall = 0
    /\ stepped = 0
    /\ pc = [h \in Handler |-> "idle"]
    /\ request = [h \in Handler |-> NoRequest]
    /\ reading = [h \in Handler |-> 0]
    /\ peekedAt = [h \in Handler |-> 0]
    /\ accepted = [r \in Request |-> 0]

(* A request arrives; verify awaits view.getKeyState for the actor. *)
Arrive(h, r) ==
    /\ pc[h] = "idle"
    /\ pc' = [pc EXCEPT ![h] = "resolving"]
    /\ request' = [request EXCEPT ![h] = r]
    /\ UNCHANGED <<guardVars, mono, clockVars, reading, peekedAt, accepted>>

(* verify ends, and what it held goes with it. *)
Leave(h) ==
    /\ pc' = [pc EXCEPT ![h] = "idle"]
    /\ request' = [request EXCEPT ![h] = NoRequest]
    /\ reading' = [reading EXCEPT ![h] = 0]
    /\ peekedAt' = [peekedAt EXCEPT ![h] = 0]

(* verify throws: no state but the handler's own is touched. *)
Refuse(h) ==
    /\ Leave(h)
    /\ UNCHANGED <<guardVars, mono, clockVars, accepted>>

(* The key state is unresolved or too expensive, the clock is unusable, the  *)
(* request is stale, its digest or signature is wrong, or its nonce is known. *)
RefuseEarly(h) ==
    /\ pc[h] = "resolving"
    /\ Refuse(h)

(* A fault to be caught: the nonce is recorded before the work. *)
FaultyCommitEarly(h, now) ==
    /\ pc[h] = "resolving"
    /\ FreshAt(request[h], now)
    /\ Check(NonceOf[request[h]], now, "fresh")
    /\ pc' = [pc EXCEPT ![h] = "authorizing"]
    /\ reading' = [reading EXCEPT ![h] = now]
    /\ peekedAt' = [peekedAt EXCEPT ![h] = mono]
    /\ UNCHANGED <<mono, clockVars, request, accepted>>

(* The key state is there: the clock is read once, the signature checked and *)
(* the guard asked, in one step; then verify awaits the authorization work.  *)
PeekNonce(h, now) ==
    /\ pc[h] = "resolving"
    /\ UsableClock(now)
    /\ FreshAt(request[h], now)
    /\ Peek(NonceOf[request[h]], now) = "fresh"
    /\ pc' = [pc EXCEPT ![h] = "authorizing"]
    /\ reading' = [reading EXCEPT ![h] = now]
    /\ peekedAt' = [peekedAt EXCEPT ![h] = mono]
    /\ UNCHANGED <<guardVars, mono, clockVars, request, accepted>>

(* The chain, its audience, the abilities or the represents edge fails. *)
RefuseUnauthorized(h) ==
    /\ pc[h] = "authorizing"
    /\ Refuse(h)

(* The request authorized: commit the nonce, and return only on "fresh". *)
Commit(h) ==
    /\ pc[h] = "authorizing"
    /\ Leave(h)
    /\ \E verdict \in Verdict :
          /\ Check(NonceOf[request[h]], reading[h], verdict)
          /\ accepted' = IF verdict = "fresh"
                         THEN [accepted EXCEPT ![request[h]] = @ + 1]
                         ELSE accepted
    /\ UNCHANGED <<mono, clockVars>>

(* Time passes; no handler is held longer than MaxLatency between its awaits. *)
Tick ==
    /\ mono < MaxTime
    /\ \A h \in Handler : pc[h] = "authorizing" => mono - peekedAt[h] < MaxLatency
    /\ mono' = mono + 1
    /\ wall' = wall + 1
    /\ UNCHANGED <<guardVars, stepped, handlerVars, accepted>>

(* NTP, a snapshot restore or an operator moves the wall clock. *)
StepWallClock ==
    /\ stepped < MaxWallSteps
    /\ stepped' = stepped + 1
    /\ \E d \in WallSteps : wall + d >= 0 /\ wall' = wall + d
    /\ UNCHANGED <<guardVars, mono, handlerVars, accepted>>

Next ==
    \/ Tick
    \/ StepWallClock
    \/ \E h \in Handler :
          \/ \E r \in Request : Arrive(h, r)
          \/ RefuseEarly(h)
          \/ \E now \in {NowSeconds} \cup BrokenReadings : PeekNonce(h, now)
          \/ RefuseUnauthorized(h)
          \/ Commit(h)

Spec == Init /\ [][Next]_vars

-------------------------------------------------------------------------------
(* Every variable holds a value of its kind. *)
TypeOK ==
    /\ GuardTypeOK
    /\ wall \in Nat
    /\ stepped \in Nat
    /\ pc \in [Handler -> {"idle", "resolving", "authorizing"}]
    /\ request \in [Handler -> Request]
    /\ reading \in [Handler -> Nat]
    /\ peekedAt \in [Handler -> Nat]
    /\ accepted \in [Request -> Nat]

(* Two forms one signed request may be delivered in: the parameters that are  *)
(* under its signature are the same.                                          *)
Alike(q, r) == NonceOf[q] = NonceOf[r] /\ Created[q] = Created[r]

(* verify returns successfully at most once for one signed request, however  *)
(* many forms of it are presented, however their presentations interleave    *)
(* and however often the wall clock is stepped forward (verifier.ts: "a      *)
(* request this function returns successfully can never be replayed").       *)
AtMostOnce ==
    \A r \in Request : accepted[r] > 0 =>
        /\ accepted[r] = 1
        /\ \A q \in Request \ {r} : accepted[q] > 0 => ~Alike(q, r)

(* A captured and re-presented request is refused before the authorization   *)
(* work: none that was already accepted gets past the peek again, in         *)
(* whatever form.                                                            *)
ReplayRefusedBeforeAuthorization ==
    [][\A h \in Handler :
          pc[h] = "resolving" /\ pc'[h] = "authorizing"
             => \A q \in Request : accepted[q] > 0 => ~Alike(q, request[h])]_vars

(* A request that is refused, at any stage, leaves no nonce behind: a slot   *)
(* is spent only in the step in which verify returns successfully.           *)
RefusedLeavesNoTrace ==
    [][inserted' # inserted \/ ~(DOMAIN seen' \subseteq DOMAIN seen)
          => \E h \in Handler :
                /\ accepted'[request[h]] = accepted[request[h]] + 1
                /\ DOMAIN seen' \subseteq DOMAIN seen \cup {NonceOf[request[h]]}]_vars
===============================================================================
