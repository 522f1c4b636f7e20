---------------------------- MODULE RequestContext ----------------------------
(***************************************************************************)
(* One request's verification context, packages/trust/src/resolver.ts:     *)
(* the operations a request handler runs (verifyClaim, verifyRelationship, *)
(* verifyRepresentsChain), several at a time, over one outer allowance and *)
(* one memo of the key states each view answered.  The memo holds promises *)
(* and operations interleave wherever one awaits the view.                 *)
(*                                                                         *)
(* A call is judged on a list of records: the claim or the edge, and after *)
(* the edge the links of the grant chain, leaf first.  What a chain says   *)
(* is GrantChain's (there also links issued by bare keys): here it either  *)
(* fits or it does not, and what matters is what its links and their       *)
(* revocations cost.                                                       *)
(***************************************************************************)
EXTENDS Integers, Sequences, FiniteSets, FiniteSetsExt

CONSTANTS
    Op,            \* operations of the request
    View,          \* trust views the operations are made against
    Honest,        \* those of them that serve what is published, or nothing
    Participant,
    LogLength,     \* LogLength[p]: events of p's key log
    MaxKeys,       \* MAX_KEY_EVENT_KEYS
    Requests,      \* what the operations may be asked: a call for each
    LocalCeiling,  \* LocalCeiling[v]: v.maxSignatureVerifications
    OuterCeilings  \* what a handler may put in context.budget

(* A claim, an edge or a link; a forged one has signedAt 0.  At most one       *)
(* revocation of it is published, by the participant revokedBy.                *)
Record ==
    [issuer : Participant, signedAt : Nat, expired : BOOLEAN, revokedBy : Participant \cup {"nobody"}]

(* What an operation is asked.  A broken chain fails a check that comes before *)
(* its links are looked at, a misdirected one those that come after.           *)
Call ==
    [kind : {"statement", "represents"}, view : View, agent : Participant, edgeMatches : BOOLEAN,
     records : Seq(Record), chain : {"fits", "broken", "misdirected"}]

ASSUME RequestContextAssumption ==
    /\ IsFiniteSet(Op)
    /\ Honest \subseteq View
    /\ LogLength \in [Participant -> Nat \ {0}]
    /\ MaxKeys \in Nat \ {0}
    /\ Requests \subseteq [Op -> Call]
    /\ \A r \in Requests, o \in Op :
          /\ r[o].records # << >>
          /\ r[o].kind = "statement" => Len(r[o].records) = 1
          /\ \A i \in DOMAIN r[o].records :
                r[o].records[i].signedAt <= LogLength[r[o].records[i].issuer]
    /\ LocalCeiling \in [View -> Nat]
    /\ OuterCeilings \subseteq Nat

VARIABLES
    call,       \* call[o]: the call
    pc,         \* pc[o]: the await o is at, "idle" before and "done" after
    verdict,    \* verdict[o], or "none"
    at,         \* at[o]: the record of its call that o judges
    pending,    \* pending[o]: candidates of its lookup not yet looked at
    revoker,    \* revoker[o]: the issuer that its candidate names
    heard,      \* heard[o]: of the promise o awaits: "nothing", "waiting" or the result
    ceiling,    \* context.budget as the handler made it
    outer,      \* context.budget.remaining
    local,      \* local[o]: operation.local.remaining
    allowance,  \* allowance[o]: candidateAllowance.remaining of its lookup
    memo,       \* context.signerStates: memo[v][p], a promise or NoPromise
    spent,      \* history: verifications performed for o
    answered,   \* history: answered[v][p], what view v answered for p
    met         \* history: met[o], operations that ran while o ran

meters == <<outer, local, spent>>
lookup == <<pending, revoker, allowance>>
vars == <<call, pc, verdict, at, lookup, heard, ceiling, meters, memo, answered, met>>

NoPromise == [by |-> "nobody"]

Running(o) == pc[o] \notin {"idle", "done"}

Judged(o) == call[o].records[at[o]]

(* What a call asks signerStates for, at each await that asks. *)
Asked(o) ==
    CASE pc[o] = "agent" -> call[o].agent
      [] pc[o] = "candidate" -> revoker[o]
      [] OTHER -> Judged(o).issuer

(* MAX_REVOCATION_CANDIDATE_VERIFICATIONS: what one lookup may spend. *)
CandidateAllowance == 2 * MaxKeys

Results == {"own", "unresolved", "mismatched", "too_expensive", "threw"}

-------------------------------------------------------------------------------
Init ==
    /\ call \in Requests
    /\ pc = [o \in Op |-> "idle"]
    /\ verdict = [o \in Op |-> "none"]
    /\ at = [o \in Op |-> 1]
    /\ pending = [o \in Op |-> 0]
    /\ revoker = [o \in Op |-> "nobody"]
    /\ allowance = [o \in Op |-> CandidateAllowance]
    /\ heard = [o \in Op |-> "nothing"]
    /\ ceiling \in OuterCeilings
    /\ outer = ceiling
    /\ local = [o \in Op |-> 0]
    /\ spent = [o \in Op |-> 0]
    /\ memo = [v \in View |-> [p \in Participant |-> NoPromise]]
    /\ answered = [v \in View |-> [p \in Participant |-> {}]]
    /\ met = [o \in Op |-> {}]

GoTo(o, place) ==
    /\ pc' = [pc EXCEPT ![o] = place]
    /\ UNCHANGED verdict

Return(o, reason) ==
    /\ pc' = [pc EXCEPT ![o] = "done"]
    /\ verdict' = [verdict EXCEPT ![o] = reason]

(* verificationWorkOptions: the work is held against the least of the meters   *)
(* and charged to each of them.  A fault to be caught: only the operation's    *)
(* own meter limits it.                                                        *)
FaultyRemaining(o) == local[o]

Remaining(o) == Min({local[o], outer})

Charge(o, cost) ==
    /\ local' = [local EXCEPT ![o] = @ - cost]
    /\ outer' = outer - cost
    /\ spent' = [spent EXCEPT ![o] = @ + cost]

(* beginVerificationOperation: a fresh local meter, the context's outer one,   *)
(* and the memo of the view.                                                   *)
Begin(o) ==
    /\ pc[o] = "idle"
    /\ local' = [local EXCEPT ![o] = LocalCeiling[call[o].view]]
    /\ met' = [x \in Op |-> IF x = o THEN {y \in Op : Running(y)}
                            ELSE IF Running(x) THEN met[x] \cup {o} ELSE met[x]]
    /\ IF call[o].kind = "represents" THEN GoTo(o, "agent")
       ELSE IF Judged(o).expired THEN Return(o, "expired")
       ELSE GoTo(o, "issuer")
    /\ UNCHANGED <<call, at, lookup, heard, ceiling, outer, spent, memo, answered>>

-------------------------------------------------------------------------------
(* signerStates.                                                               *)
Asks(o) == pc[o] \in {"agent", "issuer", "candidate"}

(* A fault to be caught: one memo for all the views. *)
FaultyCache(o) == CHOOSE v \in View : TRUE

Cache(o) == call[o].view

Entry(o) == memo[Cache(o)][Asked(o)]

(* The first to ask puts its promise in the memo; whoever asks next awaits the *)
(* same promise, pending or settled.                                           *)
Ask(o) ==
    /\ Asks(o)
    /\ heard[o] = "nothing"
    /\ IF Entry(o) = NoPromise
       THEN /\ memo' = [memo EXCEPT ![Cache(o)][Asked(o)] = [by |-> o, result |-> "waiting"]]
            /\ heard' = [heard EXCEPT ![o] = "waiting"]
       ELSE /\ heard' = [heard EXCEPT ![o] = Entry(o).result]
            /\ UNCHANGED memo
    /\ UNCHANGED <<call, pc, verdict, at, lookup, ceiling, meters, answered, met>>

(* What a view may answer to getKeyLog: the participant's log, no log, one     *)
(* that does not replay or somebody else's; or the call throws.                *)
KeyLogAnswers(v) ==
    IF v \in Honest THEN {"own", "absent", "throws"}
    ELSE {"own", "absent", "throws", "broken", "foreign"}

ReplayCost(p, answer) ==
    IF answer \in {"own", "broken", "foreign"} THEN LogLength[p] * MaxKeys ELSE 0

ResultOf(answer) ==
    CASE answer = "own" -> "own"
      [] answer \in {"absent", "broken"} -> "unresolved"
      [] answer = "foreign" -> "mismatched"
      [] answer = "throws" -> "threw"

(* A fault to be caught: only the one who asked first is told. *)
FaultyAwaiting(o) == {o}

(* Those who await the promise of o. *)
Awaiting(o) ==
    {x \in Op : Asks(x) /\ heard[x] = "waiting" /\ Cache(x) = Cache(o) /\ Asked(x) = Asked(o)}

(* resolveSignerStates, from the view's answer on.  The replay is charged to   *)
(* the operation that made the promise; a meter it outruns is spent.           *)
Settle(o) ==
    /\ Asks(o)
    /\ heard[o] = "waiting"
    /\ Entry(o) = [by |-> o, result |-> "waiting"]
    /\ \E answer \in KeyLogAnswers(call[o].view) :
          LET affordable == ReplayCost(Asked(o), answer) <= Remaining(o)
              result == IF affordable THEN ResultOf(answer) ELSE "too_expensive"
          IN  /\ Charge(o, IF affordable THEN ReplayCost(Asked(o), answer) ELSE Remaining(o))
              /\ memo' = [memo EXCEPT ![Cache(o)][Asked(o)].result = result]
              /\ heard' = [x \in Op |-> IF x \in Awaiting(o) THEN result ELSE heard[x]]
              /\ answered' = [answered EXCEPT ![call[o].view][Asked(o)] = @ \cup {answer}]
    /\ UNCHANGED <<call, pc, verdict, at, lookup, ceiling, met>>

(* A fault to be caught: what failed stays in the memo. *)
FaultyForget(o) == memo

(* The one who made the promise takes it out again unless a log replayed. *)
Forget(o) ==
    IF Entry(o) # NoPromise /\ Entry(o).by = o /\ heard[o] # "own"
    THEN [memo EXCEPT ![Cache(o)][Asked(o)] = NoPromise]
    ELSE memo

(* Where each caller of signerStates goes on with the states. *)
OnwardsFrom(o) ==
    CASE pc[o] = "agent" -> "edge"
      [] pc[o] = "issuer" -> "signature"
      [] pc[o] = "candidate" -> "judge"

(* Without them it returns; a candidate whose issuer has no states is skipped, *)
(* unless it was the allowance that ran out.                                   *)
Resume(o) ==
    /\ Asks(o)
    /\ heard[o] \in Results
    /\ memo' = Forget(o)
    /\ heard' = [heard EXCEPT ![o] = "nothing"]
    /\ IF heard[o] = "own" THEN GoTo(o, OnwardsFrom(o))
       ELSE IF pc[o] = "candidate" /\ heard[o] \in {"unresolved", "mismatched"}
       THEN GoTo(o, "candidates")
       ELSE Return(o, heard[o])
    /\ UNCHANGED <<call, at, lookup, ceiling, meters, answered, met>>

-------------------------------------------------------------------------------
(* Work done in one go: paid, or the meter that ran out is spent and the       *)
(* operation is refused.                                                       *)
Paid(o, cost) == cost <= Remaining(o) /\ Charge(o, cost)

RunsOut(o, cost) ==
    /\ cost > Remaining(o)
    /\ Charge(o, Remaining(o))
    /\ Return(o, "too_expensive")

Stays == UNCHANGED <<call, heard, ceiling, memo, answered, met>>

(* The edge of a represents call, and the expiry of the relationship. *)
CheckEdge(o) ==
    /\ pc[o] = "edge"
    /\ IF ~call[o].edgeMatches THEN Return(o, "edge_mismatch")
       ELSE IF Judged(o).expired THEN Return(o, "expired")
       ELSE GoTo(o, "issuer")
    /\ UNCHANGED meters /\ UNCHANGED <<at, lookup>> /\ Stays

(* signedByAnyState of a claim or an edge: from the newest state back to the   *)
(* one that signed.  signedAtAnchor of a link: one state.                      *)
WalkCost(o) ==
    IF at[o] = 1
    THEN (LogLength[Judged(o).issuer] + 1 - Max({1, Judged(o).signedAt})) * MaxKeys
    ELSE MaxKeys

CheckSignature(o) ==
    /\ pc[o] = "signature"
    /\ \/ RunsOut(o, WalkCost(o))
       \/ /\ Paid(o, WalkCost(o))
          /\ IF Judged(o).signedAt = 0 THEN Return(o, "signature_invalid")
             ELSE GoTo(o, "revocations")
    /\ UNCHANGED <<at, lookup>> /\ Stays

(* The anchor of a link may name no event of the log, which costs nothing.     *)
UnknownAnchor(o) ==
    /\ pc[o] = "signature"
    /\ at[o] > 1 /\ Judged(o).signedAt = 0
    /\ Return(o, "anchor_unknown")
    /\ UNCHANGED meters /\ UNCHANGED <<at, lookup>> /\ Stays

-------------------------------------------------------------------------------
(* findRevocation.                                                             *)

(* The issuer of the statement; of a link, its issuer and those of all above.  *)
Revokers(o) ==
    IF at[o] = 1 THEN {Judged(o).issuer}
    ELSE {call[o].records[i].issuer : i \in at[o] .. Len(call[o].records)}

IsHonest(o) == call[o].view \in Honest

(* How many records the view answers: an honest one what is published, another *)
(* as many as it likes, and if these are more than the issuers asked about, or *)
(* the view is out of reach, the call throws.                                  *)
Lookup(o) ==
    /\ pc[o] = "revocations"
    /\ \/ \E n \in 0 .. Cardinality(Revokers(o)) :
             /\ IsHonest(o) => n = (IF Judged(o).revokedBy \in Revokers(o) THEN 1 ELSE 0)
             /\ pending' = [pending EXCEPT ![o] = n]
             /\ GoTo(o, "candidates")
       \/ Return(o, "threw") /\ UNCHANGED pending
    /\ UNCHANGED meters /\ UNCHANGED <<at, revoker, allowance>> /\ Stays

(* The next candidate: a record of one of the issuers asked about, or one that *)
(* is no revocation of this record and is passed over.                         *)
NextCandidate(o) ==
    /\ pc[o] = "candidates"
    /\ pending[o] > 0
    /\ pending' = [pending EXCEPT ![o] = @ - 1]
    /\ \/ \E p \in Revokers(o) :
             /\ IsHonest(o) => p = Judged(o).revokedBy
             /\ revoker' = [revoker EXCEPT ![o] = p]
             /\ GoTo(o, "candidate")
       \/ ~IsHonest(o) /\ GoTo(o, "candidates") /\ UNCHANGED revoker
    /\ UNCHANGED meters /\ UNCHANGED <<at, allowance>> /\ Stays

(* A lookup is held to its own allowance too, and charged to all three.        *)
RemainingInLookup(o) == Min({Remaining(o), allowance[o]})

Draw(o, cost) ==
    /\ Charge(o, cost)
    /\ allowance' = [allowance EXCEPT ![o] = @ - cost]

(* checkAnchoredSignatureSet of the candidate.  A forged one is paid for and   *)
(* passed over; the genuine one revokes.                                       *)
JudgeCandidate(o) ==
    /\ pc[o] = "judge"
    /\ IF MaxKeys > RemainingInLookup(o)
       THEN Draw(o, RemainingInLookup(o)) /\ Return(o, "too_expensive")
       ELSE /\ Draw(o, MaxKeys)
            /\ \/ revoker[o] = Judged(o).revokedBy /\ Return(o, "revoked")
               \/ ~IsHonest(o) /\ GoTo(o, "candidates")
    /\ UNCHANGED <<at, pending, revoker>> /\ Stays

(* A candidate whose anchor names no event of its issuer's log costs nothing.  *)
SkipUnanchored(o) ==
    /\ pc[o] = "judge"
    /\ ~IsHonest(o)
    /\ GoTo(o, "candidates")
    /\ UNCHANGED meters /\ UNCHANGED <<at, lookup>> /\ Stays

(* No candidate revokes, and the allowance of the lookup ends with it: on to   *)
(* the next link, in the same operation.  Its local meter goes on from where   *)
(* it stands.                                                                  *)
NotRevoked(o) ==
    /\ pc[o] = "candidates"
    /\ pending[o] = 0
    /\ allowance' = [allowance EXCEPT ![o] = CandidateAllowance]
    /\ IF at[o] = Len(call[o].records)
       THEN /\ Return(o, IF at[o] > 1 /\ call[o].chain = "misdirected" THEN "chain_refused" ELSE "valid")
            /\ UNCHANGED at
       ELSE IF at[o] = 1 /\ call[o].chain = "broken"
       THEN Return(o, "chain_refused") /\ UNCHANGED at
       ELSE /\ at' = [at EXCEPT ![o] = @ + 1]
            /\ IF call[o].records[at[o] + 1].expired THEN Return(o, "expired")
               ELSE GoTo(o, "issuer")
    /\ UNCHANGED meters /\ UNCHANGED <<pending, revoker>> /\ Stays

Step(o) ==
    \/ Begin(o) \/ Ask(o) \/ Settle(o) \/ Resume(o)
    \/ CheckEdge(o) \/ CheckSignature(o) \/ UnknownAnchor(o)
    \/ Lookup(o) \/ NextCandidate(o) \/ JudgeCandidate(o) \/ SkipUnanchored(o) \/ NotRevoked(o)

Next == \E o \in Op : Step(o)

Spec == Init /\ [][Next]_vars

(* An operation that began goes on: its awaits end, with an answer or an      *)
(* error, because the fetches of a view have deadlines.                       *)
FairSpec == Spec /\ \A o \in Op : WF_vars(Running(o) /\ Step(o))

-------------------------------------------------------------------------------
Total == MapThenSumSet(LAMBDA o : spent[o], Op)

(* However the operations interleave, the request costs what its context       *)
(* allows and each operation what its view allows: no check is free, none is   *)
(* paid twice, and no meter is refilled by a nested call.                      *)
MetersAddUp ==
    /\ outer = ceiling - Total
    /\ outer >= 0
    /\ \A o \in Op : pc[o] # "idle" => 
        local[o] = LocalCeiling[call[o].view] - spent[o] /\ local[o] >= 0

(* A call is accepted on logs its own view served, of the agent and of every   *)
(* issuer: an answer of one view never stands in for another's                 *)
(* (VerificationContext).  Every record accepted is signed and current, and    *)
(* against an honest view none is one that its issuer has revoked.             *)
AcceptedOnOwnView ==
    \A o \in Op : verdict[o] = "valid" =>
        /\ call[o].kind = "represents" => "own" \in answered[call[o].view][call[o].agent]
        /\ \A i \in DOMAIN call[o].records :
              LET record == call[o].records[i]
              IN  /\ "own" \in answered[call[o].view][record.issuer]
                  /\ record.signedAt > 0 /\ ~record.expired
                  /\ IsHonest(o) => record.revokedBy # record.issuer

(* A refusal for cost comes from a meter that is spent: the allowance of the   *)
(* lookup that was refused, or a meter of somebody who ran at the time.  It is *)
(* shared by those who ran together and by nobody after them.                  *)
MeterSpent(o) == local[o] = 0 \/ outer = 0

CostRefusalHasASpentMeter ==
    \A o \in Op : verdict[o] = "too_expensive" =>
        allowance[o] = 0 \/ \E x \in met[o] \cup {o} : MeterSpent(x)

(* Once no operation runs, the memo holds replayed logs and nothing else: what *)
(* failed is asked for anew by whoever asks next.                              *)
MemoKeepsReplayedLogs ==
    (\A o \in Op : ~Running(o)) =>
        \A v \in View, p \in Participant :
            memo[v][p] # NoPromise => memo[v][p].result = "own" /\ "own" \in answered[v][p]

(* Every operation that began returns. *)
OperationsEnd == \A o \in Op : Running(o) ~> pc[o] = "done"
===============================================================================
