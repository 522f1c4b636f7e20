------------------------- MODULE AssignmentDiagnosis -------------------------
(***************************************************************************)
(* What checkSignatureSet does more when it is asked to explain: it        *)
(* verifies every member under every key, against what the walk left of    *)
(* the allowance, and diagnoseAssignment (signature-set.ts) names the rule *)
(* that was broken, by augmenting paths.  verdict is then what the walk    *)
(* found, and code what the caller is told.                                *)
(*                                                                         *)
(* augment is recursive, and its search is modelled call by call: asking   *)
(* is the member whose call runs, waiting are the calls above it, each     *)
(* with the key whose holder it asked to move.  A call goes through its    *)
(* row in order and only ever skips keys seen, so that the key it comes to *)
(* next is always the first of its row not yet seen.                       *)
(***************************************************************************)
EXTENDS SignatureWalk, Functions, FiniteSetsExt

VARIABLES
    explain,     \* the option of this call
    code,        \* the refined code, "none" until there is one
    refined,     \* verifications spent on the full matrix
    placing,     \* the member of the outer loop
    asking,      \* the member whose call of augment runs, 0 for none
    waiting,     \* the suspended calls, outermost first
    seen,        \* keys this search has tried
    assignedTo   \* assignedTo[k]: the member that holds key k, 0 for none

search == <<placing, asking, waiting, seen, assignedTo>>
diagnosisVars == <<vars, explain, code, refined, search>>

Matrix == memberCount * KeyCount

(* A member without any key is told at once; otherwise the members are placed *)
(* one after the other.                                                       *)
DiagnoseAssignment ==
    IF \E m \in 1 .. memberCount : under[m] = {}
    THEN /\ code' = "member_verifies_under_no_listed_key"
         /\ UNCHANGED search
    ELSE /\ placing' = 1
         /\ asking' = 1
         /\ UNCHANGED <<code, waiting, seen, assignedTo>>

(* The whole matrix is verified before anything is diagnosed. *)
Explain ==
    /\ explain
    /\ verdict = "no_conforming_assignment"
    /\ code = "none"
    /\ asking = 0
    /\ IF limit - spent < Matrix
       THEN /\ code' = "budget_exceeded"
            /\ refined' = limit - spent
            /\ UNCHANGED search
       ELSE /\ refined' = Matrix
            /\ DiagnoseAssignment
    /\ UNCHANGED <<vars, explain>>

(* The next key of the running call. *)
Untried == under[asking] \ seen
NextKey == Min(Untried)

(* A key is free: this call takes it, and every waiting call the key it      *)
(* asked for, whose holder has moved on.                                     *)
Calls == Append(waiting, [member |-> asking, key |-> NextKey])

Reassigned ==
    [k \in 1 .. KeyCount |->
        IF \E i \in DOMAIN Calls : Calls[i].key = k
        THEN Calls[CHOOSE i \in DOMAIN Calls : Calls[i].key = k].member
        ELSE assignedTo[k]]

TakeFreeKey ==
    /\ asking # 0
    /\ Untried # {}
    /\ assignedTo[NextKey] = 0
    /\ assignedTo' = Reassigned
    /\ waiting' = << >>
    /\ seen' = {}
    /\ IF placing < memberCount
       THEN /\ placing' = placing + 1
            /\ asking' = placing + 1
            /\ UNCHANGED code
       ELSE /\ code' = "members_out_of_key_order"
            /\ asking' = 0
            /\ UNCHANGED placing
    /\ UNCHANGED <<vars, explain, refined>>

(* A fault to be caught: a key that is taken is not asked back. *)
FaultyAskHolder ==
    /\ asking # 0
    /\ Untried # {}
    /\ assignedTo[NextKey] # 0
    /\ seen' = seen \cup {NextKey}
    /\ UNCHANGED <<vars, explain, code, refined, placing, asking, waiting, assignedTo>>

(* The key is held: its holder is asked to find another. *)
AskHolder ==
    /\ asking # 0
    /\ Untried # {}
    /\ assignedTo[NextKey] # 0
    /\ seen' = seen \cup {NextKey}
    /\ waiting' = Calls
    /\ asking' = assignedTo[NextKey]
    /\ UNCHANGED <<vars, explain, code, refined, placing, assignedTo>>

(* The running call has no key left: the call above it goes on, or the       *)
(* member of the outer loop cannot be placed.                                *)
GiveUp ==
    /\ asking # 0
    /\ Untried = {}
    /\ IF waiting = << >>
       THEN /\ code' = "members_not_injectively_assignable"
            /\ asking' = 0
            /\ UNCHANGED waiting
       ELSE /\ asking' = waiting[Len(waiting)].member
            /\ waiting' = SubSeq(waiting, 1, Len(waiting) - 1)
            /\ UNCHANGED code
    /\ UNCHANGED <<vars, explain, refined, placing, seen, assignedTo>>

DiagnosisInit ==
    /\ Init
    /\ explain \in BOOLEAN
    /\ code = "none"
    /\ refined = 0
    /\ placing = 0
    /\ asking = 0
    /\ waiting = << >>
    /\ seen = {}
    /\ assignedTo = [k \in 1 .. KeyCount |-> 0]

DiagnosisNext ==
    \/ Next /\ UNCHANGED <<explain, code, refined, search>>
    \/ Explain
    \/ TakeFreeKey
    \/ AskHolder
    \/ GiveUp

DiagnosisSpec == DiagnosisInit /\ [][DiagnosisNext]_diagnosisVars

-------------------------------------------------------------------------------
Assignments ==
    {f \in [1 .. memberCount -> 1 .. KeyCount] : \A m \in 1 .. memberCount : f[m] \in under[m]}

(* The explanation is of a refusal, never a second opinion, and it names the  *)
(* first of the rules that is broken: totality, then injectivity, then order  *)
(* ("this cannot disagree with it").  It is metered like the walk: where the  *)
(* allowance does not reach, nothing is diagnosed and nothing overspent.      *)
DiagnosisIsExact ==
    code # "none" =>
        /\ ~Conforms(memberCount, KeyCount, under)
        /\ spent + refined <= limit
        /\ code = "budget_exceeded" <=> limit < spent + Matrix
        /\ code = "member_verifies_under_no_listed_key" =>
               \E m \in 1 .. memberCount : under[m] = {}
        /\ code = "members_not_injectively_assignable" =>
               /\ Assignments # {}
               /\ \A f \in Assignments : ~IsInjective(f)
        /\ code = "members_out_of_key_order" =>
               \E f \in Assignments : IsInjective(f)
===============================================================================
