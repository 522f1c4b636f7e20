---------------------------- MODULE SignatureWalk ----------------------------
(***************************************************************************)
(* checkSignatureSet of packages/crypto/src/records.ts and the part of     *)
(* verifyEventSignatures of log.ts it shares with it: the structural       *)
(* checks, then walkSignatureSet, one metered Ed25519 verification per     *)
(* step.  The walk never goes back; that it needs no backtracking is what  *)
(* this module is for.                                                     *)
(***************************************************************************)
EXTENDS SignatureSet

CONSTANTS
    KeyLists,     \* key lists a state may carry, with or without repetitions
    Texts,        \* threshold texts
    MaxMembers,   \* bound: signatures a record carries
    Limits        \* maxSignatureVerifications a caller may allow

ASSUME SignatureWalkAssumption ==
    /\ \A keys \in KeyLists : DOMAIN keys = 1 .. Len(keys) /\ Len(keys) \in Nat
    /\ Texts \subseteq Int
    /\ MaxMembers \in Nat
    /\ Limits \subseteq Nat

VARIABLES
    keys, text, memberCount,  \* the state and the record judged against it
    under,                    \* under[i]: the keys member i verifies under
    limit,                    \* the allowance of this call
    member, key,              \* the two indices of the walk
    spent,                    \* verifications performed
    verdict,                  \* "undecided" until checkSignatureSet returns or throws
    walking,                  \* TRUE once the structural checks passed
    choice                    \* history: the key each member was assigned

input == <<keys, text, memberCount, under, limit>>
vars == <<input, member, key, spent, verdict, walking, choice>>

KeyCount == Len(keys)

Init ==
    /\ keys \in KeyLists
    /\ text \in Texts
    /\ memberCount \in 0 .. MaxMembers
    /\ under \in [1 .. memberCount -> SUBSET (1 .. KeyCount)]
    /\ limit \in Limits
    /\ member = 1
    /\ key = 1
    /\ spent = 0
    /\ verdict = "undecided"
    /\ walking = FALSE
    /\ choice = << >>

(* S0 and S1, before any curve work. *)
CheckShape ==
    /\ verdict = "undecided"
    /\ ~walking
    /\ IF CheckStructure(keys, text, memberCount) = "ok"
       THEN walking' = TRUE /\ UNCHANGED verdict
       ELSE verdict' = CheckStructure(keys, text, memberCount) /\ UNCHANGED walking
    /\ UNCHANGED <<input, member, key, spent, choice>>

AtVerification ==
    /\ verdict = "undecided"
    /\ walking
    /\ member <= memberCount
    /\ key <= KeyCount

(* verifyAt is metered: it throws rather than overspend. *)
OutOfBudget ==
    /\ AtVerification
    /\ spent >= limit
    /\ verdict' = "budget_exceeded"
    /\ UNCHANGED <<input, member, key, spent, walking, choice>>

(* A fault to be caught: verifications are counted but not limited. *)
FaultyVerify ==
    /\ AtVerification
    /\ spent' = spent + 1
    /\ UNCHANGED <<input, verdict, walking>>

Verify ==
    /\ AtVerification
    /\ spent < limit
    /\ spent' = spent + 1
    /\ UNCHANGED <<input, verdict, walking>>

(* The member does not verify under this key: try the next key. *)
VerifyFails ==
    /\ Verify
    /\ key \notin under[member]
    /\ key' = key + 1
    /\ UNCHANGED <<member, choice>>

(* A fault to be caught: one key may serve two members. *)
FaultyVerifySucceeds ==
    /\ Verify
    /\ key \in under[member]
    /\ member' = member + 1
    /\ choice' = Append(choice, key)
    /\ UNCHANGED key

(* It does: the key is spent, on to the next member. *)
VerifySucceeds ==
    /\ Verify
    /\ key \in under[member]
    /\ key' = key + 1
    /\ member' = member + 1
    /\ choice' = Append(choice, key)

(* No key is left for this member. *)
RunOutOfKeys ==
    /\ verdict = "undecided"
    /\ walking
    /\ member <= memberCount
    /\ key > KeyCount
    /\ verdict' = "no_conforming_assignment"
    /\ UNCHANGED <<input, member, key, spent, walking, choice>>

(* Every member has its key. *)
Accept ==
    /\ verdict = "undecided"
    /\ walking
    /\ member > memberCount
    /\ verdict' = "ok"
    /\ UNCHANGED <<input, member, key, spent, walking, choice>>

Next ==
    \/ CheckShape
    \/ OutOfBudget
    \/ VerifyFails
    \/ VerifySucceeds
    \/ RunOutOfKeys
    \/ Accept

Spec == Init /\ [][Next]_vars

-------------------------------------------------------------------------------
(* Every variable holds a value of its kind. *)
TypeOK ==
    /\ keys \in KeyLists
    /\ text \in Texts
    /\ memberCount \in Nat
    /\ under \in [1 .. memberCount -> SUBSET (1 .. KeyCount)]
    /\ limit \in Nat
    /\ member \in 1 .. memberCount + 1
    /\ key \in 1 .. KeyCount + 1
    /\ spent \in Nat
    /\ walking \in BOOLEAN
    /\ choice \in Seq(1 .. KeyCount)

(* The greedy walk and the specification give the same answer: it refuses    *)
(* only where no assignment exists at all, and accepts only where one does   *)
(* (signature-set.ts: "if any strictly increasing injective assignment       *)
(* exists this walk finds one").                                             *)
VerdictIsExact ==
    verdict \notin {"undecided", "budget_exceeded"} =>
        verdict = Judgement(keys, text, memberCount, under)

(* The cost: at most one verification per listed key, never more than the    *)
(* allowance, none for a set the structural checks refuse, and an allowance  *)
(* of one per key is enough to decide.                                       *)
WorkBounded ==
    /\ spent <= KeyCount
    /\ spent <= limit
    /\ CheckStructure(keys, text, memberCount) # "ok" => spent = 0
    /\ verdict = "budget_exceeded" => limit < KeyCount
===============================================================================
