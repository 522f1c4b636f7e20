-------------------------- MODULE SignatureWalkProofs --------------------------
(***************************************************************************)
(* The greedy forward walk needs no backtracking, for every key list,      *)
(* threshold, number of members and relation between members and keys.     *)
(*                                                                         *)
(* The exchange argument as an invariant: no conforming assignment gives   *)
(* the member under consideration a key the walk has already passed        *)
(* (NothingPassed), and the keys given so far are a conforming assignment  *)
(* of the members so far (ChosenSoFar).                                    *)
(*                                                                         *)
(* The second half is the diagnosis: the keys held so far are a matching   *)
(* of the members placed so far, the calls of augment are a path that      *)
(* alternates between a member and the key it asked for, and a search that *)
(* fails has met more members than keys.                                   *)
(***************************************************************************)
EXTENDS AssignmentDiagnosis, TLAPS, FiniteSetTheorems, WellFoundedInduction

Shape == CheckStructure(keys, text, memberCount)

(* The walk runs only on sets of the right shape, and every verification     *)
(* moves it one key on.                                                      *)
WalkPosition ==
    /\ walking => Shape = "ok"
    /\ ~walking => key = 1 /\ verdict \in {"undecided", Shape}
    /\ ~walking /\ verdict # "undecided" => Shape # "ok"
    /\ spent = key - 1
    /\ spent <= limit

(* Every conforming assignment still has its keys for the members to come. *)
NothingPassed ==
    \A f \in [1 .. memberCount -> 1 .. KeyCount] :
        ConformingAssignment(f, memberCount, KeyCount, under) /\ member <= memberCount
            => key <= f[member]

(* The keys given so far: in order, all passed, and each verified. *)
ChosenSoFar ==
    /\ Len(choice) = member - 1
    /\ \A i \in 1 .. member - 1 :
          choice[i] \in 1 .. KeyCount /\ choice[i] < key /\ choice[i] \in under[i]
    /\ \A i, j \in 1 .. member - 1 : i < j => choice[i] < choice[j]

(* What each verdict of the walk is backed by. *)
VerdictBacked ==
    /\ verdict = "ok" => member = memberCount + 1 /\ walking
    /\ verdict = "no_conforming_assignment" =>
          walking /\ member <= memberCount /\ key = KeyCount + 1
    /\ verdict = "budget_exceeded" => walking /\ key <= KeyCount /\ limit <= spent
    /\ walking => verdict \in {"undecided", "ok", "no_conforming_assignment",
                               "budget_exceeded"}

WalkInvariant ==
    /\ TypeOK
    /\ WalkPosition
    /\ NothingPassed
    /\ ChosenSoFar
    /\ VerdictBacked

-------------------------------------------------------------------------------
(* The number of listed keys is a number. *)
LEMMA KeyCountType == TypeOK => KeyCount \in Nat
  BY SignatureWalkAssumption DEF TypeOK, KeyCount

(* The shape of a set is never one of the verdicts of the walk. *)
LEMMA ShapeVerdicts ==
  Shape \in {"ok", "state_repeats_key", "threshold_malformed",
             "threshold_exceeds_key_count", "signature_count_not_threshold"}
  BY DEF Shape, CheckStructure, CheckKeyState, CheckMemberCount

(* The invariant holds before the walk starts. *)
LEMMA InitEstablishesWalk == Init => WalkInvariant
<1> SUFFICES ASSUME Init PROVE WalkInvariant
  OBVIOUS
<1>1. TypeOK
  <2>1. keys \in KeyLists /\ KeyCount \in Nat /\ memberCount \in Nat /\ limit \in Nat
    BY SignatureWalkAssumption DEF Init, KeyCount
  <2>2. member \in 1 .. memberCount + 1 /\ key \in 1 .. KeyCount + 1 /\ spent \in Nat
    BY <2>1 DEF Init
  <2>3. choice \in Seq(1 .. KeyCount)
    BY DEF Init
  <2> QED
    BY <2>1, <2>2, <2>3 DEF Init, TypeOK
<1>2. WalkPosition
  BY <1>1 DEF Init, WalkPosition, TypeOK
<1>3. NothingPassed
  BY <1>1, KeyCountType DEF Init, NothingPassed, ConformingAssignment, TypeOK
<1>4. ChosenSoFar
  BY DEF Init, ChosenSoFar
<1>5. VerdictBacked
  BY DEF Init, VerdictBacked
<1> QED
  BY <1>1, <1>2, <1>3, <1>4, <1>5 DEF WalkInvariant

(* A verification that fails: no assignment could have used this key for     *)
(* this member.                                                              *)
LEMMA FailureKeepsWalk ==
  ASSUME WalkInvariant, VerifyFails
  PROVE  WalkInvariant'
<1>1. /\ UNCHANGED <<keys, text, memberCount, under, limit, member, choice, verdict, walking>>
      /\ key' = key + 1 /\ spent' = spent + 1 /\ spent < limit
      /\ verdict = "undecided" /\ walking
      /\ member <= memberCount /\ key <= KeyCount /\ key \notin under[member]
  BY DEF VerifyFails, Verify, AtVerification, input
<1>2. /\ KeyCount \in Nat /\ memberCount \in Nat /\ limit \in Nat /\ spent \in Nat
      /\ member \in 1 .. memberCount + 1 /\ key \in 1 .. KeyCount + 1
      /\ KeyCount' = KeyCount
  BY <1>1, KeyCountType DEF WalkInvariant, TypeOK, KeyCount
<1>3. TypeOK'
  BY <1>1, <1>2 DEF WalkInvariant, TypeOK
<1>4. WalkPosition'
  BY <1>1, <1>2 DEF WalkInvariant, WalkPosition, Shape
<1>5. NothingPassed'
  <2> SUFFICES ASSUME NEW f \in [1 .. memberCount -> 1 .. KeyCount],
                      ConformingAssignment(f, memberCount, KeyCount, under)
               PROVE  key + 1 <= f[member]
    BY <1>1, <1>2 DEF NothingPassed
  <2>1. key <= f[member] /\ f[member] \in under[member] /\ f[member] \in 1 .. KeyCount
    BY <1>1, <1>2 DEF WalkInvariant, NothingPassed, ConformingAssignment
  <2> QED
    BY <2>1, <1>1, <1>2
<1>6. ChosenSoFar'
  BY <1>1, <1>2 DEF WalkInvariant, ChosenSoFar
<1>7. VerdictBacked'
  BY <1>1, <1>2 DEF WalkInvariant, VerdictBacked
<1> QED
  BY <1>3, <1>4, <1>5, <1>6, <1>7 DEF WalkInvariant

(* A verification that succeeds: an assignment that gives this member a      *)
(* later key gives the next one a later key still.                           *)
LEMMA SuccessKeepsWalk ==
  ASSUME WalkInvariant, VerifySucceeds
  PROVE  WalkInvariant'
<1>1. /\ UNCHANGED <<keys, text, memberCount, under, limit, verdict, walking>>
      /\ key' = key + 1 /\ member' = member + 1 /\ choice' = Append(choice, key)
      /\ spent' = spent + 1 /\ spent < limit
      /\ verdict = "undecided" /\ walking
      /\ member <= memberCount /\ key <= KeyCount /\ key \in under[member]
  BY DEF VerifySucceeds, Verify, AtVerification, input
<1>2. /\ KeyCount \in Nat /\ memberCount \in Nat /\ limit \in Nat /\ spent \in Nat
      /\ member \in 1 .. memberCount + 1 /\ key \in 1 .. KeyCount + 1
      /\ choice \in Seq(1 .. KeyCount) /\ KeyCount' = KeyCount
  BY <1>1, KeyCountType DEF WalkInvariant, TypeOK, KeyCount
<1>3. TypeOK'
  BY <1>1, <1>2 DEF WalkInvariant, TypeOK
<1>4. WalkPosition'
  BY <1>1, <1>2 DEF WalkInvariant, WalkPosition, Shape
<1>5. NothingPassed'
  <2> SUFFICES ASSUME NEW f \in [1 .. memberCount -> 1 .. KeyCount],
                      ConformingAssignment(f, memberCount, KeyCount, under),
                      member + 1 <= memberCount
               PROVE  key + 1 <= f[member + 1]
    BY <1>1, <1>2 DEF NothingPassed
  <2>1. key <= f[member]
    BY <1>1 DEF WalkInvariant, NothingPassed
  <2>2. member \in DOMAIN f /\ member + 1 \in DOMAIN f /\ member < member + 1
    BY <1>1, <1>2
  <2>3. f[member] < f[member + 1]
    BY <2>2 DEF ConformingAssignment, Increasing
  <2>4. f[member] \in Nat /\ f[member + 1] \in Nat
    BY <2>2
  <2> QED
    BY <2>1, <2>3, <2>4, <1>2
<1>6. ChosenSoFar'
  <2>1. /\ Len(choice) = member - 1
        /\ Len(choice') = member
        /\ choice'[member] = key
        /\ \A i \in 1 .. member - 1 : choice'[i] = choice[i]
    BY <1>1, <1>2 DEF WalkInvariant, ChosenSoFar
  <2>2. \A i \in 1 .. member - 1 :
            choice[i] \in 1 .. KeyCount /\ choice[i] < key /\ choice[i] \in under[i]
    BY DEF WalkInvariant, ChosenSoFar
  <2>3. ASSUME NEW i \in 1 .. member
        PROVE  choice'[i] \in 1 .. KeyCount /\ choice'[i] < key + 1 /\ choice'[i] \in under[i]
    <3>1. CASE i = member
      BY <3>1, <2>1, <1>1, <1>2
    <3>2. CASE i # member
      <4>1. i \in 1 .. member - 1
        BY <3>2, <1>2
      <4>2. choice'[i] = choice[i]
        BY <4>1, <2>1
      <4>3. choice[i] \in 1 .. KeyCount /\ choice[i] < key /\ choice[i] \in under[i]
        BY <4>1, <2>2
      <4> QED
        BY <4>2, <4>3, <1>2
    <3> QED
      BY <3>1, <3>2
  <2>4. ASSUME NEW i \in 1 .. member, NEW j \in 1 .. member, i < j
        PROVE  choice'[i] < choice'[j]
    <3>1. i \in 1 .. member - 1
      BY <2>4, <1>2
    <3>2. CASE j = member
      BY <3>1, <3>2, <2>1, <2>2
    <3>3. CASE j # member
      <4>1. j \in 1 .. member - 1
        BY <3>3, <1>2
      <4> QED
        BY <4>1, <3>1, <2>1, <2>4 DEF WalkInvariant, ChosenSoFar
    <3> QED
      BY <3>2, <3>3
  <2>5. member' - 1 = member
    BY <1>1, <1>2
  <2> QED
    BY <2>1, <2>3, <2>4, <2>5, <1>1, <1>2 DEF ChosenSoFar
<1>7. VerdictBacked'
  BY <1>1, <1>2 DEF WalkInvariant, VerdictBacked
<1> QED
  BY <1>3, <1>4, <1>5, <1>6, <1>7 DEF WalkInvariant

(* The invariant is inductive. *)
LEMMA WalkInvariantIsInductive ==
  ASSUME WalkInvariant, [Next]_vars
  PROVE  WalkInvariant'
<1> USE DEF WalkInvariant
<1>1. CASE CheckShape
  <2>1. /\ UNCHANGED <<keys, text, memberCount, under, limit, member, key, spent, choice>>
        /\ ~walking /\ verdict = "undecided"
        /\ \/ walking' /\ walking' = TRUE /\ verdict' = verdict /\ Shape = "ok"
           \/ walking' = walking /\ verdict' = Shape /\ Shape # "ok"
    BY <1>1 DEF CheckShape, input, Shape
  <2>2. TypeOK' /\ NothingPassed' /\ ChosenSoFar'
    BY <2>1 DEF TypeOK, KeyCount, NothingPassed, ChosenSoFar
  <2>3. WalkPosition'
    BY <2>1 DEF WalkPosition, Shape
  <2>4. VerdictBacked'
    BY <2>1, ShapeVerdicts DEF VerdictBacked
  <2> QED
    BY <2>2, <2>3, <2>4
<1>2. CASE OutOfBudget \/ RunOutOfKeys \/ Accept
  <2>1. /\ UNCHANGED <<keys, text, memberCount, under, limit, member, key, spent, walking, choice>>
        /\ walking
        /\ KeyCount \in Nat /\ memberCount \in Nat /\ member \in 1 .. memberCount + 1
        /\ key \in 1 .. KeyCount + 1
    BY <1>2, KeyCountType
       DEF OutOfBudget, RunOutOfKeys, Accept, AtVerification, input, TypeOK
  <2>2. TypeOK' /\ WalkPosition' /\ NothingPassed' /\ ChosenSoFar'
    BY <2>1 DEF TypeOK, KeyCount, WalkPosition, Shape, NothingPassed, ChosenSoFar
  <2>3. VerdictBacked'
    BY <1>2, <2>1 DEF OutOfBudget, RunOutOfKeys, Accept, AtVerification, VerdictBacked, KeyCount,
                      TypeOK, WalkPosition
  <2> QED
    BY <2>2, <2>3
<1>3. CASE VerifyFails
  BY <1>3, FailureKeepsWalk
<1>4. CASE VerifySucceeds
  BY <1>4, SuccessKeepsWalk
<1>5. CASE UNCHANGED vars
  BY <1>5 DEF vars, input, TypeOK, KeyCount, WalkPosition, Shape, NothingPassed, ChosenSoFar,
              VerdictBacked
<1> QED
  BY <1>1, <1>2, <1>3, <1>4, <1>5 DEF Next

-------------------------------------------------------------------------------
(* An accepted set has a conforming assignment: the walk's own. *)
LEMMA AcceptedConforms ==
  ASSUME WalkInvariant, verdict = "ok"
  PROVE  Conforms(memberCount, KeyCount, under)
<1> DEFINE f == [i \in 1 .. memberCount |-> choice[i]]
<1>1. member - 1 = memberCount
  BY DEF WalkInvariant, VerdictBacked, TypeOK
<1>2. f \in [1 .. memberCount -> 1 .. KeyCount]
  BY <1>1 DEF WalkInvariant, ChosenSoFar
<1>3. Increasing(f) /\ \A i \in 1 .. memberCount : f[i] \in under[i]
  BY <1>1 DEF WalkInvariant, ChosenSoFar, Increasing
<1> QED
  BY <1>2, <1>3 DEF Conforms, ConformingAssignment

(* A refused set has none: it would have to give a member a key past the last. *)
LEMMA RefusedDoesNotConform ==
  ASSUME WalkInvariant, verdict = "no_conforming_assignment"
  PROVE  ~Conforms(memberCount, KeyCount, under)
<1> SUFFICES ASSUME NEW f \in [1 .. memberCount -> 1 .. KeyCount],
                    ConformingAssignment(f, memberCount, KeyCount, under)
             PROVE  FALSE
  BY DEF Conforms
<1>1. member <= memberCount /\ key = KeyCount + 1 /\ member \in 1 .. memberCount
  BY DEF WalkInvariant, VerdictBacked, TypeOK
<1>2. key <= f[member] /\ f[member] \in 1 .. KeyCount
  BY <1>1 DEF WalkInvariant, NothingPassed
<1> QED
  BY <1>1, <1>2, KeyCountType DEF WalkInvariant

(* What the invariant is for. *)
LEMMA WalkInvariantSuffices == WalkInvariant => VerdictIsExact /\ WorkBounded
<1> SUFFICES ASSUME WalkInvariant PROVE VerdictIsExact /\ WorkBounded
  OBVIOUS
<1>1. VerdictIsExact
  <2> SUFFICES ASSUME verdict \notin {"undecided", "budget_exceeded"}
               PROVE  verdict = Judgement(keys, text, memberCount, under)
    BY DEF VerdictIsExact
  <2>1. CASE ~walking
    BY <2>1 DEF WalkInvariant, WalkPosition, Judgement, Shape
  <2>2. CASE walking
    <3>1. Shape = "ok" /\ verdict \in {"ok", "no_conforming_assignment"}
      BY <2>2 DEF WalkInvariant, WalkPosition, VerdictBacked
    <3>2. CASE verdict = "ok"
      BY <3>1, <3>2, AcceptedConforms DEF Judgement, Shape, KeyCount
    <3>3. CASE verdict = "no_conforming_assignment"
      BY <3>1, <3>3, RefusedDoesNotConform DEF Judgement, Shape, KeyCount
    <3> QED
      BY <3>1, <3>2, <3>3
  <2> QED
    BY <2>1, <2>2 DEF WalkInvariant, TypeOK
<1>2. WorkBounded
  BY KeyCountType
     DEF WorkBounded, WalkInvariant, WalkPosition, VerdictBacked, Shape, TypeOK
<1> QED
  BY <1>1, <1>2

(* The greedy walk decides S2/S3 exactly: it accepts if and only if the      *)
(* signature set has a strictly increasing assignment of members to keys.    *)
THEOREM WalkDecidesExactly == Spec => []VerdictIsExact
<1>1. WalkInvariant /\ [Next]_vars => WalkInvariant'
  BY WalkInvariantIsInductive
<1> QED
  BY <1>1, InitEstablishesWalk, WalkInvariantSuffices, PTL DEF Spec

(* It costs at most one verification per listed key, whatever the number of  *)
(* members, and none at all for a set the structural checks refuse.          *)
THEOREM WalkWorkIsBounded == Spec => []WorkBounded
<1>1. WalkInvariant /\ [Next]_vars => WalkInvariant'
  BY WalkInvariantIsInductive
<1> QED
  BY <1>1, InitEstablishesWalk, WalkInvariantSuffices, PTL DEF Spec

-------------------------------------------------------------------------------
(* The members of the calls of augment, outermost first. *)
Caller(i) == IF i \in DOMAIN waiting THEN waiting[i].member ELSE asking

DiagnosisTypeOK ==
    /\ refined \in Nat
    /\ placing \in 0 .. memberCount
    /\ asking \in 0 .. memberCount
    /\ waiting \in Seq([member : 1 .. memberCount, key : 1 .. KeyCount])
    /\ seen \in SUBSET (1 .. KeyCount)
    /\ assignedTo \in [1 .. KeyCount -> 0 .. memberCount]

(* Nothing is diagnosed before the walk has refused, and a search only runs  *)
(* once the whole matrix is paid for and no row of it is empty.              *)
Paid ==
    /\ code # "none" \/ asking # 0 => verdict = "no_conforming_assignment"
    /\ asking # 0 => /\ code = "none"
                     /\ placing # 0
                     /\ spent + Matrix <= limit
                     /\ refined = Matrix
                     /\ \A m \in 1 .. memberCount : under[m] # {}
    /\ asking = 0 /\ code = "none" =>
          /\ seen = {} /\ waiting = << >>
          /\ assignedTo = [k \in 1 .. KeyCount |-> 0]

(* Each member placed holds a key of its row, and no two keys are held by    *)
(* one member.                                                               *)
Matching ==
    /\ \A k \in 1 .. KeyCount : assignedTo[k] # 0 =>
          assignedTo[k] < placing /\ k \in under[assignedTo[k]]
    /\ \A j, k \in 1 .. KeyCount :
          assignedTo[j] # 0 /\ assignedTo[j] = assignedTo[k] => j = k
    /\ \A m \in 1 .. memberCount : m < placing =>
          \E k \in 1 .. KeyCount : assignedTo[k] = m

(* The calls: the outermost places the member of the outer loop, and each    *)
(* next one moves the holder of the key the call before it asked for.        *)
Path ==
    /\ Caller(1) = placing
    /\ \A i \in DOMAIN waiting :
          /\ waiting[i].key \in seen
          /\ waiting[i].key \in under[waiting[i].member]
          /\ assignedTo[waiting[i].key] = Caller(i + 1)
    /\ \A i, j \in DOMAIN waiting : waiting[i].key = waiting[j].key => i = j

(* A key seen is held, and by a member that is still being asked or that has *)
(* no key left to try.                                                       *)
Exhausted ==
    \A k \in seen :
        /\ assignedTo[k] # 0
        /\ \/ under[assignedTo[k]] \subseteq seen
           \/ \E i \in DOMAIN waiting : waiting[i].key = k

DiagnosisInvariant ==
    /\ WalkInvariant
    /\ DiagnosisTypeOK
    /\ Paid
    /\ asking # 0 => Matching /\ Path /\ Exhausted
    /\ DiagnosisIsExact

-------------------------------------------------------------------------------
(* The size of the matrix is a number. *)
LEMMA MatrixType == TypeOK => Matrix \in Nat
<1> SUFFICES ASSUME TypeOK PROVE Matrix \in Nat
  OBVIOUS
<1>1. memberCount \in Nat /\ KeyCount \in Nat
  BY KeyCountType DEF TypeOK
<1> QED
  BY <1>1 DEF Matrix

(* The key the running call comes to is one of its row that it has not seen. *)
LEMMA NextKeyIsUntried ==
  ASSUME DiagnosisInvariant, asking # 0, Untried # {}
  PROVE  /\ NextKey \in 1 .. KeyCount
         /\ NextKey \in under[asking]
         /\ NextKey \notin seen
<1>1. under[asking] \subseteq 1 .. KeyCount /\ KeyCount \in Nat
  BY KeyCountType DEF DiagnosisInvariant, WalkInvariant, TypeOK, DiagnosisTypeOK
<1>2. Untried \subseteq Nat
  BY <1>1 DEF Untried
<1>3. PICK least \in Untried : \A k \in Untried : ~(<<k, least>> \in OpToRel(<, Nat))
  <2>1. Untried # {}
    OBVIOUS
  <2> QED
    BY ONLY <1>2, <2>1, WFMin, NatLessThanWellFounded
<1>4. \A k \in Untried : least <= k
  <2> SUFFICES ASSUME NEW k \in Untried PROVE least <= k
    OBVIOUS
  <2>1. k \in Nat /\ least \in Nat
    BY <1>2
  <2>2. ~(k < least)
    BY <1>3, <2>1 DEF OpToRel
  <2> QED
    BY <2>1, <2>2
<1>5. NextKey \in Untried
  BY <1>4 DEF NextKey, Min
<1> QED
  BY <1>5, <1>1 DEF Untried

(* Once the walk has refused, it takes no further step. *)
LEMMA RefusalIsFinal ==
  ASSUME verdict = "no_conforming_assignment"
  PROVE  ~Next
  BY DEF Next, CheckShape, OutOfBudget, VerifyFails, VerifySucceeds, Verify, AtVerification,
         RunOutOfKeys, Accept

(* The calls of augment, the running one with the key it has come to: each    *)
(* asks for a key of its row, all members and all keys are different, and     *)
(* each key but the last is held by the member of the next call.              *)
LEMMA CallsAlternate ==
  ASSUME DiagnosisInvariant, asking # 0, Untried # {}
  PROVE  /\ Calls \in Seq([member : 1 .. memberCount, key : 1 .. KeyCount])
         /\ DOMAIN Calls = 1 .. Len(waiting) + 1
         /\ Len(waiting) \in Nat
         /\ Calls[Len(waiting) + 1] = [member |-> asking, key |-> NextKey]
         /\ \A i \in 1 .. Len(waiting) : Calls[i] = waiting[i]
         /\ Calls[1].member = placing
         /\ \A i \in DOMAIN Calls : Calls[i].key \in under[Calls[i].member]
         /\ \A i \in 1 .. Len(waiting) : assignedTo[Calls[i].key] = Calls[i + 1].member
         /\ \A i, j \in DOMAIN Calls : Calls[i].key = Calls[j].key => i = j
<1> DEFINE n == Len(waiting)
           Frames == [member : 1 .. memberCount, key : 1 .. KeyCount]
<1>1. waiting \in Seq(Frames) /\ asking \in 1 .. memberCount /\ memberCount \in Nat
  BY DEF DiagnosisInvariant, DiagnosisTypeOK, WalkInvariant, TypeOK
<1>2. [member |-> asking, key |-> NextKey] \in Frames
  BY <1>1, NextKeyIsUntried
<1>3. /\ Calls \in Seq(Frames) /\ n \in Nat
      /\ Len(Calls) = n + 1
      /\ DOMAIN Calls = 1 .. n + 1 /\ DOMAIN waiting = 1 .. n
      /\ Calls[n + 1] = [member |-> asking, key |-> NextKey]
      /\ \A i \in 1 .. n : Calls[i] = waiting[i]
  <2> HIDE DEF Frames
  <2> QED BY <1>1, <1>2 DEF Calls
<1>4. Path
  BY DEF DiagnosisInvariant
<1>5. \A i \in 1 .. n + 1 : Caller(i) = Calls[i].member
  BY <1>3 DEF Caller
<1>6. Calls[1].member = placing
  BY <1>3, <1>4, <1>5 DEF Path
<1>7. ASSUME NEW i \in 1 .. n + 1
      PROVE  Calls[i].key \in under[Calls[i].member]
  <2>1. CASE i \in 1 .. n
    BY <2>1, <1>3, <1>4 DEF Path
  <2>2. CASE i = n + 1
    BY <2>2, <1>3, NextKeyIsUntried
  <2> QED
    BY <2>1, <2>2, <1>3
<1>8. ASSUME NEW i \in 1 .. n
      PROVE  assignedTo[Calls[i].key] = Calls[i + 1].member
  <2>1. i + 1 \in 1 .. n + 1
    BY <1>3
  <2> QED
    BY <2>1, <1>3, <1>4, <1>5 DEF Path
<1>9. ASSUME NEW i \in 1 .. n + 1, NEW j \in 1 .. n + 1, Calls[i].key = Calls[j].key
      PROVE  i = j
  <2>1. \A h \in 1 .. n : Calls[h].key \in seen
    BY <1>3, <1>4 DEF Path
  <2>2. Calls[n + 1].key \notin seen
    BY <1>3, NextKeyIsUntried
  <2>3. CASE i \in 1 .. n /\ j \in 1 .. n
    BY <2>3, <1>9, <1>3, <1>4 DEF Path
  <2>4. CASE i = n + 1 \/ j = n + 1
    BY <2>4, <2>1, <2>2, <1>9, <1>3
  <2> QED
    BY <2>3, <2>4, <1>3
<1> QED
  BY <1>3, <1>6, <1>7, <1>8, <1>9

(* No member is asked twice in one search: the first of them holds no key,   *)
(* the others hold different ones.                                           *)
LEMMA CallersDiffer ==
  ASSUME DiagnosisInvariant, asking # 0, Untried # {}
  PROVE  /\ \A i, j \in DOMAIN Calls : Calls[i].member = Calls[j].member => i = j
         /\ \A i \in DOMAIN Calls : Calls[i].member <= placing
<1> DEFINE n == Len(waiting)
<1>1. Matching
  BY DEF DiagnosisInvariant
<1>2. /\ n \in Nat /\ DOMAIN Calls = 1 .. n + 1
      /\ \A i \in 1 .. n + 1 : Calls[i].member \in 1 .. memberCount /\ Calls[i].key \in 1 .. KeyCount
      /\ placing \in Nat /\ memberCount \in Nat /\ assignedTo \in [1 .. KeyCount -> 0 .. memberCount]
  <2>1. Calls \in Seq([member : 1 .. memberCount, key : 1 .. KeyCount]) /\ n \in Nat
        /\ DOMAIN Calls = 1 .. n + 1
    BY CallsAlternate
  <2> DEFINE Frames == [member : 1 .. memberCount, key : 1 .. KeyCount]
  <2>2. \A i \in DOMAIN Calls : Calls[i] \in Frames
    <3>1. Calls \in Seq(Frames)
      BY <2>1
    <3> HIDE DEF Frames
    <3> QED BY <3>1
  <2>3. \A i \in 1 .. n + 1 : Calls[i].member \in 1 .. memberCount /\ Calls[i].key \in 1 .. KeyCount
    BY ONLY <2>1, <2>2
  <2>4. placing \in Nat /\ memberCount \in Nat /\ assignedTo \in [1 .. KeyCount -> 0 .. memberCount]
    BY DEF DiagnosisInvariant, DiagnosisTypeOK, WalkInvariant, TypeOK
  <2> QED
    BY <2>1, <2>3, <2>4
<1>3. ASSUME NEW i \in 2 .. n + 1
      PROVE  /\ i - 1 \in 1 .. n
             /\ assignedTo[Calls[i - 1].key] = Calls[i].member
             /\ Calls[i].member < placing
  <2>1. i - 1 \in 1 .. n /\ (i - 1) + 1 = i
    BY <1>2
  <2>2. assignedTo[Calls[i - 1].key] = Calls[i].member
    BY <2>1, CallsAlternate
  <2>3. Calls[i].member # 0 /\ Calls[i - 1].key \in 1 .. KeyCount
    BY <1>2, <2>1
  <2> QED
    BY <2>1, <2>2, <2>3, <1>1 DEF Matching
<1>4. Calls[1].member = placing
  BY CallsAlternate
<1>5. ASSUME NEW i \in 1 .. n + 1, NEW j \in 1 .. n + 1, Calls[i].member = Calls[j].member
      PROVE  i = j
  <2>1. CASE i = 1 \/ j = 1
    BY <2>1, <1>2, <1>3, <1>4, <1>5
  <2>2. CASE i \in 2 .. n + 1 /\ j \in 2 .. n + 1
    <3>1. Calls[i - 1].key = Calls[j - 1].key
      <4>1. assignedTo[Calls[i - 1].key] = assignedTo[Calls[j - 1].key]
        BY <2>2, <1>3, <1>5
      <4>2. assignedTo[Calls[i - 1].key] # 0
        <5>1. i \in 1 .. n + 1 /\ assignedTo[Calls[i - 1].key] = Calls[i].member
          BY <2>2, <1>2, <1>3
        <5>2. Calls[i].member \in 1 .. memberCount
          BY <5>1, <1>2
        <5> QED
          BY <5>1, <5>2, <1>2
      <4>3. Calls[i - 1].key \in 1 .. KeyCount /\ Calls[j - 1].key \in 1 .. KeyCount
        BY <2>2, <1>2
      <4> QED
        BY <4>1, <4>2, <4>3, <1>1 DEF Matching
    <3>2. i - 1 \in DOMAIN Calls /\ j - 1 \in DOMAIN Calls
      BY <2>2, <1>2
    <3>3. i - 1 = j - 1
      BY <3>1, <3>2, CallsAlternate
    <3> QED
      BY <3>3, <1>2
  <2> QED
    BY <2>1, <2>2, <1>2
<1>6. ASSUME NEW i \in 1 .. n + 1
      PROVE  Calls[i].member <= placing
  BY <1>2, <1>3, <1>4
<1> QED
  BY <1>2, <1>5, <1>6

-------------------------------------------------------------------------------
(* A search that fails refutes: the members it met are one more than the keys *)
(* it saw, and no assignment gives one of them a key it did not see.          *)
LEMMA FailedSearchRefutes ==
  ASSUME DiagnosisInvariant, asking # 0, Untried = {}, waiting = << >>,
         NEW f \in Assignments, IsInjective(f)
  PROVE  FALSE
<1> DEFINE holders == {assignedTo[k] : k \in seen}
           met == holders \cup {placing}
<1>1. /\ memberCount \in Nat /\ KeyCount \in Nat
      /\ seen \subseteq 1 .. KeyCount
      /\ placing \in 1 .. memberCount
      /\ assignedTo \in [1 .. KeyCount -> 0 .. memberCount]
      /\ Matching /\ Path /\ Exhausted
  BY KeyCountType DEF DiagnosisInvariant, DiagnosisTypeOK, WalkInvariant, TypeOK, Paid
<1>2. f \in [1 .. memberCount -> 1 .. KeyCount] /\ \A m \in 1 .. memberCount : f[m] \in under[m]
  BY DEF Assignments
<1>3. asking = placing
  BY <1>1 DEF Path, Caller
<1>4. under[placing] \subseteq seen
  BY <1>3 DEF Untried
<1>5. \A k \in seen : /\ assignedTo[k] # 0
                      /\ assignedTo[k] \in 1 .. memberCount
                      /\ under[assignedTo[k]] \subseteq seen
  BY <1>1 DEF Exhausted
<1>6. met \subseteq 1 .. memberCount /\ \A m \in met : f[m] \in seen
  BY <1>1, <1>2, <1>4, <1>5
<1>7. IsFiniteSet(seen) /\ Cardinality(seen) \in Nat
  <2>1. IsFiniteSet(1 .. KeyCount)
    BY <1>1, FS_Interval
  <2> QED
    BY <2>1, <1>1, FS_Subset, FS_CardinalityType
<1>8. IsFiniteSet(holders) /\ Cardinality(holders) = Cardinality(seen)
  <2> DEFINE hold == [k \in seen |-> assignedTo[k]]
  <2>1. hold \in Surjection(seen, holders)
    BY DEF Surjection
  <2>2. \A j, k \in seen : assignedTo[j] = assignedTo[k] => j = k
    BY <1>1, <1>5 DEF Matching
  <2>3. hold \in Injection(seen, holders)
    BY <2>1, <2>2 DEF Injection, IsInjective, Surjection
  <2> HIDE DEF hold, holders
  <2> QED
    BY <2>1, <2>3, <1>7, FS_Surjection
<1>9. placing \notin holders
  <2>1. \A k \in seen : assignedTo[k] < placing
    BY <1>1, <1>5 DEF Matching
  <2> QED
    BY <2>1, <1>1
<1>10. IsFiniteSet(met) /\ Cardinality(met) = Cardinality(seen) + 1
  <2> HIDE DEF holders
  <2> QED
    BY <1>8, <1>9, FS_AddElement
<1>11. \E x, y \in met : x # y /\ f[x] = f[y]
  <2> DEFINE g == [m \in met |-> f[m]]
  <2>1. g \in [met -> seen]
    BY <1>6
  <2> HIDE DEF met
  <2>2. Cardinality(seen) < Cardinality(met)
    BY <1>7, <1>10
  <2>3. \A h \in [met -> seen] : \E x, y \in met : x # y /\ h[x] = h[y]
    BY ONLY <1>7, <1>10, <2>2, FS_PigeonHole
  <2>4. PICK x, y \in met : x # y /\ g[x] = g[y]
    BY <2>1, <2>3
  <2> QED
    BY <2>4
<1> QED
  BY <1>2, <1>6, <1>11 DEF IsInjective

(* A free key lets every call move: the keys are then a matching of one       *)
(* member more.                                                               *)
LEMMA PathIsAugmented ==
  ASSUME DiagnosisInvariant, asking # 0, Untried # {}, assignedTo[NextKey] = 0
  PROVE  /\ Reassigned \in [1 .. KeyCount -> 0 .. memberCount]
         /\ \A k \in 1 .. KeyCount : Reassigned[k] # 0 =>
               Reassigned[k] < placing + 1 /\ k \in under[Reassigned[k]]
         /\ \A j, k \in 1 .. KeyCount :
               Reassigned[j] # 0 /\ Reassigned[j] = Reassigned[k] => j = k
         /\ \A m \in 1 .. memberCount : m < placing + 1 =>
               \E k \in 1 .. KeyCount : Reassigned[k] = m
<1> DEFINE n == Len(waiting)
<1>1. /\ memberCount \in Nat /\ KeyCount \in Nat /\ placing \in 1 .. memberCount
      /\ assignedTo \in [1 .. KeyCount -> 0 .. memberCount]
      /\ Matching
  BY KeyCountType DEF DiagnosisInvariant, DiagnosisTypeOK, WalkInvariant, TypeOK, Paid
<1>2. /\ n \in Nat /\ DOMAIN Calls = 1 .. n + 1
      /\ Calls[1].member = placing
      /\ Calls[n + 1].key = NextKey
      /\ \A i \in 1 .. n + 1 : Calls[i].key \in under[Calls[i].member]
      /\ \A i \in 1 .. n : assignedTo[Calls[i].key] = Calls[i + 1].member
      /\ \A i, j \in 1 .. n + 1 : Calls[i].key = Calls[j].key => i = j
      /\ \A i, j \in 1 .. n + 1 : Calls[i].member = Calls[j].member => i = j
      /\ \A i \in 1 .. n + 1 : Calls[i].member <= placing
  BY CallsAlternate, CallersDiffer
<1>3. \A i \in 1 .. n + 1 : Calls[i].member \in 1 .. memberCount /\ Calls[i].key \in 1 .. KeyCount
  <2> DEFINE Frames == [member : 1 .. memberCount, key : 1 .. KeyCount]
  <2>1. Calls \in Seq(Frames)
    BY CallsAlternate
  <2>2. \A i \in DOMAIN Calls : Calls[i] \in Frames
    <3> HIDE DEF Frames
    <3> QED BY <2>1
  <2> QED
    BY ONLY <1>2, <2>2
<1>4. \A i \in 1 .. n + 1 : Reassigned[Calls[i].key] = Calls[i].member
  <2> SUFFICES ASSUME NEW i \in 1 .. n + 1
               PROVE  Reassigned[Calls[i].key] = Calls[i].member
    OBVIOUS
  <2> DEFINE it == CHOOSE j \in DOMAIN Calls : Calls[j].key = Calls[i].key
  <2>1. it \in 1 .. n + 1 /\ Calls[it].key = Calls[i].key
    BY <1>2
  <2>2. it = i
    <3> HIDE DEF it
    <3> QED BY <2>1, <1>2
  <2>3. Reassigned[Calls[i].key] = Calls[it].member
    BY <1>2, <1>3 DEF Reassigned
  <2> QED
    BY <2>2, <2>3
<1>5. \A k \in 1 .. KeyCount :
          (\A i \in 1 .. n + 1 : Calls[i].key # k) => Reassigned[k] = assignedTo[k]
  BY <1>2 DEF Reassigned
<1>6. ASSUME NEW k \in 1 .. KeyCount
      PROVE  /\ Reassigned[k] \in 0 .. memberCount
             /\ Reassigned[k] # 0 => Reassigned[k] < placing + 1 /\ k \in under[Reassigned[k]]
  <2>1. CASE \E i \in 1 .. n + 1 : Calls[i].key = k
    <3>1. PICK i \in 1 .. n + 1 : Calls[i].key = k
      BY <2>1
    <3>2. Reassigned[k] = Calls[i].member /\ Calls[i].member \in 1 .. memberCount
          /\ Calls[i].member <= placing /\ k \in under[Calls[i].member]
      BY <3>1, <1>2, <1>3, <1>4
    <3> QED
      BY <3>2, <1>1
  <2>2. CASE \A i \in 1 .. n + 1 : Calls[i].key # k
    <3>1. Reassigned[k] = assignedTo[k] /\ assignedTo[k] \in 0 .. memberCount
      BY <2>2, <1>1, <1>5
    <3>2. assignedTo[k] # 0 => assignedTo[k] < placing /\ k \in under[assignedTo[k]]
      BY <1>1 DEF Matching
    <3> QED
      BY <3>1, <3>2, <1>1
  <2> QED
    BY <2>1, <2>2
<1>7. Reassigned \in [1 .. KeyCount -> 0 .. memberCount]
  <2>1. Reassigned = [k \in 1 .. KeyCount |-> Reassigned[k]]
    BY DEF Reassigned
  <2> QED
    BY <2>1, <1>6
(* A member that moved left the key it held to the call before it. *)
<1>8. ASSUME NEW k \in 1 .. KeyCount, NEW i \in 1 .. n + 1,
             assignedTo[k] # 0, assignedTo[k] = Calls[i].member
      PROVE  \E j \in 1 .. n + 1 : Calls[j].key = k
  <2>1. i # 1
    BY <1>8, <1>1, <1>2 DEF Matching
  <2>2. i - 1 \in 1 .. n /\ i - 1 \in 1 .. n + 1 /\ (i - 1) + 1 = i
    BY <2>1, <1>2
  <2>3. assignedTo[Calls[i - 1].key] = assignedTo[k]
    BY <2>2, <1>2, <1>8
  <2>4. Calls[i - 1].key = k
    <3>1. Calls[i - 1].key \in 1 .. KeyCount /\ assignedTo[Calls[i - 1].key] # 0
      BY <2>2, <2>3, <1>8, <1>3
    <3>2. \A h \in 1 .. KeyCount :
              assignedTo[h] # 0 /\ assignedTo[h] = assignedTo[k] => h = k
      BY <1>1 DEF Matching
    <3> QED
      BY ONLY <3>1, <3>2, <2>3
  <2> QED
    BY <2>2, <2>4
<1>9. ASSUME NEW j \in 1 .. KeyCount, NEW k \in 1 .. KeyCount,
             Reassigned[j] # 0, Reassigned[j] = Reassigned[k]
      PROVE  j = k
  <2> DEFINE asked(key_) == \E i \in 1 .. n + 1 : Calls[i].key = key_
  <2>1. CASE asked(j) /\ asked(k)
    BY <2>1, <1>9, <1>2, <1>4
  <2>2. CASE asked(j) /\ ~asked(k)
    <3>1. PICK i \in 1 .. n + 1 : Calls[i].key = j
      BY <2>2
    <3>2. assignedTo[k] = Calls[i].member /\ assignedTo[k] # 0
      BY <3>1, <2>2, <1>9, <1>4, <1>5
    <3> QED
      BY <3>2, <2>2, <1>8
  <2>3. CASE ~asked(j) /\ asked(k)
    <3>1. PICK i \in 1 .. n + 1 : Calls[i].key = k
      BY <2>3
    <3>2. assignedTo[j] = Calls[i].member /\ assignedTo[j] # 0
      BY <3>1, <2>3, <1>9, <1>4, <1>5
    <3> QED
      BY <3>2, <2>3, <1>8
  <2>4. CASE ~asked(j) /\ ~asked(k)
    <3>1. Reassigned[j] = assignedTo[j] /\ Reassigned[k] = assignedTo[k]
      BY <2>4, <1>5
    <3> QED
      BY <3>1, <1>9, <1>1 DEF Matching
  <2> QED
    BY <2>1, <2>2, <2>3, <2>4
<1>10. ASSUME NEW m \in 1 .. memberCount, m < placing + 1
       PROVE  \E k \in 1 .. KeyCount : Reassigned[k] = m
  <2>1. CASE \E i \in 1 .. n + 1 : Calls[i].member = m
    BY <2>1, <1>3, <1>4
  <2>2. CASE \A i \in 1 .. n + 1 : Calls[i].member # m
    <3>1. m < placing
      <4>1. 1 \in 1 .. n + 1
        BY <1>2
      <4>2. m # placing
        BY <4>1, <2>2, <1>2
      <4> QED
        BY <4>2, <1>10, <1>1
    <3>2. PICK k \in 1 .. KeyCount : assignedTo[k] = m
      BY <3>1, <1>1 DEF Matching
    <3>3. ASSUME NEW i \in 1 .. n + 1, Calls[i].key = k
          PROVE  FALSE
      <4>1. CASE i = n + 1
        BY <4>1, <3>2, <3>3, <1>2
      <4>2. CASE i \in 1 .. n
        <5>1. Calls[i + 1].member = m /\ i + 1 \in 1 .. n + 1
          BY <4>2, <3>2, <3>3, <1>2
        <5> QED
          BY <5>1, <2>2
      <4> QED
        BY <4>1, <4>2, <1>2
    <3>4. Reassigned[k] = m
      BY <3>2, <3>3, <1>5
    <3> QED
      BY <3>4
  <2> QED
    BY <2>1, <2>2
<1> QED
  BY <1>6, <1>7, <1>9, <1>10

-------------------------------------------------------------------------------
(* Nothing has been diagnosed or searched before the walk. *)
LEMMA InitEstablishesDiagnosis == DiagnosisInit => DiagnosisInvariant
<1> SUFFICES ASSUME DiagnosisInit PROVE DiagnosisInvariant
  OBVIOUS
<1>1. WalkInvariant
  BY InitEstablishesWalk DEF DiagnosisInit
<1>2. memberCount \in Nat /\ KeyCount \in Nat
  BY <1>1, KeyCountType DEF WalkInvariant, TypeOK
<1>3. DiagnosisTypeOK
  BY <1>2 DEF DiagnosisInit, DiagnosisTypeOK
<1>4. Paid /\ DiagnosisIsExact /\ asking = 0
  BY DEF DiagnosisInit, Paid, DiagnosisIsExact
<1> QED
  BY <1>1, <1>3, <1>4 DEF DiagnosisInvariant

(* The walk itself is before any diagnosis. *)
LEMMA WalkKeepsDiagnosis ==
  ASSUME DiagnosisInvariant, [Next]_vars, UNCHANGED <<explain, code, refined, search>>
  PROVE  DiagnosisInvariant'
<1>1. WalkInvariant'
  BY WalkInvariantIsInductive DEF DiagnosisInvariant
<1>2. UNCHANGED <<keys, text, memberCount, under, limit>>
  BY DEF Next, CheckShape, OutOfBudget, VerifyFails, VerifySucceeds, Verify, RunOutOfKeys, Accept,
         vars, input
<1>3. UNCHANGED <<code, refined, placing, asking, waiting, seen, assignedTo>>
  BY DEF search
<1>4. KeyCount' = KeyCount
  BY <1>2 DEF KeyCount
<1>5. DiagnosisTypeOK'
  BY <1>2, <1>3, <1>4 DEF DiagnosisInvariant, DiagnosisTypeOK
<1>6. CASE verdict = "no_conforming_assignment"
  <2>1. UNCHANGED vars
    BY <1>6, RefusalIsFinal
  <2> QED
    BY <2>1, <1>1, <1>2, <1>3, <1>4, <1>5
       DEF vars, DiagnosisInvariant, Paid, Matching, Path, Caller, Exhausted, DiagnosisIsExact,
           Matrix, Assignments, Conforms, ConformingAssignment
<1>7. CASE verdict # "no_conforming_assignment"
  <2>1. code = "none" /\ asking = 0
    BY <1>7 DEF DiagnosisInvariant, Paid
  <2>2. Paid' /\ DiagnosisIsExact' /\ asking' = 0
    BY <2>1, <1>2, <1>3, <1>4 DEF DiagnosisInvariant, Paid, DiagnosisIsExact
  <2> QED
    BY <2>2, <1>1, <1>5 DEF DiagnosisInvariant
<1> QED
  BY <1>6, <1>7

(* Of a refusal it is always true that nothing conforms. *)
LEMMA StepKeepsRecord ==
  ASSUME DiagnosisInvariant, UNCHANGED vars, verdict = "no_conforming_assignment"
  PROVE  /\ WalkInvariant'
         /\ KeyCount' = KeyCount /\ Matrix' = Matrix /\ Assignments' = Assignments
         /\ UNCHANGED <<keys, text, memberCount, under, limit, spent, verdict>>
         /\ KeyCount \in Nat /\ memberCount \in Nat /\ Matrix \in Nat
         /\ spent \in Nat /\ limit \in Nat /\ spent <= limit
         /\ memberCount # 0
         /\ ~Conforms(memberCount, KeyCount, under)
         /\ ~Conforms(memberCount, KeyCount, under)'
<1>1. UNCHANGED <<keys, text, memberCount, under, limit, spent, verdict>>
  BY DEF vars, input
<1>2. KeyCount' = KeyCount /\ Matrix' = Matrix /\ Assignments' = Assignments
  BY <1>1 DEF KeyCount, Matrix, Assignments
<1>3. WalkInvariant'
  BY WalkInvariantIsInductive DEF DiagnosisInvariant
<1>4. /\ KeyCount \in Nat /\ memberCount \in Nat /\ Matrix \in Nat
      /\ spent \in Nat /\ limit \in Nat /\ spent <= limit
  BY KeyCountType, MatrixType DEF DiagnosisInvariant, WalkInvariant, TypeOK, WalkPosition
<1>5. memberCount # 0
  BY <1>4 DEF DiagnosisInvariant, WalkInvariant, TypeOK, VerdictBacked
<1>6. ~Conforms(memberCount, KeyCount, under)
  BY RefusedDoesNotConform DEF DiagnosisInvariant
<1>7. ~Conforms(memberCount, KeyCount, under)'
  BY <1>6, <1>1, <1>2 DEF Conforms, ConformingAssignment
<1> QED
  BY <1>1, <1>2, <1>3, <1>4, <1>5, <1>6, <1>7

(* The matrix is paid for or it is not begun; with it a member without a key  *)
(* is told, or the search starts with nothing held.                          *)
LEMMA ExplainKeepsDiagnosis ==
  ASSUME DiagnosisInvariant, Explain
  PROVE  DiagnosisInvariant'
<1>1. UNCHANGED vars /\ verdict = "no_conforming_assignment" /\ code = "none" /\ asking = 0
  BY DEF Explain
<1> USE StepKeepsRecord
<1>2. seen = {} /\ waiting = << >> /\ assignedTo = [k \in 1 .. KeyCount |-> 0]
  BY <1>1 DEF DiagnosisInvariant, Paid
<1>0. /\ Matrix \in Nat /\ limit - spent \in Nat
      /\ memberCount' = memberCount /\ KeyCount' = KeyCount /\ memberCount # 0
  BY <1>1
<1>3. CASE limit - spent < Matrix
  <2>1. code' = "budget_exceeded" /\ refined' = limit - spent /\ UNCHANGED search
    BY <1>3 DEF Explain
  <2>2. UNCHANGED <<placing, asking, waiting, seen, assignedTo>>
    BY <2>1 DEF search
  <2>3. DiagnosisTypeOK'
    <3>1. DiagnosisTypeOK
      BY DEF DiagnosisInvariant
    <3> QED
      BY ONLY <3>1, <1>0, <2>1, <2>2 DEF DiagnosisTypeOK
  <2>4. Paid'
    BY <1>1, <2>1, <2>2 DEF Paid
  <2>5. DiagnosisIsExact'
    BY <1>1, <1>3, <2>1 DEF DiagnosisIsExact
  <2> QED
    BY <1>1, <2>2, <2>3, <2>4, <2>5 DEF DiagnosisInvariant
<1>4. CASE ~(limit - spent < Matrix) /\ \E m \in 1 .. memberCount : under[m] = {}
  <2>1. code' = "member_verifies_under_no_listed_key" /\ refined' = Matrix /\ UNCHANGED search
    BY <1>4 DEF Explain, DiagnoseAssignment
  <2>2. UNCHANGED <<placing, asking, waiting, seen, assignedTo>>
    BY <2>1 DEF search
  <2>3. DiagnosisTypeOK'
    <3>1. DiagnosisTypeOK
      BY DEF DiagnosisInvariant
    <3> QED
      BY ONLY <3>1, <1>0, <2>1, <2>2 DEF DiagnosisTypeOK
  <2>4. Paid'
    BY <1>1, <2>1, <2>2 DEF Paid
  <2>5. DiagnosisIsExact'
    BY <1>1, <1>4, <2>1 DEF DiagnosisIsExact
  <2> QED
    BY <1>1, <2>2, <2>3, <2>4, <2>5 DEF DiagnosisInvariant
<1>5. CASE ~(limit - spent < Matrix) /\ \A m \in 1 .. memberCount : under[m] # {}
  <2>1. /\ refined' = Matrix /\ placing' = 1 /\ asking' = 1
        /\ UNCHANGED <<code, waiting, seen, assignedTo>>
    BY <1>5 DEF Explain, DiagnoseAssignment
  <2>2. DiagnosisTypeOK'
    <3>1. DiagnosisTypeOK /\ memberCount \in Nat
      BY <1>1 DEF DiagnosisInvariant
    <3> QED
      BY ONLY <3>1, <1>0, <2>1 DEF DiagnosisTypeOK
  <2>3. Paid'
    BY <1>1, <1>5, <2>1 DEF Paid
  <2>4. DiagnosisIsExact'
    BY <1>1, <2>1 DEF DiagnosisIsExact
  <2>5. Matching'
    BY <1>1, <1>2, <2>1 DEF Matching
  <2>6. Path' /\ Exhausted'
    BY <1>2, <2>1 DEF Path, Exhausted, Caller
  <2> QED
    BY <1>1, <2>2, <2>3, <2>4, <2>5, <2>6 DEF DiagnosisInvariant
<1> QED
  BY <1>3, <1>4, <1>5

(* The next member is placed, or all are and the keys they hold are an        *)
(* injective assignment.                                                      *)
LEMMA TakeFreeKeyKeepsDiagnosis ==
  ASSUME DiagnosisInvariant, TakeFreeKey
  PROVE  DiagnosisInvariant'
<1>1. /\ asking # 0 /\ Untried # {} /\ assignedTo[NextKey] = 0
      /\ UNCHANGED vars /\ UNCHANGED <<explain, refined>>
      /\ assignedTo' = Reassigned /\ waiting' = << >> /\ seen' = {}
  BY DEF TakeFreeKey
<1>2. /\ code = "none" /\ verdict = "no_conforming_assignment"
      /\ refined = Matrix /\ spent + Matrix <= limit
      /\ \A m \in 1 .. memberCount : under[m] # {}
  BY <1>1 DEF DiagnosisInvariant, Paid
<1>3. /\ WalkInvariant' /\ KeyCount' = KeyCount /\ Matrix' = Matrix /\ Assignments' = Assignments
      /\ UNCHANGED <<keys, text, memberCount, under, limit, spent, verdict>>
      /\ Matrix \in Nat /\ memberCount \in Nat /\ KeyCount \in Nat /\ spent \in Nat /\ limit \in Nat
      /\ ~Conforms(memberCount, KeyCount, under)'
  BY <1>1, <1>2, StepKeepsRecord
<1>4. DiagnosisTypeOK /\ placing \in 1 .. memberCount
  BY <1>1 DEF DiagnosisInvariant, DiagnosisTypeOK, Paid
<1>5. /\ Reassigned \in [1 .. KeyCount -> 0 .. memberCount]
      /\ \A k \in 1 .. KeyCount : Reassigned[k] # 0 =>
            Reassigned[k] < placing + 1 /\ k \in under[Reassigned[k]]
      /\ \A j, k \in 1 .. KeyCount :
            Reassigned[j] # 0 /\ Reassigned[j] = Reassigned[k] => j = k
      /\ \A m \in 1 .. memberCount : m < placing + 1 =>
            \E k \in 1 .. KeyCount : Reassigned[k] = m
  BY <1>1, PathIsAugmented
<1> HIDE DEF Reassigned
<1>6. CASE placing < memberCount
  <2>1. placing' = placing + 1 /\ asking' = placing + 1 /\ code' = code
    BY <1>6 DEF TakeFreeKey
  <2>2. DiagnosisTypeOK'
    BY <1>1, <1>3, <1>4, <1>5, <1>6, <2>1 DEF DiagnosisTypeOK
  <2>3. Paid'
    BY <1>1, <1>2, <1>3, <1>4, <2>1 DEF Paid
  <2>4. DiagnosisIsExact'
    BY <1>2, <2>1 DEF DiagnosisIsExact
  <2>5. Matching'
    BY <1>1, <1>3, <1>5, <2>1 DEF Matching
  <2>6. Path' /\ Exhausted'
    BY <1>1, <2>1 DEF Path, Exhausted, Caller
  <2> QED
    BY <1>3, <2>2, <2>3, <2>4, <2>5, <2>6 DEF DiagnosisInvariant
<1>7. CASE ~(placing < memberCount)
  <2>1. placing' = placing /\ asking' = 0 /\ code' = "members_out_of_key_order"
    BY <1>7 DEF TakeFreeKey
  <2>2. DiagnosisTypeOK'
    BY <1>1, <1>3, <1>4, <1>5, <2>1 DEF DiagnosisTypeOK
  <2>3. Paid'
    BY <1>1, <1>2, <1>3, <2>1 DEF Paid
  <2>4. \E f \in Assignments : IsInjective(f)
    <3> DEFINE f == [m \in 1 .. memberCount |-> CHOOSE k \in 1 .. KeyCount : Reassigned[k] = m]
    <3>1. ASSUME NEW m \in 1 .. memberCount
          PROVE  f[m] \in 1 .. KeyCount /\ Reassigned[f[m]] = m
      <4>1. m < placing + 1
        BY <1>3, <1>4, <1>7
      <4> QED
        BY <4>1, <1>5
    <3>2. f \in [1 .. memberCount -> 1 .. KeyCount] /\ DOMAIN f = 1 .. memberCount
      BY <3>1
    <3> HIDE DEF f
    <3>3. \A m \in 1 .. memberCount : f[m] \in under[m]
      BY <3>1, <1>5
    <3>4. IsInjective(f)
      BY <3>1, <3>2 DEF IsInjective
    <3> QED
      BY <3>2, <3>3, <3>4 DEF Assignments
  <2>5. DiagnosisIsExact'
    BY <1>1, <1>2, <1>3, <2>1, <2>4 DEF DiagnosisIsExact
  <2> QED
    BY <1>3, <2>1, <2>2, <2>3, <2>5 DEF DiagnosisInvariant
<1> QED
  BY <1>6, <1>7

(* One call more: its member is the holder of the key asked for. *)
LEMMA AskHolderKeepsDiagnosis ==
  ASSUME DiagnosisInvariant, AskHolder
  PROVE  DiagnosisInvariant'
<1>1. /\ asking # 0 /\ Untried # {} /\ assignedTo[NextKey] # 0
      /\ UNCHANGED vars /\ UNCHANGED <<explain, code, refined, placing, assignedTo>>
      /\ seen' = seen \cup {NextKey} /\ waiting' = Calls /\ asking' = assignedTo[NextKey]
  BY DEF AskHolder
<1>2. /\ code = "none" /\ verdict = "no_conforming_assignment"
      /\ DiagnosisTypeOK /\ Paid /\ Matching /\ Path /\ Exhausted
  BY <1>1 DEF DiagnosisInvariant, Paid
<1>3. /\ WalkInvariant' /\ KeyCount' = KeyCount /\ Matrix' = Matrix
      /\ UNCHANGED <<keys, text, memberCount, under, limit, spent, verdict>>
  BY <1>1, <1>2, StepKeepsRecord
<1>4. NextKey \in 1 .. KeyCount
  BY <1>1, NextKeyIsUntried
<1>5. /\ Calls \in Seq([member : 1 .. memberCount, key : 1 .. KeyCount])
      /\ DOMAIN Calls = 1 .. Len(waiting) + 1
      /\ Len(waiting) \in Nat
      /\ Calls[Len(waiting) + 1] = [member |-> asking, key |-> NextKey]
      /\ \A i \in 1 .. Len(waiting) : Calls[i] = waiting[i]
      /\ Calls[1].member = placing
      /\ \A i \in DOMAIN Calls : Calls[i].key \in under[Calls[i].member]
      /\ \A i \in 1 .. Len(waiting) : assignedTo[Calls[i].key] = Calls[i + 1].member
      /\ \A i, j \in DOMAIN Calls : Calls[i].key = Calls[j].key => i = j
  BY <1>1, CallsAlternate
<1> HIDE DEF Calls, NextKey
<1>6. DiagnosisTypeOK'
  <2>1. assignedTo[NextKey] \in 0 .. memberCount
    BY <1>2, <1>4 DEF DiagnosisTypeOK
  <2>2. waiting' \in Seq([member : 1 .. memberCount, key : 1 .. KeyCount])'
    BY <1>1, <1>3, <1>5
  <2> QED
    BY <1>1, <1>2, <1>3, <1>4, <2>1, <2>2 DEF DiagnosisTypeOK
<1>7. Paid' /\ DiagnosisIsExact'
  BY <1>1, <1>2, <1>3 DEF Paid, DiagnosisIsExact
<1>8. Matching'
  BY <1>1, <1>2, <1>3 DEF Matching
<1>9. DOMAIN waiting = 1 .. Len(waiting)
  BY <1>2 DEF DiagnosisTypeOK
<1>10. Path'
  <2>1. Caller(1)' = placing'
    BY <1>1, <1>5 DEF Caller
  <2>2. ASSUME NEW i \in DOMAIN Calls
        PROVE  /\ Calls[i].key \in seen'
               /\ Calls[i].key \in under'[Calls[i].member]
               /\ assignedTo'[Calls[i].key] = (IF i + 1 \in DOMAIN Calls THEN Calls[i + 1].member
                                               ELSE asking')
    <3>1. CASE i \in 1 .. Len(waiting)
      <4>1. i + 1 \in DOMAIN Calls /\ Calls[i].key \in seen
        BY <3>1, <1>2, <1>5, <1>9 DEF Path
      <4> QED
        BY <3>1, <4>1, <1>1, <1>3, <1>5
    <3>2. CASE i = Len(waiting) + 1
      <4>1. i + 1 \notin DOMAIN Calls
        BY <3>2, <1>5
      <4>2. Calls[i].key = NextKey
        BY <3>2, <1>5
      <4>3. Calls[i].key \in under[Calls[i].member]
        BY <1>5
      <4> QED
        BY <4>1, <4>2, <4>3, <1>1, <1>3
    <3> QED
      BY <3>1, <3>2, <1>5
  <2> QED
    BY <2>1, <2>2, <1>1, <1>5 DEF Path, Caller
<1>11. Exhausted'
  <2> SUFFICES ASSUME NEW k \in seen'
               PROVE  /\ assignedTo[k] # 0
                      /\ \/ under[assignedTo[k]] \subseteq seen'
                         \/ \E i \in DOMAIN Calls : Calls[i].key = k
    BY <1>1, <1>3 DEF Exhausted
  <2>1. CASE k = NextKey
    <3>1. Len(waiting) + 1 \in DOMAIN Calls
      BY <1>5
    <3> QED
      BY <3>1, <2>1, <1>1, <1>5
  <2>2. CASE k \in seen
    <3>1. \A i \in DOMAIN waiting : i \in DOMAIN Calls /\ Calls[i] = waiting[i]
      BY <1>5, <1>9
    <3> QED
      BY <2>2, <3>1, <1>1, <1>2 DEF Exhausted
  <2> QED
    BY <2>1, <2>2, <1>1
<1> QED
  BY <1>3, <1>6, <1>7, <1>8, <1>10, <1>11 DEF DiagnosisInvariant

(* One call less: the member of the call that ends has no key left to try.    *)
(* When it was the outermost, no assignment is injective.                     *)
LEMMA GiveUpKeepsDiagnosis ==
  ASSUME DiagnosisInvariant, GiveUp
  PROVE  DiagnosisInvariant'
<1>1. /\ asking # 0 /\ Untried = {}
      /\ UNCHANGED vars /\ UNCHANGED <<explain, refined, placing, seen, assignedTo>>
  BY DEF GiveUp
<1>2. /\ code = "none" /\ verdict = "no_conforming_assignment" /\ placing # 0
      /\ refined = Matrix /\ spent + Matrix <= limit
      /\ \A m \in 1 .. memberCount : under[m] # {}
      /\ DiagnosisTypeOK /\ Matching /\ Path /\ Exhausted
  BY <1>1 DEF DiagnosisInvariant, Paid
<1>3. /\ WalkInvariant' /\ KeyCount' = KeyCount /\ Matrix' = Matrix /\ Assignments' = Assignments
      /\ UNCHANGED <<keys, text, memberCount, under, limit, spent, verdict>>
      /\ Matrix \in Nat /\ memberCount \in Nat /\ KeyCount \in Nat /\ spent \in Nat /\ limit \in Nat
      /\ ~Conforms(memberCount, KeyCount, under)'
  BY <1>1, <1>2, StepKeepsRecord
<1>4. Matching'
  BY <1>1, <1>2, <1>3 DEF Matching
<1>5. CASE waiting = << >>
  <2>1. code' = "members_not_injectively_assignable" /\ asking' = 0 /\ waiting' = waiting
    BY <1>5 DEF GiveUp
  <2>2. DiagnosisTypeOK'
    BY <1>1, <1>2, <1>3, <2>1 DEF DiagnosisTypeOK
  <2>3. Paid'
    BY <1>1, <1>2, <1>3, <2>1 DEF Paid
  <2>4. Assignments # {}
    <3> DEFINE f == [m \in 1 .. memberCount |-> CHOOSE k \in under[m] : TRUE]
    <3>1. under \in [1 .. memberCount -> SUBSET (1 .. KeyCount)]
      BY DEF DiagnosisInvariant, WalkInvariant, TypeOK
    <3>2. \A m \in 1 .. memberCount : f[m] \in under[m]
      BY <1>2
    <3>3. f \in Assignments
      BY <3>1, <3>2 DEF Assignments
    <3> QED
      BY <3>3
  <2>5. \A f \in Assignments : ~IsInjective(f)
    BY <1>1, <1>5, FailedSearchRefutes
  <2>6. DiagnosisIsExact'
    BY <1>1, <1>2, <1>3, <2>1, <2>4, <2>5 DEF DiagnosisIsExact
  <2> QED
    BY <1>3, <2>1, <2>2, <2>3, <2>6 DEF DiagnosisInvariant
<1>6. CASE waiting # << >>
  <2> DEFINE n == Len(waiting)
             Frames == [member : 1 .. memberCount, key : 1 .. KeyCount]
  <2>1. /\ code' = code /\ asking' = waiting[n].member
        /\ waiting' = SubSeq(waiting, 1, n - 1)
    BY <1>6 DEF GiveUp
  <2>2. waiting \in Seq(Frames)
    BY <1>2 DEF DiagnosisTypeOK
  <2>3. /\ n \in Nat \ {0} /\ DOMAIN waiting = 1 .. n
        /\ waiting' \in Seq(Frames) /\ DOMAIN waiting' = 1 .. n - 1
        /\ \A i \in 1 .. n - 1 : waiting'[i] = waiting[i]
        /\ \A i \in 1 .. n : waiting[i] \in Frames
    <3> HIDE DEF Frames
    <3> QED BY <2>1, <2>2, <1>6
  <2>4. waiting[n].member \in 1 .. memberCount
    BY <2>3
  <2>10. n \in Nat /\ n >= 1 /\ DOMAIN waiting = 1 .. n /\ DOMAIN waiting' = 1 .. n - 1
        /\ \A i \in 1 .. n - 1 : waiting'[i] = waiting[i]
    <3> HIDE DEF Frames
    <3> QED BY <2>3
  <2>5. DiagnosisTypeOK'
    <3>1. (waiting \in Seq([member : 1 .. memberCount, key : 1 .. KeyCount]))'
      BY <2>3, <1>3
    <3> QED
      <4>1. refined' \in Nat /\ placing' \in 0 .. memberCount' /\ seen' \in SUBSET (1 .. KeyCount)'
            /\ assignedTo' \in [(1 .. KeyCount)' -> 0 .. memberCount']
        BY <1>1, <1>2, <1>3 DEF DiagnosisTypeOK
      <4>2. asking' \in 0 .. memberCount'
        BY <1>3, <2>1, <2>4
      <4> QED
        BY ONLY <3>1, <4>1, <4>2 DEF DiagnosisTypeOK
  <2>6. Paid' /\ DiagnosisIsExact'
    <3>1. code' = "none" /\ asking' # 0
      BY <1>2, <1>3, <2>1, <2>4
    <3> QED
      BY <3>1, <1>1, <1>2, <1>3 DEF Paid, DiagnosisIsExact
  <2>7. \A i \in 1 .. n : Caller(i)' = Caller(i)
    <3> SUFFICES ASSUME NEW i \in 1 .. n PROVE Caller(i)' = Caller(i)
      OBVIOUS
    <3>1. Caller(i) = waiting[i].member
      BY <2>10 DEF Caller
    <3>2. CASE i \in 1 .. n - 1
      BY <3>1, <3>2, <2>10 DEF Caller
    <3>3. CASE i = n
      BY <3>1, <3>3, <2>1, <2>10 DEF Caller
    <3> QED
      <4>1. i \in 1 .. n - 1 \/ i = n
        <5> HIDE DEF n, Frames
        <5> QED BY <2>10
      <4> QED
        BY <4>1, <3>2, <3>3
  <2>8. Path'
    <3>1. Caller(1)' = placing'
      BY <2>3, <2>7, <1>1, <1>2 DEF Path
    <3>2. ASSUME NEW i \in 1 .. n - 1
          PROVE  /\ waiting'[i].key \in seen'
                 /\ waiting'[i].key \in under'[waiting'[i].member]
                 /\ assignedTo'[waiting'[i].key] = Caller(i + 1)'
      <4>1. i \in 1 .. n /\ i + 1 \in 1 .. n /\ waiting'[i] = waiting[i]
        BY ONLY <2>10
      <4>2. /\ waiting[i].key \in seen
            /\ waiting[i].key \in under[waiting[i].member]
            /\ assignedTo[waiting[i].key] = Caller(i + 1)
        BY <4>1, <2>10, <1>2 DEF Path
      <4>3. Caller(i + 1)' = Caller(i + 1)
        BY <4>1, <2>7
      <4>4. under' = under /\ assignedTo' = assignedTo /\ seen' = seen
        BY <1>1, <1>3
      <4> HIDE DEF n, Frames
      <4> QED
        BY ONLY <4>1, <4>2, <4>3, <4>4
    <3>3. ASSUME NEW i \in 1 .. n - 1, NEW j \in 1 .. n - 1, waiting'[i].key = waiting'[j].key
          PROVE  i = j
      <4>1. i \in 1 .. n /\ j \in 1 .. n /\ waiting'[i] = waiting[i] /\ waiting'[j] = waiting[j]
        BY ONLY <2>10
      <4> QED
        BY <4>1, <3>3, <2>10, <1>2 DEF Path
    <3> QED
      BY <3>1, <3>2, <3>3, <2>3 DEF Path
  <2>9. Exhausted'
    <3> SUFFICES ASSUME NEW k \in seen
                 PROVE  /\ assignedTo[k] # 0
                        /\ \/ under[assignedTo[k]] \subseteq seen
                           \/ \E i \in 1 .. n - 1 : waiting'[i].key = k
      BY <1>1, <1>3, <2>3 DEF Exhausted
    <3>1. CASE k = waiting[n].key
      <4>1. Caller(n + 1) = asking
        BY <2>3 DEF Caller
      <4>2. assignedTo[k] = asking
        <5>1. n \in DOMAIN waiting
          <6> HIDE DEF Frames
          <6> QED BY <2>10
        <5>2. assignedTo[waiting[n].key] = Caller(n + 1)
          BY <5>1, <1>2 DEF Path
        <5> QED
          BY <3>1, <4>1, <5>2
      <4> QED
        BY <4>2, <1>1 DEF Untried
    <3>2. CASE k # waiting[n].key
      <4>1. /\ assignedTo[k] # 0
            /\ \/ under[assignedTo[k]] \subseteq seen
               \/ \E i \in 1 .. n : waiting[i].key = k
        BY <1>2, <2>3 DEF Exhausted
      <4>2. ASSUME NEW i \in 1 .. n, waiting[i].key = k
            PROVE  i \in 1 .. n - 1 /\ waiting'[i].key = k
        BY <4>2, <3>2, <2>3
      <4> QED
        BY <4>1, <4>2
    <3> QED
      BY <3>1, <3>2
  <2> QED
    BY <1>3, <1>4, <2>5, <2>6, <2>8, <2>9 DEF DiagnosisInvariant
<1> QED
  BY <1>5, <1>6

(* The invariant of the diagnosis is inductive. *)
LEMMA DiagnosisInvariantIsInductive ==
  ASSUME DiagnosisInvariant, [DiagnosisNext]_diagnosisVars
  PROVE  DiagnosisInvariant'
<1>1. CASE (Next /\ UNCHANGED <<explain, code, refined, search>>) \/ UNCHANGED diagnosisVars
  BY <1>1, WalkKeepsDiagnosis DEF diagnosisVars
<1>2. CASE Explain
  BY <1>2, ExplainKeepsDiagnosis
<1>3. CASE TakeFreeKey
  BY <1>3, TakeFreeKeyKeepsDiagnosis
<1>4. CASE AskHolder
  BY <1>4, AskHolderKeepsDiagnosis
<1>5. CASE GiveUp
  BY <1>5, GiveUpKeepsDiagnosis
<1> QED
  BY <1>1, <1>2, <1>3, <1>4, <1>5 DEF DiagnosisNext

(* The explanation never disagrees with the verdict, keeps to the allowance   *)
(* and names the first rule that is broken: augmenting paths find an          *)
(* injective assignment whenever there is one, for every relation of members  *)
(* and keys.                                                                  *)
THEOREM DiagnosisNamesTheBrokenRule == DiagnosisSpec => []DiagnosisIsExact
<1>1. DiagnosisInvariant /\ [DiagnosisNext]_diagnosisVars => DiagnosisInvariant'
  BY DiagnosisInvariantIsInductive
<1>2. DiagnosisInvariant => DiagnosisIsExact
  BY DEF DiagnosisInvariant
<1> QED
  BY <1>1, <1>2, InitEstablishesDiagnosis, PTL DEF DiagnosisSpec
===============================================================================
