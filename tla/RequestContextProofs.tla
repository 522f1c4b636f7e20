------------------------- MODULE RequestContextProofs -------------------------
(* The safety of a request's verification context, for every number of         *)
(* operations, views and participants: one inductive invariant of five parts.  *)
EXTENDS RequestContext, FiniteSetTheorems, WellFoundedInduction, TLAPS

-------------------------------------------------------------------------------
(* Sums over the operations: what Total is built from, as a function.          *)
Weigh(f, S, iter) ==
    iter = [s \in S |-> IF s = {} THEN 0
                        ELSE LET x == CHOOSE x \in s : TRUE IN f[x] + iter[s \ {x}]]
Sums(f) == CHOOSE iter : Weigh(f, SUBSET Op, iter)

(* Total is the sum over all operations. *)
LEMMA TotalIsSum == Total = Sums(spent)[Op]
 BY DEF Total, MapThenSumSet, MapThenFoldSet, Sums, Weigh

(* A set of naturals that is not empty has a least member. *)
LEMMA LeastNat ==
  ASSUME NEW K, K \subseteq Nat, K # {}
  PROVE  \E k \in K : \A j \in K : k <= j
<1>1. PICK k \in K : \A j \in K : ~(<<j, k>> \in OpToRel(<, Nat))
  BY WFMin, NatLessThanWellFounded
<1>2. \A j \in K : ~(j < k)
  BY <1>1 DEF OpToRel
<1> QED
  BY <1>2

(* The sums over the subsets of Op exist: by induction on the size of the *)
(* subset.                                                                *)
LEMMA SumsExist ==
  ASSUME NEW f, IsFiniteSet(Op)
  PROVE  \E iter : Weigh(f, SUBSET Op, iter)
<1> DEFINE UpTo(n) == {s \in SUBSET Op : Cardinality(s) <= n}
           Missing == {n \in Nat : ~ \E iter : Weigh(f, UpTo(n), iter)}
<1>1. \A s \in SUBSET Op : IsFiniteSet(s) /\ Cardinality(s) \in Nat
  BY FS_Subset, FS_CardinalityType
<1>2. ASSUME NEW n \in Nat, n \in Missing, \A m \in Missing : n <= m
      PROVE  FALSE
  <2>1. CASE n = 0
    <3>1. UpTo(0) = {{}}
      BY <1>1, FS_EmptySet
    <3>2. Weigh(f, {{}}, [s \in {{}} |-> 0])
      BY DEF Weigh
    <3> QED
      BY <2>1, <3>1, <3>2, <1>2
  <2>2. CASE n # 0
    <3>1. n - 1 \in Nat /\ n - 1 \notin Missing
      <4> HIDE DEF Missing
      <4> QED
        BY <2>2, <1>2
    <3>2. PICK g : Weigh(f, UpTo(n - 1), g)
      BY <3>1
    <3> DEFINE h == [s \in UpTo(n) |-> IF s = {} THEN 0
                        ELSE LET x == CHOOSE x \in s : TRUE IN f[x] + g[s \ {x}]]
    <3>3. ASSUME NEW s \in UpTo(n), s # {}, NEW x \in s
          PROVE  s \ {x} \in UpTo(n - 1)
      BY <1>1, <3>3, FS_RemoveElement
    <3>4. \A s \in UpTo(n - 1) : s \in UpTo(n) /\ h[s] = g[s]
      <4>1. \A s \in UpTo(n - 1) : s \in UpTo(n)
        BY <1>1
      <4> HIDE DEF UpTo
      <4> QED
        BY <3>2, <4>1 DEF Weigh
    <3>5. Weigh(f, UpTo(n), h)
      <4> HIDE DEF UpTo
      <4>1. ASSUME NEW s \in UpTo(n), s # {}
            PROVE  LET x == CHOOSE x \in s : TRUE IN f[x] + g[s \ {x}] = f[x] + h[s \ {x}]
        <5> DEFINE x == CHOOSE x \in s : TRUE
        <5>1. x \in s
          BY <4>1
        <5>2. h[s \ {x}] = g[s \ {x}]
          BY <3>3, <3>4, <4>1, <5>1
        <5> QED
          BY <5>2
      <4> QED
        BY <4>1 DEF Weigh
    <3> QED
      BY <3>5, <1>2
  <2> QED
    BY <2>1, <2>2
<1>3. Missing = {}
  <2>1. Missing \subseteq Nat
    OBVIOUS
  <2> HIDE DEF Missing
  <2> QED
    BY <1>2, <2>1, LeastNat
<1>4. UpTo(Cardinality(Op)) = SUBSET Op
  BY <1>1, FS_Subset
<1>5. Cardinality(Op) \in Nat
  BY <1>1
<1> QED
  BY <1>3, <1>4, <1>5

(* What a sum is: nothing over the empty set, else one weight and the rest. *)
LEMMA SumsDef ==
  ASSUME NEW f, IsFiniteSet(Op)
  PROVE  /\ Sums(f)[{}] = 0
         /\ \A s \in SUBSET Op : s # {} =>
              \E x \in s : x = (CHOOSE y \in s : TRUE) /\ Sums(f)[s] = f[x] + Sums(f)[s \ {x}]
<1>1. Weigh(f, SUBSET Op, Sums(f))
  BY SumsExist DEF Sums
<1>2. ASSUME NEW s \in SUBSET Op, s # {}
      PROVE  \E x \in s : x = (CHOOSE y \in s : TRUE) /\ Sums(f)[s] = f[x] + Sums(f)[s \ {x}]
  <2> DEFINE x == CHOOSE y \in s : TRUE
  <2>1. x \in s
    BY <1>2
  <2>2. Sums(f)[s] = f[x] + Sums(f)[s \ {x}]
    BY <1>1, <1>2 DEF Weigh
  <2> QED
    BY <2>1, <2>2
<1>3. Sums(f)[{}] = 0
  <2>1. {} \in SUBSET Op
    OBVIOUS
  <2> QED
    BY <1>1, <2>1 DEF Weigh
<1> QED
  BY <1>2, <1>3

(* A family of subsets that the empty set begins, and that a set enters when *)
(* all its subsets with one member less are there, holds the whole set.      *)
LEMMA SubsetInduction ==
  ASSUME NEW S, IsFiniteSet(S), NEW P, {} \in P,
         ASSUME NEW s \in SUBSET S, s # {}, \A x \in s : s \ {x} \in P
         PROVE  s \in P
  PROVE  S \in P
<1> DEFINE Bad == {s \in SUBSET S : s \notin P}
           Sizes == {Cardinality(s) : s \in Bad}
<1>1. \A s \in SUBSET S : IsFiniteSet(s) /\ Cardinality(s) \in Nat
  BY FS_Subset, FS_CardinalityType
<1>2. ASSUME NEW s \in Bad, \A t \in Bad : Cardinality(s) <= Cardinality(t)
      PROVE  FALSE
  <2>1. s # {}
    OBVIOUS
  <2>2. ASSUME NEW x \in s PROVE s \ {x} \in P
    <3>1. /\ Cardinality(s \ {x}) < Cardinality(s)
          /\ Cardinality(s) \in Nat /\ Cardinality(s \ {x}) \in Nat
      BY <1>1, FS_RemoveElement
    <3>2. s \ {x} \notin Bad
      <4> HIDE DEF Bad
      <4> QED
        BY <1>2, <3>1
    <3> QED
      BY <3>2
  <2> QED
    BY <2>1, <2>2
<1>3. ASSUME Bad # {} PROVE \E s \in Bad : \A t \in Bad : Cardinality(s) <= Cardinality(t)
  <2>1. Sizes \subseteq Nat /\ Sizes # {}
    BY <1>1, <1>3
  <2>2. PICK k \in Sizes : \A j \in Sizes : k <= j
    BY <2>1, LeastNat
  <2>3. PICK s \in Bad : Cardinality(s) = k
    OBVIOUS
  <2>4. \A t \in Bad : Cardinality(t) \in Sizes
    OBVIOUS
  <2> HIDE DEF Bad, Sizes
  <2> QED
    BY <2>2, <2>3, <2>4
<1>4. Bad = {}
  <2> HIDE DEF Bad
  <2> QED
    BY <1>2, <1>3
<1> QED
  BY <1>4

(* Weights of nought sum to nought. *)
LEMMA NoughtSums ==
  ASSUME IsFiniteSet(Op), NEW f, f = [o \in Op |-> 0]
  PROVE  Sums(f)[Op] = 0
<1> DEFINE Weightless == {s \in SUBSET Op : Sums(f)[s] = 0}
<1>1. {} \in Weightless
  BY SumsDef
<1>2. ASSUME NEW s \in SUBSET Op, s # {}, \A x \in s : s \ {x} \in Weightless
      PROVE  s \in Weightless
  <2>1. PICK x \in s : Sums(f)[s] = f[x] + Sums(f)[s \ {x}]
    BY <1>2, SumsDef
  <2>2. f[x] = 0 /\ Sums(f)[s \ {x}] = 0
    BY <1>2
  <2> QED
    BY <2>1, <2>2
<1>3. Op \in Weightless
  <2> HIDE DEF Weightless
  <2> QED
    BY <1>1, <1>2, SubsetInduction
<1> QED
  BY <1>3

(* Adding c to one weight adds c to the sum. *)
LEMMA AddingToOne ==
  ASSUME IsFiniteSet(Op), NEW f \in [Op -> Int], NEW o \in Op, NEW c \in Int,
         NEW g, g = [f EXCEPT ![o] = @ + c]
  PROVE  /\ Sums(f)[Op] \in Int
         /\ Sums(g)[Op] = Sums(f)[Op] + c
<1> DEFINE Grows(s) == /\ Sums(f)[s] \in Int
                       /\ Sums(g)[s] = Sums(f)[s] + (IF o \in s THEN c ELSE 0)
           Growing == {s \in SUBSET Op : Grows(s)}
<1>1. {} \in Growing
  BY SumsDef
<1>2. ASSUME NEW s \in SUBSET Op, s # {}, \A x \in s : s \ {x} \in Growing
      PROVE  s \in Growing
  <2>1. PICK x \in s : x = (CHOOSE y \in s : TRUE) /\ Sums(f)[s] = f[x] + Sums(f)[s \ {x}]
    BY <1>2, SumsDef
  <2>2. Sums(g)[s] = g[x] + Sums(g)[s \ {x}]
    <3>1. PICK z \in s : z = (CHOOSE y \in s : TRUE) /\ Sums(g)[s] = g[z] + Sums(g)[s \ {z}]
      <4> HIDE DEF Growing
      <4> QED
        BY <1>2, SumsDef
    <3> QED
      BY <2>1, <3>1
  <2>3. Grows(s \ {x})
    BY <1>2
  <2>4. f[x] \in Int /\ g[x] = f[x] + (IF o = x THEN c ELSE 0)
    OBVIOUS
  <2>5. Grows(s)
    BY <2>1, <2>2, <2>3, <2>4
  <2> QED
    BY <2>5
<1>3. Op \in Growing
  <2> HIDE DEF Growing
  <2> QED
    BY <1>1, <1>2, SubsetInduction
<1> QED
  BY <1>3

-------------------------------------------------------------------------------
(* What the variables may hold. *)
Places ==
    {"idle", "agent", "edge", "issuer", "signature", "revocations", "candidates", "candidate",
     "judge", "done"}

Answers == {"own", "absent", "throws", "broken", "foreign"}

Verdicts ==
    Results \cup {"none", "expired", "edge_mismatch", "signature_invalid", "anchor_unknown",
                  "revoked", "chain_refused", "valid"}

Promise == [by : Op, result : {"waiting"} \cup Results]

(* Where o is in its call, and its lookup. *)
PlaceTyped(o) ==
    /\ at[o] \in 1 .. Len(call[o].records)
    /\ pc[o] \in {"candidate", "judge"} => revoker[o] \in Participant

LookupTypeOK ==
    /\ at \in [Op -> Nat] /\ pending \in [Op -> Nat] /\ allowance \in [Op -> Nat]
    /\ revoker \in [Op -> Participant \cup {"nobody"}]
    /\ \A o \in Op : PlaceTyped(o)

RequestTypeOK ==
    /\ call \in Requests
    /\ LookupTypeOK
    /\ pc \in [Op -> Places]
    /\ verdict \in [Op -> Verdicts]
    /\ heard \in [Op -> {"nothing", "waiting"} \cup Results]
    /\ ceiling \in Nat /\ outer \in Int
    /\ local \in [Op -> Int] /\ spent \in [Op -> Int]
    /\ memo \in [View -> [Participant -> {NoPromise} \cup Promise]]
    /\ answered \in [View -> [Participant -> SUBSET Answers]]
    /\ met \in [Op -> SUBSET Op]

(* Every meter is what it began with less what was spent against it. *)
MetersBalance ==
    /\ outer = ceiling - Sums(spent)[Op] /\ outer >= 0
    /\ \A o \in Op :
          IF pc[o] = "idle" THEN spent[o] = 0
          ELSE local[o] = LocalCeiling[call[o].view] - spent[o] /\ local[o] >= 0

(* o is at a call that asks view v for p's states. *)
AsksFor(o, v, p) == Asks(o) /\ Cache(o) = v /\ Asked(o) = p

(* The memo of v holds for p what o's promise came to. *)
Holds(v, p, o, result) == memo[v][p] = [by |-> o, result |-> result]

Resolved(v, p) == \E o \in Op : Holds(v, p, o, "own")

(* A promise that is no replayed log has its maker still at the call that made *)
(* it, and knowing what it knows; a replayed log was answered, and the one who *)
(* made the promise hears no other result.                                     *)
PromisesAreKept ==
    /\ \A v \in View, p \in Participant, o \in Op, result \in {"waiting"} \cup Results :
          Holds(v, p, o, result) =>
             IF result = "own"
             THEN "own" \in answered[v][p] /\ (AsksFor(o, v, p) => heard[o] \in {"nothing", "own"})
             ELSE AsksFor(o, v, p) /\ heard[o] = result
    /\ \A o \in Op : ~Asks(o) => heard[o] = "nothing"
    /\ \A o \in Op : heard[o] = "own" => Resolved(Cache(o), Asked(o))

(* What an operation has established of its call by the time it is at an      *)
(* await, and of every record it has left behind.                              *)
Signed == {"revocations", "candidates", "candidate", "judge"}
IssuerKnown == {"signature"} \cup Signed
Current == {"issuer"} \cup IssuerKnown
AgentKnown == {"edge"} \cup Current

Withdrawn(o) == IsHonest(o) /\ Judged(o).revokedBy = Judged(o).issuer

(* An honest view names the revocation that the issuer published, and the      *)
(* issuer's states are at hand.                                                *)
Noticing(o) ==
    /\ pc[o] = "candidates" => pending[o] # 0
    /\ pc[o] \in {"candidate", "judge"} => revoker[o] = Judged(o).issuer
    /\ pc[o] = "candidate" => heard[o] \in {"nothing", "own"}

Passed(o, i) ==
    LET record == call[o].records[i]
    IN  /\ Resolved(call[o].view, record.issuer)
        /\ record.signedAt > 0 /\ ~record.expired
        /\ IsHonest(o) => record.revokedBy # record.issuer

Established(o) ==
    /\ pc[o] \in AgentKnown /\ call[o].kind = "represents" =>
          "own" \in answered[call[o].view][call[o].agent]
    /\ pc[o] \in Current => ~Judged(o).expired
    /\ pc[o] \in IssuerKnown => Resolved(call[o].view, Judged(o).issuer)
    /\ pc[o] \in Signed => Judged(o).signedAt > 0
    /\ Withdrawn(o) => Noticing(o)
    /\ \A i \in 1 .. at[o] - 1 : Passed(o, i)

StagesEstablish == \A o \in Op : Established(o)

(* Somebody o ran with, or o itself, has spent a meter it began with. *)
Exhausted(o) ==
    pc[o] # "idle" /\ \E x \in met[o] \cup {o} : pc[x] # "idle" /\ MeterSpent(x)

CostIsSomebodys ==
    /\ \A x, y \in Op : Running(x) /\ Running(y) /\ x # y => y \in met[x]
    /\ \A v \in View, p \in Participant, o \in Op : Holds(v, p, o, "too_expensive") => MeterSpent(o)
    /\ \A o \in Op : heard[o] = "too_expensive" => Exhausted(o)
    /\ \A o \in Op : verdict[o] = "too_expensive" =>
          pc[o] = "done" /\ (allowance[o] = 0 \/ Exhausted(o))

RequestInvariant ==
    /\ RequestTypeOK
    /\ MetersBalance
    /\ PromisesAreKept
    /\ StagesEstablish
    /\ AcceptedOnOwnView
    /\ CostIsSomebodys

-------------------------------------------------------------------------------
(* Min and Max of two integers. *)
LEMMA MinOfTwo ==
  ASSUME NEW a \in Int, NEW b \in Int
  PROVE  Min({a, b}) = IF a <= b THEN a ELSE b
  BY DEF Min

LEMMA MaxOfTwo ==
  ASSUME NEW a \in Int, NEW b \in Int
  PROVE  Max({a, b}) = IF a <= b THEN b ELSE a
  BY DEF Max

LEMMA NatProduct ==
  ASSUME NEW a \in Nat, NEW b \in Nat
  PROVE  a * b \in Nat
  OBVIOUS

(* A promise is not the absence of one. *)
LEMMA NoPromiseIsNone ==
  ASSUME NEW o, NEW result
  PROVE  [by |-> o, result |-> result] # NoPromise
<1>1. "result" \in DOMAIN [by |-> o, result |-> result]
  OBVIOUS
<1>2. "result" \notin DOMAIN NoPromise
  BY DEF NoPromise
<1> QED
  BY <1>1, <1>2

(* What is asked is a call, of a view and of participants. *)
LEMMA CallTyped ==
  ASSUME RequestTypeOK
  PROVE  /\ call \in [Op -> Call]
         /\ \A o \in Op : /\ call[o].records \in Seq(Record)
                          /\ \A i \in 1 .. Len(call[o].records) :
                                /\ call[o].records[i] \in Record
                                /\ call[o].records[i].signedAt <= LogLength[call[o].records[i].issuer]
                          /\ at[o] \in 1 .. Len(call[o].records)
                          /\ Judged(o) \in Record /\ Judged(o).signedAt <= LogLength[Judged(o).issuer]
         /\ \A o \in Op : Asked(o) \in Participant /\ Cache(o) \in View
<1>1. call \in Requests /\ call \in [Op -> Call]
  BY RequestContextAssumption DEF RequestTypeOK
<1>2. ASSUME NEW o \in Op
      PROVE  /\ call[o].records \in Seq(Record)
             /\ \A i \in 1 .. Len(call[o].records) :
                   /\ call[o].records[i] \in Record
                   /\ call[o].records[i].signedAt <= LogLength[call[o].records[i].issuer]
             /\ at[o] \in 1 .. Len(call[o].records)
             /\ Judged(o) \in Record /\ Judged(o).signedAt <= LogLength[Judged(o).issuer]
             /\ Asked(o) \in Participant /\ Cache(o) \in View
  <2>1. call[o].records \in Seq(Record) /\ call[o].agent \in Participant /\ call[o].view \in View
    BY <1>1 DEF Call
  <2>2. \A i \in 1 .. Len(call[o].records) :
           /\ call[o].records[i] \in Record
           /\ call[o].records[i].signedAt <= LogLength[call[o].records[i].issuer]
    BY <1>1, <2>1, RequestContextAssumption
  <2>3. at[o] \in 1 .. Len(call[o].records) /\ (pc[o] = "candidate" => revoker[o] \in Participant)
    BY DEF RequestTypeOK, LookupTypeOK, PlaceTyped
  <2>4. Judged(o) \in Record /\ Judged(o).signedAt <= LogLength[Judged(o).issuer]
    BY <2>2, <2>3 DEF Judged
  <2>5. Asked(o) \in Participant
    BY <2>1, <2>3, <2>4 DEF Asked, Record
  <2> QED
    BY <2>1, <2>2, <2>3, <2>4, <2>5 DEF Cache
<1> QED
  BY <1>1, <1>2

(* No cost is negative: a meter is never refilled by paying. *)
LEMMA CostsAreNat ==
  ASSUME RequestTypeOK, NEW o \in Op
  PROVE  /\ WalkCost(o) \in Nat
         /\ MaxKeys \in Nat
         /\ \A answer : ReplayCost(Asked(o), answer) \in Nat
<1>1. Judged(o) \in Record /\ Judged(o).signedAt <= LogLength[Judged(o).issuer] /\ Asked(o) \in Participant
  BY CallTyped
<1>2. MaxKeys \in Nat
  BY RequestContextAssumption
<1>3. WalkCost(o) \in Nat
  <2> DEFINE len == LogLength[Judged(o).issuer]
             signed == Judged(o).signedAt
  <2>1. len \in Nat /\ len >= 1 /\ signed \in Nat /\ signed <= len
    BY <1>1, RequestContextAssumption DEF Record
  <2>2. WalkCost(o) = IF at[o] = 1 THEN (len + 1 - Max({1, signed})) * MaxKeys ELSE MaxKeys
    BY DEF WalkCost
  <2> HIDE DEF len, signed
  <2>3. len + 1 - Max({1, signed}) \in Nat
    BY <2>1, MaxOfTwo
  <2>4. (len + 1 - Max({1, signed})) * MaxKeys \in Nat
    BY <1>2, <2>3, NatProduct
  <2> QED
    BY <1>2, <2>2, <2>4
<1>4. ASSUME NEW answer PROVE ReplayCost(Asked(o), answer) \in Nat
  <2>1. LogLength[Asked(o)] \in Nat
    BY <1>1, RequestContextAssumption
  <2>2. LogLength[Asked(o)] * MaxKeys \in Nat
    BY <1>2, <2>1, NatProduct
  <2> QED
    BY <2>2 DEF ReplayCost
<1> QED
  BY <1>2, <1>3, <1>4

(* What remains to a begun operation: the least of its two meters. *)
LEMMA RemainingFacts ==
  ASSUME RequestTypeOK, MetersBalance, NEW o \in Op, pc[o] # "idle"
  PROVE  /\ Remaining(o) \in Nat
         /\ Remaining(o) <= local[o] /\ Remaining(o) <= outer
         /\ Remaining(o) = local[o] \/ Remaining(o) = outer
<1>1. local[o] \in Int /\ outer \in Int /\ local[o] >= 0 /\ outer >= 0
  BY DEF RequestTypeOK, MetersBalance
<1> QED
  BY <1>1, MinOfTwo DEF Remaining

(* A charge within what remains is taken from both meters and booked once. *)
LEMMA ChargeKeepsBalance ==
  ASSUME RequestTypeOK, MetersBalance, NEW o \in Op, pc[o] # "idle", NEW cost \in Nat,
         cost <= Remaining(o), Charge(o, cost), NEW place, place # "idle",
         pc' = [pc EXCEPT ![o] = place], UNCHANGED <<call, ceiling>>
  PROVE  MetersBalance'
<1>1. Remaining(o) \in Nat /\ Remaining(o) <= local[o] /\ Remaining(o) <= outer
  BY RemainingFacts
<1>2. /\ spent \in [Op -> Int] /\ local \in [Op -> Int] /\ outer \in Int /\ ceiling \in Int
      /\ pc \in [Op -> Places]
  BY DEF RequestTypeOK
<1>3. outer' = ceiling' - Sums(spent')[Op] /\ outer' >= 0
  <2>1. /\ Sums(spent)[Op] \in Int
        /\ Sums(spent')[Op] = Sums(spent)[Op] + cost
    <3>1. spent' = [spent EXCEPT ![o] = @ + cost]
      BY DEF Charge
    <3>2. IsFiniteSet(Op)
      BY RequestContextAssumption
    <3>3. spent \in [Op -> Int] /\ cost \in Int
      BY <1>2
    <3> QED
      BY <3>1, <3>2, <3>3, AddingToOne
  <2> QED
    BY <1>1, <1>2, <2>1 DEF Charge, MetersBalance
<1>4. ASSUME NEW x \in Op
      PROVE  IF pc'[x] = "idle" THEN spent'[x] = 0
             ELSE local'[x] = LocalCeiling[call'[x].view] - spent'[x] /\ local'[x] >= 0
  <2>1. CASE x # o
    BY <1>2, <2>1 DEF Charge, MetersBalance
  <2>2. CASE x = o
    <3>1. local[o] = LocalCeiling[call[o].view] - spent[o] /\ local[o] >= 0
      BY DEF MetersBalance
    <3>2. LocalCeiling[call[o].view] \in Int
      BY CallTyped, RequestContextAssumption DEF Call
    <3>3. local'[o] = local[o] - cost /\ spent'[o] = spent[o] + cost /\ pc'[o] = place
      BY <1>2 DEF Charge
    <3>4. local[o] \in Int /\ spent[o] \in Int
      BY <1>2
    <3> QED
      BY <1>1, <2>2, <3>1, <3>2, <3>3, <3>4
  <2> QED
    BY <2>1, <2>2
<1> QED
  BY <1>3, <1>4 DEF MetersBalance

(* The issuers asked about are participants, and finitely many. *)
LEMMA RevokersTyped ==
  ASSUME RequestTypeOK, NEW o \in Op
  PROVE  /\ Revokers(o) \subseteq Participant
         /\ Judged(o).issuer \in Revokers(o)
         /\ IsFiniteSet(Revokers(o)) /\ Cardinality(Revokers(o)) \in Nat
<1> DEFINE records == call[o].records
           Issuer == [i \in at[o] .. Len(records) |-> records[i].issuer]
<1>1. /\ records \in Seq(Record) /\ at[o] \in 1 .. Len(records)
      /\ \A i \in 1 .. Len(records) : records[i].issuer \in Participant
  BY CallTyped DEF Record
<1>2. Len(records) \in Nat
  BY <1>1
<1>3. CASE at[o] = 1
  <2>1. Revokers(o) = {Judged(o).issuer} /\ Judged(o).issuer \in Participant
    BY <1>1, <1>3 DEF Revokers, Judged
  <2> QED
    BY <2>1, FS_Singleton, FS_CardinalityType
<1>4. CASE at[o] # 1
  <2>1. Revokers(o) = {records[i].issuer : i \in at[o] .. Len(records)}
    BY <1>4 DEF Revokers
  <2>2. Judged(o).issuer \in Revokers(o) /\ Revokers(o) \subseteq Participant
    BY <1>1, <1>2, <2>1 DEF Judged
  <2>3. IsFiniteSet(at[o] .. Len(records))
    <3>1. at[o] \in Int /\ Len(records) \in Int
      BY <1>1, <1>2
    <3> HIDE DEF records
    <3> QED
      BY <3>1, FS_Interval
  <2>4. Issuer \in Surjection(at[o] .. Len(records), Revokers(o))
    BY <2>1 DEF Surjection
  <2>5. IsFiniteSet(Revokers(o))
    <3> HIDE DEF Issuer
    <3> QED
      BY <2>3, <2>4, FS_Surjection
  <2> QED
    BY <2>2, <2>5, FS_CardinalityType
<1> QED
  BY <1>3, <1>4

(* What remains to a lookup: the least of three meters. *)
LEMMA RemainingInLookupFacts ==
  ASSUME RequestTypeOK, MetersBalance, NEW o \in Op, pc[o] # "idle"
  PROVE  /\ RemainingInLookup(o) \in Nat
         /\ RemainingInLookup(o) <= Remaining(o) /\ RemainingInLookup(o) <= allowance[o]
         /\ RemainingInLookup(o) = Remaining(o) \/ RemainingInLookup(o) = allowance[o]
<1>1. Remaining(o) \in Nat /\ allowance[o] \in Nat
  BY RemainingFacts DEF RequestTypeOK, LookupTypeOK
<1> QED
  BY <1>1, MinOfTwo DEF RemainingInLookup

(* The lookups of the others are let alone. *)
OthersKeep(o) ==
    \A x \in Op \ {o} : /\ at'[x] = at[x] /\ pending'[x] = pending[x]
                        /\ revoker'[x] = revoker[x] /\ allowance'[x] = allowance[x]

(* A step that leaves every lookup where it is keeps their types. *)
LEMMA LookupsStay ==
  ASSUME RequestTypeOK, NEW o \in Op, NEW place, pc' = [pc EXCEPT ![o] = place],
         place \in {"candidate", "judge"} => pc[o] \in {"candidate", "judge"},
         UNCHANGED <<call, at, pending, revoker, allowance>>
  PROVE  LookupTypeOK' /\ OthersKeep(o)
<1>1. OthersKeep(o)
  BY DEF OthersKeep
<1>2. ASSUME NEW x \in Op PROVE PlaceTyped(x)'
  <2>1. PlaceTyped(x) /\ (pc'[x] \in {"candidate", "judge"} => pc[x] \in {"candidate", "judge"})
    BY DEF RequestTypeOK, LookupTypeOK
  <2> QED
    BY <2>1 DEF PlaceTyped
<1>3. LookupTypeOK'
  BY <1>2 DEF RequestTypeOK, LookupTypeOK
<1> QED
  BY <1>1, <1>3

(* A step that asks nothing of a view: what it has in common with the others. *)
Quiet(o, place, reason, cost) ==
    /\ ~Asks(o) /\ Running(o)
    /\ cost <= Remaining(o) /\ Charge(o, cost)
    /\ pc' = [pc EXCEPT ![o] = place]
    /\ verdict' = [verdict EXCEPT ![o] = reason]
    /\ reason = "too_expensive" =>
          \/ verdict[o] = reason
          \/ place = "done" /\ (cost = Remaining(o) \/ allowance'[o] = 0)
    /\ LookupTypeOK' /\ OthersKeep(o)
    /\ UNCHANGED <<call, heard, ceiling, memo, answered, met>>

QuietStep(o) ==
    \E place \in Places \ {"idle"}, reason \in Verdicts, cost \in Nat : Quiet(o, place, reason, cost)

(* Leaving the meters alone is a charge of nothing. *)
LEMMA FreeOfCharge ==
  ASSUME RequestTypeOK, MetersBalance, NEW o \in Op, pc[o] # "idle", UNCHANGED meters
  PROVE  0 <= Remaining(o) /\ Charge(o, 0)
<1>1. 0 <= Remaining(o)
  BY RemainingFacts
<1>2. local[o] \in Int /\ spent[o] \in Int /\ outer \in Int
  BY DEF RequestTypeOK
<1>3. local[o] - 0 = local[o] /\ spent[o] + 0 = spent[o] /\ outer - 0 = outer
  BY <1>2
<1>4. local = [local EXCEPT ![o] = local[o]] /\ spent = [spent EXCEPT ![o] = spent[o]]
  BY DEF RequestTypeOK
<1> QED
  BY <1>1, <1>3, <1>4 DEF Charge, meters

(* GoTo leaves the verdict alone. *)
LEMMA VerdictStays ==
  ASSUME RequestTypeOK, NEW o \in Op, NEW place, GoTo(o, place)
  PROVE  /\ verdict[o] \in Verdicts
         /\ verdict' = [verdict EXCEPT ![o] = verdict[o]]
  BY DEF RequestTypeOK, GoTo

(* The steps of a lookup keep the types of lookups. *)
LEMMA QuietLookups ==
  ASSUME RequestTypeOK, MetersBalance, NEW o \in Op,
         \/ CheckEdge(o) \/ CheckSignature(o) \/ UnknownAnchor(o) \/ Lookup(o)
         \/ NextCandidate(o) \/ JudgeCandidate(o) \/ SkipUnanchored(o) \/ NotRevoked(o)
  PROVE  LookupTypeOK' /\ OthersKeep(o)
<1> USE DEF Stays
<1>1. CASE CheckEdge(o) \/ CheckSignature(o) \/ UnknownAnchor(o) \/ SkipUnanchored(o)
  <2>1. /\ UNCHANGED <<call, at, pending, revoker, allowance>>
        /\ \E place \in {"issuer", "revocations", "candidates", "done"} : pc' = [pc EXCEPT ![o] = place]
    BY <1>1 DEF CheckEdge, CheckSignature, UnknownAnchor, SkipUnanchored, RunsOut, GoTo, Return, lookup
  <2> QED
    BY <2>1, LookupsStay
<1>2. CASE Lookup(o)
  <2>1. /\ UNCHANGED <<call, at, revoker, allowance>>
        /\ \E place \in {"candidates", "done"} : pc' = [pc EXCEPT ![o] = place]
        /\ \E n \in Nat : pending' = [pending EXCEPT ![o] = n]
    <3>1. \A n \in 0 .. Cardinality(Revokers(o)) : n \in Nat
      BY RevokersTyped
    <3>2. \E n \in Nat : pending' = [pending EXCEPT ![o] = n]
      <4>1. CASE \E n \in 0 .. Cardinality(Revokers(o)) : pending' = [pending EXCEPT ![o] = n]
        BY <3>1, <4>1
      <4>2. CASE UNCHANGED pending
        <5>1. pending[o] \in Nat /\ pending' = [pending EXCEPT ![o] = pending[o]]
          BY <4>2 DEF RequestTypeOK, LookupTypeOK
        <5> QED
          BY <5>1
      <4> QED
        BY <1>2, <4>1, <4>2 DEF Lookup
    <3> QED
      BY <1>2, <3>2 DEF Lookup, GoTo, Return
  <2>2. \A x \in Op : PlaceTyped(x)'
    BY <2>1 DEF RequestTypeOK, LookupTypeOK, PlaceTyped
  <2> QED
    BY <2>1, <2>2 DEF RequestTypeOK, LookupTypeOK, OthersKeep
<1>3. CASE NextCandidate(o)
  <2>1. /\ UNCHANGED <<call, at, allowance>>
        /\ pending' = [pending EXCEPT ![o] = @ - 1] /\ pending[o] > 0
        /\ \/ /\ pc' = [pc EXCEPT ![o] = "candidate"]
              /\ \E p \in Participant : revoker' = [revoker EXCEPT ![o] = p]
           \/ pc' = [pc EXCEPT ![o] = "candidates"] /\ UNCHANGED revoker
    <3>1. Revokers(o) \subseteq Participant
      BY RevokersTyped
    <3> QED
      BY <1>3, <3>1 DEF NextCandidate, GoTo
  <2>2. ASSUME NEW x \in Op PROVE PlaceTyped(x)'
    BY <2>1 DEF RequestTypeOK, LookupTypeOK, PlaceTyped
  <2>3. pending' \in [Op -> Nat]
    <3>1. pending[o] - 1 \in Nat
      BY <2>1 DEF RequestTypeOK, LookupTypeOK
    <3> QED
      BY <2>1, <3>1 DEF RequestTypeOK, LookupTypeOK
  <2> QED
    BY <2>1, <2>2, <2>3 DEF RequestTypeOK, LookupTypeOK, OthersKeep
<1>4. CASE JudgeCandidate(o)
  <2>1. /\ UNCHANGED <<call, at, pending, revoker>>
        /\ \E place \in {"candidates", "done"} : pc' = [pc EXCEPT ![o] = place]
    BY <1>4 DEF JudgeCandidate, GoTo, Return
  <2>2. \E cost \in Nat : cost <= allowance[o] /\ allowance' = [allowance EXCEPT ![o] = @ - cost]
    <3>1. RemainingInLookup(o) \in Nat /\ RemainingInLookup(o) <= allowance[o] /\ allowance[o] \in Nat
      BY <1>4, RemainingInLookupFacts DEF JudgeCandidate, RequestTypeOK, LookupTypeOK
    <3>2. MaxKeys \in Nat
      BY CostsAreNat
    <3> QED
      BY <1>4, <3>1, <3>2 DEF JudgeCandidate, Draw
  <2>3. \A x \in Op : PlaceTyped(x)'
    BY <2>1 DEF RequestTypeOK, LookupTypeOK, PlaceTyped
  <2>4. allowance' \in [Op -> Nat]
    <3>1. PICK cost \in Nat : cost <= allowance[o] /\ allowance' = [allowance EXCEPT ![o] = @ - cost]
      BY <2>2
    <3>2. allowance[o] - cost \in Nat
      BY <3>1 DEF RequestTypeOK, LookupTypeOK
    <3> QED
      BY <3>1, <3>2 DEF RequestTypeOK, LookupTypeOK
  <2> QED
    BY <2>1, <2>2, <2>3, <2>4 DEF RequestTypeOK, LookupTypeOK, OthersKeep
<1>5. CASE NotRevoked(o)
  <2>1. /\ UNCHANGED <<call, pending, revoker>>
        /\ \E place \in {"issuer", "done"} : pc' = [pc EXCEPT ![o] = place]
        /\ allowance' = [allowance EXCEPT ![o] = CandidateAllowance]
        /\ \/ UNCHANGED at
           \/ at[o] # Len(call[o].records) /\ at' = [at EXCEPT ![o] = @ + 1]
    BY <1>5 DEF NotRevoked, GoTo, Return
  <2>2. at[o] \in 1 .. Len(call[o].records) /\ Len(call[o].records) \in Nat
    BY CallTyped
  <2>3. at' \in [Op -> Nat] /\ at'[o] \in 1 .. Len(call[o].records)
    <3>1. CASE UNCHANGED at
      BY <2>2, <3>1 DEF RequestTypeOK, LookupTypeOK
    <3>2. CASE at[o] # Len(call[o].records) /\ at' = [at EXCEPT ![o] = @ + 1]
      <4> DEFINE n == Len(call[o].records)
      <4>1. at \in [Op -> Nat] /\ n \in Nat /\ at[o] \in 1 .. n /\ at[o] # n
        BY <2>2, <3>2 DEF RequestTypeOK, LookupTypeOK
      <4> HIDE DEF n
      <4>2. at[o] + 1 \in Nat /\ at[o] + 1 \in 1 .. n
        BY <4>1
      <4>3. at' \in [Op -> Nat] /\ at'[o] \in 1 .. n
        BY <3>2, <4>1, <4>2
      <4> QED
        BY <4>3 DEF n
    <3> QED
      BY <2>1, <3>1, <3>2
  <2>4. ASSUME NEW x \in Op PROVE PlaceTyped(x)'
    <3>1. CASE x = o
      BY <2>1, <2>3, <3>1 DEF RequestTypeOK, LookupTypeOK, PlaceTyped
    <3>2. CASE x # o
      BY <2>1, <3>2 DEF RequestTypeOK, LookupTypeOK, PlaceTyped
    <3> QED
      BY <3>1, <3>2
  <2>5. CandidateAllowance \in Nat
    BY RequestContextAssumption DEF CandidateAllowance
  <2>6. LookupTypeOK'
    BY <2>1, <2>3, <2>4, <2>5 DEF RequestTypeOK, LookupTypeOK
  <2>7. OthersKeep(o)
    BY <2>1 DEF RequestTypeOK, LookupTypeOK, OthersKeep
  <2> QED
    BY <2>6, <2>7
<1> QED
  BY <1>1, <1>2, <1>3, <1>4, <1>5

(* The steps between the awaits of signerStates are quiet. *)
LEMMA QuietSteps ==
  ASSUME RequestTypeOK, MetersBalance, NEW o \in Op,
         \/ CheckEdge(o) \/ CheckSignature(o) \/ UnknownAnchor(o) \/ Lookup(o)
         \/ NextCandidate(o) \/ JudgeCandidate(o) \/ SkipUnanchored(o) \/ NotRevoked(o)
  PROVE  QuietStep(o)
<1>1. Running(o) /\ ~Asks(o) /\ pc[o] # "idle" /\ Stays
  BY DEF Running, Asks, CheckEdge, CheckSignature, UnknownAnchor, Lookup, NextCandidate,
         JudgeCandidate, SkipUnanchored, NotRevoked
<1>2. LookupTypeOK' /\ OthersKeep(o)
  BY QuietLookups
<1>3. \/ \E cost \in Nat : RunsOut(o, cost)
      \/ \E cost \in Nat : /\ cost <= Remaining(o) /\ Charge(o, cost)
                           /\ (cost = Remaining(o) \/ allowance'[o] = 0)
                           /\ Return(o, "too_expensive")
      \/ /\ \E cost \in Nat : cost <= Remaining(o) /\ Charge(o, cost)
         /\ \/ \E place \in Places \ {"idle"} : GoTo(o, place)
            \/ \E reason \in Verdicts \ {"too_expensive"} : Return(o, reason)
  <2> USE DEF Places, Verdicts, Results
  <2>1. CASE \/ CheckEdge(o) \/ UnknownAnchor(o) \/ Lookup(o) \/ NextCandidate(o)
             \/ SkipUnanchored(o) \/ NotRevoked(o)
    <3>1. UNCHANGED meters
      BY <2>1 DEF CheckEdge, UnknownAnchor, Lookup, NextCandidate, SkipUnanchored, NotRevoked
    <3>2. \E cost \in Nat : cost <= Remaining(o) /\ Charge(o, cost)
      BY <1>1, <3>1, FreeOfCharge
    <3>3. \/ \E place \in Places \ {"idle"} : GoTo(o, place)
          \/ \E reason \in Verdicts \ {"too_expensive"} : Return(o, reason)
      BY <2>1 DEF CheckEdge, UnknownAnchor, Lookup, NextCandidate, SkipUnanchored, NotRevoked
    <3> QED
      BY <3>2, <3>3
  <2>2. CASE CheckSignature(o)
    BY <2>2, CostsAreNat DEF CheckSignature, Paid
  <2>3. CASE JudgeCandidate(o)
    <3>1. /\ RemainingInLookup(o) \in Nat /\ RemainingInLookup(o) <= Remaining(o)
          /\ RemainingInLookup(o) = Remaining(o) \/ RemainingInLookup(o) = allowance[o]
          /\ Remaining(o) \in Nat
      BY <1>1, RemainingInLookupFacts, RemainingFacts
    <3>2. MaxKeys \in Nat
      BY CostsAreNat
    <3>3. CASE MaxKeys > RemainingInLookup(o)
      <4>1. Draw(o, RemainingInLookup(o)) /\ Return(o, "too_expensive")
        BY <2>3, <3>3 DEF JudgeCandidate
      <4>2. RemainingInLookup(o) = Remaining(o) \/ allowance'[o] = 0
        BY <3>1, <4>1 DEF Draw, RequestTypeOK, LookupTypeOK
      <4> QED
        BY <3>1, <4>1, <4>2 DEF Draw
    <3>4. CASE ~(MaxKeys > RemainingInLookup(o))
      <4>1. Draw(o, MaxKeys) /\ (Return(o, "revoked") \/ GoTo(o, "candidates"))
        BY <2>3, <3>4 DEF JudgeCandidate
      <4>2. MaxKeys <= Remaining(o) /\ Charge(o, MaxKeys)
        BY <3>1, <3>2, <3>4, <4>1 DEF Draw
      <4> QED
        BY <3>2, <4>1, <4>2
    <3> QED
      BY <3>3, <3>4
  <2> QED
    BY <2>1, <2>2, <2>3
<1>4. CASE \E cost \in Nat : /\ cost <= Remaining(o) /\ Charge(o, cost)
                            /\ (cost = Remaining(o) \/ allowance'[o] = 0)
                            /\ Return(o, "too_expensive")
  <2>1. PICK cost \in Nat : /\ cost <= Remaining(o) /\ Charge(o, cost)
                            /\ (cost = Remaining(o) \/ allowance'[o] = 0)
                            /\ Return(o, "too_expensive")
    BY <1>4
  <2>2. Quiet(o, "done", "too_expensive", cost)
    BY <1>1, <1>2, <2>1 DEF Quiet, Return, Stays
  <2> QED
    BY <2>2 DEF QuietStep, Places, Verdicts, Results
<1>5. CASE \E cost \in Nat : RunsOut(o, cost)
  <2>1. Remaining(o) \in Nat
    BY <1>1, RemainingFacts
  <2>2. Charge(o, Remaining(o)) /\ Return(o, "too_expensive") /\ Remaining(o) <= Remaining(o)
    BY <1>5, <2>1 DEF RunsOut
  <2> QED
    BY <1>4, <2>1, <2>2
<1>6. CASE /\ \E cost \in Nat : cost <= Remaining(o) /\ Charge(o, cost)
           /\ \E place \in Places \ {"idle"} : GoTo(o, place)
  <2>1. PICK cost \in Nat : cost <= Remaining(o) /\ Charge(o, cost)
    BY <1>6
  <2>2. PICK place \in Places \ {"idle"} : GoTo(o, place)
    BY <1>6
  <2>3. Quiet(o, place, verdict[o], cost) /\ verdict[o] \in Verdicts
    BY <1>1, <1>2, <2>1, <2>2, VerdictStays DEF Quiet, GoTo, Stays
  <2> QED
    BY <2>3 DEF QuietStep
<1>7. CASE /\ \E cost \in Nat : cost <= Remaining(o) /\ Charge(o, cost)
           /\ \E reason \in Verdicts \ {"too_expensive"} : Return(o, reason)
  <2>1. PICK cost \in Nat : cost <= Remaining(o) /\ Charge(o, cost)
    BY <1>7
  <2>2. PICK reason \in Verdicts \ {"too_expensive"} : Return(o, reason)
    BY <1>7
  <2>3. Quiet(o, "done", reason, cost)
    BY <1>1, <1>2, <2>1, <2>2 DEF Quiet, Return, Stays
  <2> QED
    BY <2>3 DEF QuietStep, Places
<1> QED
  BY <1>3, <1>4, <1>5, <1>6, <1>7

(* Types and balance are preserved: by the quiet steps and by each of the *)
(* others.                                                                *)
LEMMA QuietKeepsTypes ==
  ASSUME RequestTypeOK, MetersBalance, NEW o \in Op, QuietStep(o)
  PROVE  RequestTypeOK' /\ MetersBalance'
<1>1. PICK place \in Places \ {"idle"}, reason \in Verdicts, cost \in Nat : Quiet(o, place, reason, cost)
  BY DEF QuietStep
<1>2. pc[o] # "idle"
  BY <1>1 DEF Quiet, Running
<1>3. MetersBalance'
  BY <1>1, <1>2, ChargeKeepsBalance DEF Quiet
<1>4. RequestTypeOK'
  BY <1>1 DEF RequestTypeOK, Quiet, Charge
<1> QED
  BY <1>3, <1>4

LEMMA BeginKeepsTypes ==
  ASSUME RequestTypeOK, MetersBalance, NEW o \in Op, Begin(o)
  PROVE  RequestTypeOK' /\ MetersBalance'
<1>1. LocalCeiling[call[o].view] \in Nat
  BY CallTyped, RequestContextAssumption DEF Call
<1>2. /\ \E place \in Places \ {"idle"} : pc' = [pc EXCEPT ![o] = place]
      /\ \E reason \in Verdicts : verdict' = [verdict EXCEPT ![o] = reason]
  <2>1. CASE \E place \in {"agent", "issuer"} : GoTo(o, place)
    BY <2>1, VerdictStays DEF GoTo, Places
  <2>2. CASE Return(o, "expired")
    BY <2>2 DEF Return, Places, Verdicts
  <2> QED
    BY <2>1, <2>2 DEF Begin
<1>5. LookupTypeOK'
  <2>1. \E place \in {"agent", "issuer", "done"} : pc' = [pc EXCEPT ![o] = place]
    BY DEF Begin, GoTo, Return
  <2>2. UNCHANGED <<call, at, pending, revoker, allowance>>
    BY DEF Begin, lookup
  <2> QED
    BY <2>1, <2>2, LookupsStay
<1>3. RequestTypeOK'
  BY <1>1, <1>2, <1>5 DEF RequestTypeOK, Begin
<1>4. MetersBalance'
  BY <1>1, <1>2 DEF RequestTypeOK, MetersBalance, Begin
<1> QED
  BY <1>3, <1>4

(* A memo entry is no promise, or somebody's with a result. *)
LEMMA EntryTyped ==
  ASSUME RequestTypeOK, NEW v \in View, NEW p \in Participant
  PROVE  memo[v][p] = NoPromise \/
            \E o \in Op, result \in {"waiting"} \cup Results :
               Holds(v, p, o, result) /\ memo[v][p].by = o /\ memo[v][p].result = result
<1> SUFFICES ASSUME memo[v][p] # NoPromise
             PROVE  \E o \in Op, result \in {"waiting"} \cup Results :
                       Holds(v, p, o, result) /\ memo[v][p].by = o /\ memo[v][p].result = result
  OBVIOUS
<1>1. memo[v][p] \in [by : Op, result : {"waiting"} \cup Results]
  BY DEF RequestTypeOK, Promise
<1>2. memo[v][p] = [by |-> memo[v][p].by, result |-> memo[v][p].result]
  BY <1>1
<1> QED
  BY <1>1, <1>2 DEF Holds

LEMMA AskKeepsTypes ==
  ASSUME RequestTypeOK, MetersBalance, NEW o \in Op, Ask(o)
  PROVE  RequestTypeOK' /\ MetersBalance'
<1>1. MetersBalance' /\ UNCHANGED <<call, pc, verdict, ceiling, outer, local, spent, answered, met>>
  BY DEF Ask, meters, MetersBalance
<1>2. Cache(o) \in View /\ Asked(o) \in Participant
  BY CallTyped
<1>3. heard' \in [Op -> {"nothing", "waiting"} \cup Results]
  BY <1>2, EntryTyped DEF Ask, Entry, RequestTypeOK
<1>4. memo' \in [View -> [Participant -> {NoPromise} \cup Promise]]
  <2>1. [by |-> o, result |-> "waiting"] \in Promise
    BY DEF Promise
  <2>2. CASE memo' = memo
    BY <2>2 DEF RequestTypeOK
  <2>3. CASE memo' = [memo EXCEPT ![Cache(o)][Asked(o)] = [by |-> o, result |-> "waiting"]]
    BY <1>2, <2>1, <2>3 DEF RequestTypeOK
  <2> QED
    BY <2>2, <2>3 DEF Ask
<1>5. LookupTypeOK'
  <2>1. UNCHANGED <<call, at, pending, revoker, allowance>> /\ pc' = [pc EXCEPT ![o] = pc[o]]
    BY DEF Ask, lookup, RequestTypeOK
  <2> QED
    BY <2>1, LookupsStay
<1> QED
  BY <1>1, <1>3, <1>4, <1>5 DEF RequestTypeOK

LEMMA ResumeKeepsTypes ==
  ASSUME RequestTypeOK, MetersBalance, NEW o \in Op, Resume(o)
  PROVE  RequestTypeOK' /\ MetersBalance'
<1>1. UNCHANGED <<call, ceiling, outer, local, spent, answered, met>>
  BY DEF Resume, meters
<1>2. /\ \E place \in Places \ {"idle"} : pc' = [pc EXCEPT ![o] = place]
      /\ \E reason \in Verdicts : verdict' = [verdict EXCEPT ![o] = reason]
  <2>1. CASE \E place \in {"edge", "signature", "judge", "candidates"} : GoTo(o, place)
    BY <2>1, VerdictStays DEF GoTo, Places
  <2>2. CASE Return(o, heard[o])
    BY <2>2 DEF Resume, Return, Places, Verdicts
  <2> QED
    BY <2>1, <2>2 DEF Resume, Asks, OnwardsFrom
<1>3. heard' \in [Op -> {"nothing", "waiting"} \cup Results]
  BY DEF Resume, RequestTypeOK
<1>4. memo' \in [View -> [Participant -> {NoPromise} \cup Promise]]
  BY CallTyped DEF Resume, Forget, RequestTypeOK
<1>7. LookupTypeOK'
  <2>1. UNCHANGED <<call, at, pending, revoker, allowance>>
    BY DEF Resume, lookup
  <2>2. \E place : /\ pc' = [pc EXCEPT ![o] = place]
                   /\ place \in {"candidate", "judge"} => pc[o] = "candidate"
    BY DEF Resume, GoTo, Return, OnwardsFrom, Asks
  <2> QED
    BY <2>1, <2>2, LookupsStay
<1>5. RequestTypeOK'
  BY <1>1, <1>2, <1>3, <1>4, <1>7 DEF RequestTypeOK
<1>6. MetersBalance'
  <2>1. pc[o] # "idle"
    BY DEF Resume, Asks
  <2> QED
    BY <1>1, <1>2, <2>1 DEF MetersBalance, RequestTypeOK
<1> QED
  BY <1>5, <1>6

(* What the view's answer comes to. *)
LEMMA SettleFacts ==
  ASSUME RequestTypeOK, MetersBalance, NEW o \in Op, Settle(o)
  PROVE  \E answer \in Answers, result \in Results, cost \in Nat :
            /\ cost <= Remaining(o) /\ Charge(o, cost)
            /\ memo' = [memo EXCEPT ![Cache(o)][Asked(o)] = [by |-> o, result |-> result]]
            /\ heard' = [x \in Op |-> IF x \in Awaiting(o) THEN result ELSE heard[x]]
            /\ answered' = [answered EXCEPT ![Cache(o)][Asked(o)] = @ \cup {answer}]
            /\ result = "own" => answer = "own"
            /\ result = "too_expensive" => cost = Remaining(o)
<1>1. PICK answer \in KeyLogAnswers(call[o].view) :
          LET affordable == ReplayCost(Asked(o), answer) <= Remaining(o)
              result == IF affordable THEN ResultOf(answer) ELSE "too_expensive"
          IN  /\ Charge(o, IF affordable THEN ReplayCost(Asked(o), answer) ELSE Remaining(o))
              /\ memo' = [memo EXCEPT ![Cache(o)][Asked(o)].result = result]
              /\ heard' = [x \in Op |-> IF x \in Awaiting(o) THEN result ELSE heard[x]]
              /\ answered' = [answered EXCEPT ![call[o].view][Asked(o)] = @ \cup {answer}]
  BY DEF Settle
<1>2. answer \in Answers
  BY <1>1 DEF KeyLogAnswers, Answers
<1>3. ResultOf(answer) \in Results \ {"too_expensive"} /\ (ResultOf(answer) = "own" => answer = "own")
  BY <1>2 DEF Answers, ResultOf, Results
<1>4. ReplayCost(Asked(o), answer) \in Nat
  BY CostsAreNat
<1>5. Remaining(o) \in Nat
  BY RemainingFacts DEF Settle, Asks
<1>6. Cache(o) \in View /\ Asked(o) \in Participant /\ memo[Cache(o)][Asked(o)] = [by |-> o, result |-> "waiting"]
  BY CallTyped DEF Settle, Entry
<1>7. ASSUME NEW result
      PROVE  [memo EXCEPT ![Cache(o)][Asked(o)].result = result]
             = [memo EXCEPT ![Cache(o)][Asked(o)] = [by |-> o, result |-> result]]
  <2>1. [memo[Cache(o)][Asked(o)] EXCEPT !.result = result] = [by |-> o, result |-> result]
    BY <1>6
  <2> QED
    BY <2>1
<1>8. CASE ReplayCost(Asked(o), answer) <= Remaining(o)
  <2> DEFINE result == ResultOf(answer)
             cost == ReplayCost(Asked(o), answer)
  <2>1. /\ cost <= Remaining(o) /\ Charge(o, cost)
        /\ memo' = [memo EXCEPT ![Cache(o)][Asked(o)] = [by |-> o, result |-> result]]
        /\ heard' = [x \in Op |-> IF x \in Awaiting(o) THEN result ELSE heard[x]]
        /\ answered' = [answered EXCEPT ![Cache(o)][Asked(o)] = @ \cup {answer}]
    BY <1>1, <1>7, <1>8 DEF Cache
  <2>2. /\ cost \in Nat /\ result \in Results
        /\ result = "own" => answer = "own"
        /\ result # "too_expensive"
    BY <1>3, <1>4
  <2> HIDE DEF result, cost
  <2> QED
    BY <1>2, <2>1, <2>2
<1>9. CASE ~(ReplayCost(Asked(o), answer) <= Remaining(o))
  <2>1. /\ Charge(o, Remaining(o))
        /\ memo' = [memo EXCEPT ![Cache(o)][Asked(o)] = [by |-> o, result |-> "too_expensive"]]
        /\ heard' = [x \in Op |-> IF x \in Awaiting(o) THEN "too_expensive" ELSE heard[x]]
        /\ answered' = [answered EXCEPT ![Cache(o)][Asked(o)] = @ \cup {answer}]
    BY <1>1, <1>7, <1>9 DEF Cache
  <2>2. "too_expensive" \in Results /\ Remaining(o) <= Remaining(o)
    BY <1>5 DEF Results
  <2> QED
    BY <1>2, <1>5, <2>1, <2>2
<1> QED
  BY <1>8, <1>9

LEMMA SettleKeepsTypes ==
  ASSUME RequestTypeOK, MetersBalance, NEW o \in Op, Settle(o)
  PROVE  RequestTypeOK' /\ MetersBalance'
<1>1. PICK answer \in Answers, result \in Results, cost \in Nat :
            /\ cost <= Remaining(o) /\ Charge(o, cost)
            /\ memo' = [memo EXCEPT ![Cache(o)][Asked(o)] = [by |-> o, result |-> result]]
            /\ heard' = [x \in Op |-> IF x \in Awaiting(o) THEN result ELSE heard[x]]
            /\ answered' = [answered EXCEPT ![Cache(o)][Asked(o)] = @ \cup {answer}]
  BY SettleFacts
<1>2. UNCHANGED <<call, pc, verdict, ceiling, met>> /\ pc[o] # "idle"
  BY DEF Settle, Asks
<1>3. pc' = [pc EXCEPT ![o] = pc[o]]
  BY <1>2 DEF RequestTypeOK
<1>4. MetersBalance'
  BY <1>1, <1>2, <1>3, ChargeKeepsBalance
<1>5. Cache(o) \in View /\ Asked(o) \in Participant /\ [by |-> o, result |-> result] \in Promise
  BY CallTyped DEF Promise
<1>6. RequestTypeOK'
  <2>1. memo' \in [View -> [Participant -> {NoPromise} \cup Promise]]
    BY <1>1, <1>5 DEF RequestTypeOK
  <2>2. answered' \in [View -> [Participant -> SUBSET Answers]]
    BY <1>1, <1>5 DEF RequestTypeOK
  <2>3. /\ heard' \in [Op -> {"nothing", "waiting"} \cup Results]
        /\ local' \in [Op -> Int] /\ spent' \in [Op -> Int] /\ outer' \in Int
    BY <1>1 DEF RequestTypeOK, Charge
  <2>4. LookupTypeOK'
    <3>1. UNCHANGED <<call, at, pending, revoker, allowance>>
      BY DEF Settle, lookup
    <3> QED
      BY <1>3, <3>1, LookupsStay
  <2> QED
    BY <1>2, <2>1, <2>2, <2>3, <2>4 DEF RequestTypeOK
<1> QED
  BY <1>4, <1>6

(* The promises are kept by the steps that leave the memo alone. *)
LEMMA QuietKeepsPromises ==
  ASSUME RequestTypeOK, PromisesAreKept, NEW o \in Op, NEW place, ~Asks(o),
         pc' = [pc EXCEPT ![o] = place], OthersKeep(o), UNCHANGED <<call, heard, memo, answered>>
  PROVE  PromisesAreKept'
<1>1. heard[o] = "nothing"
  BY DEF PromisesAreKept
<1>2. ASSUME NEW x \in Op
      PROVE  /\ Cache(x)' = Cache(x) /\ heard'[x] = heard[x]
             /\ Asks(x) => Asks(x)' /\ Asked(x)' = Asked(x)
             /\ Asks(x)' => Asks(x) \/ x = o
  BY DEF Asks, Cache, Asked, Judged, OthersKeep, RequestTypeOK
<1>3. heard'[o] = "nothing"
  BY <1>1, <1>2
<1>4. ASSUME NEW x \in Op, ~Asks(x)' PROVE heard'[x] = "nothing"
  BY <1>2, <1>4 DEF PromisesAreKept
<1>5. ASSUME NEW x \in Op, heard'[x] = "own" PROVE Resolved(Cache(x), Asked(x))'
  <2>1. heard[x] = "own" /\ Asks(x)
    BY <1>2, <1>5 DEF PromisesAreKept
  <2>2. Resolved(Cache(x), Asked(x))
    BY <2>1 DEF PromisesAreKept
  <2> QED
    BY <1>2, <2>1, <2>2 DEF Resolved, Holds
<1>6. ASSUME NEW v \in View, NEW p \in Participant, NEW x \in Op,
             NEW result \in {"waiting"} \cup Results, Holds(v, p, x, result)'
      PROVE  IF result = "own"
             THEN "own" \in answered'[v][p] /\ (AsksFor(x, v, p)' => heard'[x] \in {"nothing", "own"})
             ELSE AsksFor(x, v, p)' /\ heard'[x] = result
  <2>1. Holds(v, p, x, result)
    BY <1>6 DEF Holds
  <2>2. CASE result = "own"
    <3>1. "own" \in answered[v][p] /\ (AsksFor(x, v, p) => heard[x] \in {"nothing", "own"})
      BY <2>1, <2>2 DEF PromisesAreKept
    <3>2. AsksFor(x, v, p)' => AsksFor(x, v, p) \/ x = o
      BY <1>2 DEF AsksFor
    <3> QED
      BY <1>2, <1>3, <2>2, <3>1, <3>2
  <2>3. CASE result # "own"
    <3>1. AsksFor(x, v, p) /\ heard[x] = result
      BY <2>1, <2>3 DEF PromisesAreKept
    <3> QED
      BY <1>2, <2>3, <3>1 DEF AsksFor
  <2> QED
    BY <2>2, <2>3
<1> QED
  BY <1>4, <1>5, <1>6 DEF PromisesAreKept

(* Ask keeps them: a new promise is its maker's, and who finds a settled one *)
(* hears what its maker heard.                                               *)
LEMMA AskKeepsPromises ==
  ASSUME RequestTypeOK, PromisesAreKept, NEW o \in Op, Ask(o)
  PROVE  PromisesAreKept'
<1> DEFINE v0 == Cache(o)
           p0 == Asked(o)
<1>1. v0 \in View /\ p0 \in Participant /\ Asks(o) /\ heard[o] = "nothing" /\ AsksFor(o, v0, p0)
  BY CallTyped DEF Ask, AsksFor
<1>2. UNCHANGED <<call, pc, at, revoker, answered>>
  BY DEF Ask, lookup
<1>3. ASSUME NEW x \in Op
      PROVE  Asks(x)' = Asks(x) /\ Cache(x)' = Cache(x) /\ Asked(x)' = Asked(x)
  BY <1>2 DEF Asks, Cache, Asked, Judged
<1>7. ASSUME NEW x \in Op, NEW v, NEW p
      PROVE  AsksFor(x, v, p)' <=> AsksFor(x, v, p)
  BY <1>2 DEF Asks, Cache, Asked, Judged, AsksFor
<1>4. \A x \in Op : x # o => heard'[x] = heard[x]
  BY DEF Ask, RequestTypeOK
<1>5. CASE Entry(o) = NoPromise
  <2>1. /\ memo' = [memo EXCEPT ![v0][p0] = [by |-> o, result |-> "waiting"]]
        /\ heard'[o] = "waiting"
    BY <1>5 DEF Ask, RequestTypeOK
  <2>2. /\ memo'[v0][p0] = [by |-> o, result |-> "waiting"]
        /\ \A v \in View, p \in Participant : <<v, p>> # <<v0, p0>> => memo'[v][p] = memo[v][p]
    BY <1>1, <2>1 DEF RequestTypeOK
  <2> HIDE DEF v0, p0
  <2>3. ASSUME NEW v \in View, NEW p \in Participant, NEW x \in Op,
               NEW result \in {"waiting"} \cup Results, Holds(v, p, x, result)'
        PROVE  IF result = "own"
               THEN "own" \in answered'[v][p] /\ (AsksFor(x, v, p)' => heard'[x] \in {"nothing", "own"})
               ELSE AsksFor(x, v, p)' /\ heard'[x] = result
    <3>3. AsksFor(x, v, p)' <=> AsksFor(x, v, p)
      BY <1>7
    <3>1. CASE v = v0 /\ p = p0
      <4>1. [by |-> o, result |-> "waiting"] = [by |-> x, result |-> result]
        BY <2>2, <2>3, <3>1 DEF Holds
      <4>2. x = o /\ result = "waiting"
        BY <4>1
      <4> QED
        BY <1>1, <2>1, <3>1, <3>3, <4>2
    <3>2. CASE ~(v = v0 /\ p = p0)
      <4>1. Holds(v, p, x, result)
        BY <2>2, <2>3, <3>2 DEF Holds
      <4>2. ~AsksFor(o, v, p)
        BY <1>1, <3>2 DEF AsksFor
      <4> QED
        BY <1>2, <1>4, <3>3, <4>1, <4>2 DEF PromisesAreKept
    <3> QED
      BY <3>1, <3>2
  <2>4. ASSUME NEW x \in Op, heard'[x] = "own" PROVE Resolved(Cache(x), Asked(x))'
    <3>1. x # o /\ heard[x] = "own"
      BY <1>4, <2>1, <2>4
    <3>2. PICK y \in Op : Holds(Cache(x), Asked(x), y, "own")
      BY <3>1 DEF PromisesAreKept, Resolved
    <3>3. memo[v0][p0] = NoPromise /\ Cache(x) \in View /\ Asked(x) \in Participant
      BY <1>5, CallTyped DEF Entry, v0, p0
    <3>4. memo'[Cache(x)][Asked(x)] = memo[Cache(x)][Asked(x)]
      BY <2>2, <3>2, <3>3, NoPromiseIsNone DEF Holds
    <3> QED
      BY <1>3, <3>2, <3>4 DEF Resolved, Holds
  <2>5. ASSUME NEW x \in Op, ~Asks(x)' PROVE heard'[x] = "nothing"
    BY <1>1, <1>3, <1>4, <2>5 DEF PromisesAreKept
  <2> QED
    BY <2>3, <2>4, <2>5 DEF PromisesAreKept
<1>6. CASE Entry(o) # NoPromise
  <2>1. memo' = memo /\ heard'[o] = Entry(o).result
    BY <1>6 DEF Ask, RequestTypeOK
  <2>2. PICK y \in Op, r \in {"waiting"} \cup Results :
           Holds(v0, p0, y, r) /\ Entry(o).result = r
    BY <1>1, <1>6, EntryTyped DEF Entry
  <2> HIDE DEF v0, p0
  <2>3. ASSUME NEW v \in View, NEW p \in Participant, NEW x \in Op,
               NEW result \in {"waiting"} \cup Results, Holds(v, p, x, result)'
        PROVE  IF result = "own"
               THEN "own" \in answered'[v][p] /\ (AsksFor(x, v, p)' => heard'[x] \in {"nothing", "own"})
               ELSE AsksFor(x, v, p)' /\ heard'[x] = result
    <3>1. Holds(v, p, x, result)
      BY <2>1, <2>3 DEF Holds
    <3>2. /\ result = "own" => "own" \in answered[v][p]
          /\ result = "own" /\ AsksFor(x, v, p) => heard[x] \in {"nothing", "own"}
          /\ result # "own" => AsksFor(x, v, p) /\ heard[x] = result
      BY <3>1 DEF PromisesAreKept
    <3>5. AsksFor(x, v, p)' <=> AsksFor(x, v, p)
      BY <1>7
    <3>3. CASE x # o
      BY <1>2, <1>4, <3>2, <3>3, <3>5
    <3>4. CASE x = o
      <4>1. result = "own"
        BY <1>1, <3>2, <3>4 DEF Results
      <4>2. AsksFor(o, v, p) => v = v0 /\ p = p0
        BY DEF AsksFor, v0, p0
      <4>3. v = v0 /\ p = p0 => r = result
        <5> SUFFICES ASSUME v = v0, p = p0 PROVE r = result
          OBVIOUS
        <5>1. [by |-> y, result |-> r] = [by |-> x, result |-> result]
          BY <2>2, <3>1 DEF Holds
        <5> QED
          BY <5>1
      <4> QED
        BY <1>2, <2>1, <2>2, <3>2, <3>4, <3>5, <4>1, <4>2, <4>3
    <3> QED
      BY <3>3, <3>4
  <2>4. ASSUME NEW x \in Op, heard'[x] = "own" PROVE Resolved(Cache(x), Asked(x))'
    <3>1. Resolved(Cache(x), Asked(x))
      <4>1. CASE x = o
        BY <2>1, <2>2, <2>4, <4>1 DEF Resolved, v0, p0
      <4>2. CASE x # o
        BY <1>4, <2>4, <4>2 DEF PromisesAreKept
      <4> QED
        BY <4>1, <4>2
    <3> QED
      BY <1>3, <2>1, <3>1 DEF Resolved, Holds
  <2>5. ASSUME NEW x \in Op, ~Asks(x)' PROVE heard'[x] = "nothing"
    BY <1>1, <1>3, <1>4, <2>5 DEF PromisesAreKept
  <2> QED
    BY <2>3, <2>4, <2>5 DEF PromisesAreKept
<1> QED
  BY <1>5, <1>6

(* Settle keeps them: maker and waiters hear what the memo then holds. *)
LEMMA SettleKeepsPromises ==
  ASSUME RequestTypeOK, MetersBalance, PromisesAreKept, NEW o \in Op, Settle(o)
  PROVE  PromisesAreKept'
<1> DEFINE v0 == Cache(o)
           p0 == Asked(o)
<1>1. /\ v0 \in View /\ p0 \in Participant /\ Asks(o) /\ heard[o] = "waiting"
      /\ AsksFor(o, v0, p0) /\ Holds(v0, p0, o, "waiting")
  BY CallTyped DEF Settle, AsksFor, Entry, Holds
<1>2. PICK answer \in Answers, r \in Results, cost \in Nat :
            /\ memo' = [memo EXCEPT ![v0][p0] = [by |-> o, result |-> r]]
            /\ heard' = [x \in Op |-> IF x \in Awaiting(o) THEN r ELSE heard[x]]
            /\ answered' = [answered EXCEPT ![v0][p0] = @ \cup {answer}]
            /\ r = "own" => answer = "own"
  BY SettleFacts
<1>3. UNCHANGED <<call, pc, at, revoker>>
  BY DEF Settle, lookup
<1>4. ASSUME NEW x \in Op
      PROVE  Asks(x)' = Asks(x) /\ Cache(x)' = Cache(x) /\ Asked(x)' = Asked(x)
  BY <1>3 DEF Asks, Cache, Asked, Judged
<1>11. ASSUME NEW x \in Op, NEW v, NEW p
       PROVE  AsksFor(x, v, p)' <=> AsksFor(x, v, p)
  BY <1>3 DEF Asks, Cache, Asked, Judged, AsksFor
<1>5. \A x \in Op : IF x \in Awaiting(o)
                    THEN Asks(x) /\ Cache(x) = v0 /\ Asked(x) = p0 /\ heard'[x] = r
                    ELSE heard'[x] = heard[x]
  BY <1>2 DEF Awaiting, AsksFor
<1>6. o \in Awaiting(o)
  BY <1>1 DEF Awaiting
<1>7. /\ memo'[v0][p0] = [by |-> o, result |-> r]
      /\ \A v \in View, p \in Participant : <<v, p>> # <<v0, p0>> => memo'[v][p] = memo[v][p]
      /\ answer \in answered'[v0][p0]
      /\ \A v \in View, p \in Participant : answered[v][p] \subseteq answered'[v][p]
  BY <1>1, <1>2 DEF RequestTypeOK
<1> HIDE DEF v0, p0
<1>8. ASSUME NEW v \in View, NEW p \in Participant, NEW x \in Op,
             NEW result \in {"waiting"} \cup Results, Holds(v, p, x, result)'
      PROVE  IF result = "own"
             THEN "own" \in answered'[v][p] /\ (AsksFor(x, v, p)' => heard'[x] \in {"nothing", "own"})
             ELSE AsksFor(x, v, p)' /\ heard'[x] = result
  <2>3. AsksFor(x, v, p)' <=> AsksFor(x, v, p)
    BY <1>11
  <2>1. CASE v = v0 /\ p = p0
    <3>1. [by |-> o, result |-> r] = [by |-> x, result |-> result]
      BY <1>7, <1>8, <2>1 DEF Holds
    <3>2. x = o /\ result = r
      BY <3>1
    <3> QED
      BY <1>1, <1>2, <1>5, <1>6, <1>7, <2>1, <2>3, <3>2
  <2>2. CASE ~(v = v0 /\ p = p0)
    <3>1. Holds(v, p, x, result)
      BY <1>7, <1>8, <2>2 DEF Holds
    <3>2. x \in Awaiting(o) => ~AsksFor(x, v, p)
      BY <1>5, <2>2 DEF AsksFor
    <3>3. /\ result = "own" => "own" \in answered[v][p]
          /\ result = "own" /\ AsksFor(x, v, p) => heard[x] \in {"nothing", "own"}
          /\ result # "own" => AsksFor(x, v, p) /\ heard[x] = result
      BY <3>1 DEF PromisesAreKept
    <3> QED
      BY <1>5, <1>7, <2>3, <3>2, <3>3
  <2> QED
    BY <2>1, <2>2
<1>9. ASSUME NEW x \in Op, heard'[x] = "own" PROVE Resolved(Cache(x), Asked(x))'
  <2>1. CASE x \in Awaiting(o)
    <3>1. r = "own" /\ Cache(x) = v0 /\ Asked(x) = p0
      BY <1>5, <1>9, <2>1 DEF AsksFor
    <3> QED
      BY <1>4, <1>7, <3>1 DEF Resolved, Holds
  <2>2. CASE x \notin Awaiting(o)
    <3>1. PICK y \in Op : Holds(Cache(x), Asked(x), y, "own")
      BY <1>5, <1>9, <2>2 DEF PromisesAreKept, Resolved
    <3>2. Cache(x) \in View /\ Asked(x) \in Participant
      BY CallTyped
    <3>3. ~(Cache(x) = v0 /\ Asked(x) = p0)
      <4> SUFFICES ASSUME Cache(x) = v0, Asked(x) = p0 PROVE FALSE
        OBVIOUS
      <4>1. [by |-> o, result |-> "waiting"] = [by |-> y, result |-> "own"]
        BY <1>1, <3>1 DEF Holds
      <4> QED
        BY <4>1
    <3> QED
      BY <1>4, <1>7, <3>1, <3>2, <3>3 DEF Resolved, Holds
  <2> QED
    BY <2>1, <2>2
<1>10. ASSUME NEW x \in Op, ~Asks(x)' PROVE heard'[x] = "nothing"
  BY <1>4, <1>5, <1>10 DEF PromisesAreKept, AsksFor
<1> QED
  BY <1>8, <1>9, <1>10 DEF PromisesAreKept

(* Resume keeps them: a maker that leaves without a replayed log takes its *)
(* promise out of the memo.                                                *)
LEMMA ResumeKeepsPromises ==
  ASSUME RequestTypeOK, PromisesAreKept, NEW o \in Op, Resume(o)
  PROVE  PromisesAreKept'
<1> DEFINE v0 == Cache(o)
           p0 == Asked(o)
<1>1. v0 \in View /\ p0 \in Participant /\ AsksFor(o, v0, p0) /\ heard[o] \in Results
  BY CallTyped DEF Resume, AsksFor
<1>2. /\ UNCHANGED <<call, at, revoker, answered>>
      /\ \E place : pc' = [pc EXCEPT ![o] = place]
      /\ heard' = [heard EXCEPT ![o] = "nothing"]
      /\ memo' = Forget(o)
  BY DEF Resume, GoTo, Return, lookup
<1>3. ASSUME NEW x \in Op, x # o
      PROVE  /\ Asks(x)' = Asks(x) /\ Cache(x)' = Cache(x) /\ Asked(x)' = Asked(x)
             /\ heard'[x] = heard[x]
  BY <1>2, <1>3 DEF Asks, Cache, Asked, Judged, RequestTypeOK
<1>4. ASSUME NEW x \in Op, x # o, NEW v, NEW p
      PROVE  AsksFor(x, v, p)' <=> AsksFor(x, v, p)
  BY <1>2, <1>4 DEF Asks, Cache, Asked, Judged, AsksFor, RequestTypeOK
<1>5. heard'[o] = "nothing"
  BY <1>2 DEF RequestTypeOK
<1>6. \/ memo' = memo
      \/ /\ memo[v0][p0] # NoPromise /\ memo[v0][p0].by = o /\ heard[o] # "own"
         /\ memo'[v0][p0] = NoPromise
         /\ \A v \in View, p \in Participant : <<v, p>> # <<v0, p0>> => memo'[v][p] = memo[v][p]
  BY <1>1, <1>2 DEF Forget, Entry, RequestTypeOK
<1>7. memo[v0][p0] # NoPromise /\ memo[v0][p0].by = o /\ heard[o] # "own" => memo'[v0][p0] = NoPromise
  BY <1>1, <1>2 DEF Forget, Entry, RequestTypeOK
<1> HIDE DEF v0, p0
<1>8. ASSUME NEW v \in View, NEW p \in Participant, NEW x \in Op,
             NEW result \in {"waiting"} \cup Results, Holds(v, p, x, result)'
      PROVE  IF result = "own"
             THEN "own" \in answered'[v][p] /\ (AsksFor(x, v, p)' => heard'[x] \in {"nothing", "own"})
             ELSE AsksFor(x, v, p)' /\ heard'[x] = result
  <2>1. memo'[v][p] # NoPromise
    BY <1>8, NoPromiseIsNone DEF Holds
  <2>2. Holds(v, p, x, result)
    BY <1>6, <1>8, <2>1 DEF Holds
  <2>3. /\ result = "own" => "own" \in answered[v][p]
        /\ result = "own" /\ AsksFor(x, v, p) => heard[x] \in {"nothing", "own"}
        /\ result # "own" => AsksFor(x, v, p) /\ heard[x] = result
    BY <2>2 DEF PromisesAreKept
  <2>4. CASE x # o
    BY <1>2, <1>3, <1>4, <2>3, <2>4
  <2>5. CASE x = o
    <3>1. result = "own"
      <4> SUFFICES ASSUME result # "own" PROVE FALSE
        OBVIOUS
      <4>1. v = v0 /\ p = p0 /\ heard[o] = result
        BY <2>3, <2>5 DEF AsksFor, v0, p0
      <4>2. memo[v0][p0] = [by |-> o, result |-> result]
        BY <2>2, <2>5, <4>1 DEF Holds
      <4>3. memo[v0][p0] # NoPromise /\ memo[v0][p0].by = o
        BY <4>2, NoPromiseIsNone
      <4> QED
        BY <1>7, <2>1, <4>1, <4>3
    <3> QED
      BY <1>2, <1>5, <2>3, <2>5, <3>1
  <2> QED
    BY <2>4, <2>5
<1>9. ASSUME NEW x \in Op, heard'[x] = "own" PROVE Resolved(Cache(x), Asked(x))'
  <2>1. x # o /\ heard[x] = "own"
    BY <1>3, <1>5, <1>9
  <2>2. PICK y \in Op : Holds(Cache(x), Asked(x), y, "own")
    BY <2>1 DEF PromisesAreKept, Resolved
  <2>3. Cache(x) \in View /\ Asked(x) \in Participant
    BY CallTyped
  <2>4. memo'[Cache(x)][Asked(x)] = memo[Cache(x)][Asked(x)]
    <3> SUFFICES ASSUME Cache(x) = v0, Asked(x) = p0, memo[v0][p0].by = o, heard[o] # "own"
                 PROVE  FALSE
      BY <1>6, <2>3
    <3>1. memo[v0][p0] = [by |-> y, result |-> "own"]
      BY <2>2 DEF Holds
    <3>2. y = o /\ Holds(v0, p0, o, "own")
      BY <3>1 DEF Holds
    <3>3. heard[o] \in {"nothing", "own"}
      BY <1>1, <3>2 DEF PromisesAreKept, Results
    <3> QED
      BY <1>1, <3>3 DEF Results
  <2> QED
    BY <1>3, <2>1, <2>2, <2>4 DEF Resolved, Holds
<1>10. ASSUME NEW x \in Op, ~Asks(x)' PROVE heard'[x] = "nothing"
  BY <1>3, <1>5, <1>10 DEF PromisesAreKept
<1> QED
  BY <1>8, <1>9, <1>10 DEF PromisesAreKept

(* What no step does: change what is asked, forget an answer or company, or *)
(* touch another operation but to tell it what it waits for.                *)
LEMMA StepFacts ==
  ASSUME RequestTypeOK, MetersBalance, NEW o \in Op, Step(o)
  PROVE  /\ UNCHANGED <<call, ceiling>>
         /\ \A v \in View, p \in Participant : answered[v][p] \subseteq answered'[v][p]
         /\ \A x \in Op : pc[x] # "idle" => met[x] \subseteq met'[x] /\ pc'[x] # "idle"
         /\ \A x \in Op : x # o => /\ pc'[x] = pc[x] /\ verdict'[x] = verdict[x]
                                  /\ (heard'[x] = heard[x] \/ heard[x] = "waiting")
         /\ OthersKeep(o)
<1>1. CASE QuietStep(o)
  BY <1>1 DEF QuietStep, Quiet, RequestTypeOK
<1>2. CASE Begin(o)
  <2>1. UNCHANGED <<call, ceiling, heard, answered>>
    BY <1>2 DEF Begin
  <2>2. \A x \in Op : pc[x] # "idle" => met[x] \subseteq met'[x]
    BY <1>2 DEF Begin, RequestTypeOK, Running
  <2>3. /\ pc'[o] # "idle"
        /\ \A x \in Op : x # o => pc'[x] = pc[x] /\ verdict'[x] = verdict[x]
        /\ OthersKeep(o)
    BY <1>2 DEF Begin, GoTo, Return, RequestTypeOK, OthersKeep, lookup
  <2> QED
    BY <2>1, <2>2, <2>3
<1>3. CASE Ask(o)
  BY <1>3 DEF Ask, RequestTypeOK, OthersKeep, lookup
<1>4. CASE Settle(o)
  <2>1. /\ UNCHANGED <<call, pc, verdict, ceiling, met>>
        /\ \A x \in Op : heard'[x] = heard[x] \/ heard[x] = "waiting"
        /\ OthersKeep(o)
    BY <1>4 DEF Settle, Awaiting, OthersKeep, lookup
  <2>2. \E answer : answered' = [answered EXCEPT ![Cache(o)][Asked(o)] = @ \cup {answer}]
    BY <1>4, SettleFacts
  <2>3. \A v \in View, p \in Participant : answered[v][p] \subseteq answered'[v][p]
    BY <2>2, CallTyped DEF RequestTypeOK
  <2> QED
    BY <2>1, <2>3
<1>5. CASE Resume(o)
  BY <1>5 DEF Resume, GoTo, Return, Asks, OnwardsFrom, RequestTypeOK, OthersKeep, lookup
<1> QED
  BY <1>1, <1>2, <1>3, <1>4, <1>5, QuietSteps DEF Step

(* A replayed log stays in the memo. *)
LEMMA ResolvedStays ==
  ASSUME RequestTypeOK, MetersBalance, PromisesAreKept, NEW o \in Op, Step(o),
         NEW v \in View, NEW p \in Participant, Resolved(v, p)
  PROVE  Resolved(v, p)'
<1>1. PICK y \in Op : memo[v][p] = [by |-> y, result |-> "own"]
  BY DEF Resolved, Holds
<1>2. memo'[v][p] = memo[v][p]
  <2>1. CASE QuietStep(o) \/ Begin(o)
    BY <2>1 DEF QuietStep, Quiet, Begin
  <2>2. CASE Ask(o)
    <3>1. Entry(o) # NoPromise \/ ~(v = Cache(o) /\ p = Asked(o))
      BY <1>1, NoPromiseIsNone DEF Entry
    <3> QED
      BY <2>2, <3>1, CallTyped DEF Ask, RequestTypeOK
  <2>3. CASE Settle(o)
    <3>1. ~(v = Cache(o) /\ p = Asked(o))
      <4> SUFFICES ASSUME v = Cache(o), p = Asked(o) PROVE FALSE
        OBVIOUS
      <4>1. [by |-> o, result |-> "waiting"] = [by |-> y, result |-> "own"]
        BY <1>1, <2>3 DEF Settle, Entry
      <4> QED
        BY <4>1
    <3>2. \E entry : memo' = [memo EXCEPT ![Cache(o)][Asked(o)] = entry]
      BY <2>3, SettleFacts
    <3> QED
      BY <3>1, <3>2, CallTyped DEF RequestTypeOK
  <2>4. CASE Resume(o)
    <3>1. CASE v = Cache(o) /\ p = Asked(o) /\ y = o
      <4>1. Holds(v, p, o, "own") /\ AsksFor(o, v, p) /\ heard[o] \in Results
        BY <1>1, <2>4, <3>1 DEF Holds, AsksFor, Resume
      <4>2. heard[o] = "own"
        BY <4>1 DEF PromisesAreKept, Results
      <4> QED
        BY <2>4, <4>2 DEF Resume, Forget
    <3>2. CASE v = Cache(o) /\ p = Asked(o) /\ y # o
      BY <1>1, <2>4, <3>2 DEF Resume, Forget, Entry
    <3>3. CASE ~(v = Cache(o) /\ p = Asked(o))
      BY <2>4, <3>3, CallTyped DEF Resume, Forget, RequestTypeOK
    <3> QED
      BY <3>1, <3>2, <3>3
  <2> QED
    BY <2>1, <2>2, <2>3, <2>4, QuietSteps DEF Step
<1> QED
  BY <1>1, <1>2 DEF Resolved, Holds

(* What the memo holds as a replayed log, the view did answer. *)
LEMMA ResolvedWasAnswered ==
  ASSUME PromisesAreKept, NEW v \in View, NEW p \in Participant, Resolved(v, p)
  PROVE  "own" \in answered[v][p]
  BY DEF PromisesAreKept, Resolved, Results

(* A record that was passed stays passed. *)
LEMMA PassedStays ==
  ASSUME RequestTypeOK, MetersBalance, PromisesAreKept, NEW o \in Op, Step(o),
         NEW x \in Op, NEW i \in 1 .. Len(call[x].records), Passed(x, i)
  PROVE  Passed(x, i)'
<1> DEFINE v == call[x].view
           p == call[x].records[i].issuer
<1>1. call' = call
  BY StepFacts
<1>2. v \in View /\ p \in Participant /\ v' = v /\ p' = p
  BY <1>1, CallTyped DEF Call, Record
<1>3. Resolved(v, p)
  BY DEF Passed
<1>4. Resolved(v, p)'
  <2> HIDE DEF v, p
  <2> QED
    BY <1>2, <1>3, ResolvedStays
<1> QED
  BY <1>1, <1>4 DEF Passed, IsHonest

(* So does what an operation knows of the record it judges, while it judges it. *)
LEMMA IssuerStaysKnown ==
  ASSUME RequestTypeOK, MetersBalance, PromisesAreKept, NEW o \in Op, Step(o),
         NEW x \in Op, at'[x] = at[x]
  PROVE  /\ Judged(x)' = Judged(x) /\ call' = call
         /\ Resolved(call[x].view, Judged(x).issuer) => Resolved(call[x].view, Judged(x).issuer)'
         /\ "own" \in answered[call[x].view][call[x].agent] =>
               "own" \in answered'[call[x].view][call[x].agent]
<1> DEFINE v == call[x].view
           p == Judged(x).issuer
<1>1. call' = call /\ Judged(x)' = Judged(x)
  BY StepFacts DEF Judged
<1>2. v \in View /\ p \in Participant /\ v' = v /\ p' = p /\ call[x].agent \in Participant
  BY <1>1, CallTyped DEF Call, Record
<1>3. Resolved(v, p) => Resolved(v, p)'
  <2> HIDE DEF v, p
  <2> QED
    BY <1>2, ResolvedStays
<1>4. answered[v][call[x].agent] \subseteq answered'[v][call[x].agent]
  <2> HIDE DEF v
  <2> QED
    BY <1>2, StepFacts
<1> QED
  BY <1>1, <1>3, <1>4

(* What an operation has established, the steps of others leave established. *)
LEMMA StagesOfOthers ==
  ASSUME RequestTypeOK, MetersBalance, PromisesAreKept, NEW o \in Op, Step(o),
         NEW x \in Op, x # o, Established(x)
  PROVE  Established(x)'
<1>1. /\ at'[x] = at[x] /\ pending'[x] = pending[x] /\ revoker'[x] = revoker[x]
      /\ pc'[x] = pc[x] /\ (heard'[x] = heard[x] \/ heard[x] = "waiting")
  BY StepFacts DEF OthersKeep
<1>2. /\ Judged(x)' = Judged(x) /\ call' = call
      /\ Resolved(call[x].view, Judged(x).issuer) => Resolved(call[x].view, Judged(x).issuer)'
      /\ "own" \in answered[call[x].view][call[x].agent] =>
            "own" \in answered'[call[x].view][call[x].agent]
  BY <1>1, IssuerStaysKnown
<1>3. \A i \in 1 .. at[x] - 1 : Passed(x, i)'
  <2>1. \A i \in 1 .. at[x] - 1 : i \in 1 .. Len(call[x].records) /\ Passed(x, i)
    BY CallTyped DEF Established
  <2> QED
    BY <2>1, PassedStays
<1>4. Withdrawn(x)' => Noticing(x)'
  BY <1>1, <1>2 DEF Established, Withdrawn, IsHonest, Noticing
<1> QED
  BY <1>1, <1>2, <1>3, <1>4 DEF Established

(* What a record that an honest view says nothing more of has been through. *)
LEMMA PassesWhenDone ==
  ASSUME RequestTypeOK, NEW o \in Op, Established(o), pc[o] = "candidates", pending[o] = 0
  PROVE  \A i \in 1 .. at[o] : Passed(o, i)
<1>1. at[o] \in 1 .. Len(call[o].records) /\ Len(call[o].records) \in Nat
  BY CallTyped
<1>2. Passed(o, at[o])
  <2>1. ~Withdrawn(o)
    BY DEF Established, Noticing
  <2> QED
    BY <2>1 DEF Established, Passed, Withdrawn, Judged, Current, IssuerKnown, Signed
<1>3. \A i \in 1 .. at[o] : i = at[o] \/ i \in 1 .. at[o] - 1
  BY <1>1
<1> QED
  BY <1>2, <1>3 DEF Established

(* Every step establishes what the place it goes to stands for. *)
LEMMA StepKeepsStages ==
  ASSUME RequestTypeOK, MetersBalance, PromisesAreKept, StagesEstablish, NEW o \in Op, Step(o)
  PROVE  StagesEstablish'
<1>1. ASSUME NEW x \in Op, x # o PROVE Established(x)'
  <2>1. Established(x)
    BY DEF StagesEstablish
  <2> QED
    BY <1>1, <2>1, StagesOfOthers
<1>2. CASE at'[o] = at[o]
  <2> DEFINE view == call[o].view
             issuer == Judged(o).issuer
             agent == call[o].agent
  <2>1. /\ call' = call /\ Judged(o)' = Judged(o) /\ view \in View /\ agent \in Participant
        /\ issuer \in Participant /\ Judged(o).signedAt \in Nat
        /\ call[o].kind \in {"statement", "represents"}
        /\ Withdrawn(o)' = Withdrawn(o)
    BY <1>2, IssuerStaysKnown, CallTyped DEF Call, Record, Withdrawn, IsHonest
  <2>2. "own" \in answered[view][agent] => "own" \in answered'[view][agent]
    BY <1>2, IssuerStaysKnown
  <2>3. Established(o)
    BY DEF StagesEstablish
  <2>4. Resolved(view, issuer) => Resolved(view, issuer)'
    BY <1>2, IssuerStaysKnown
  <2>5. \A i \in 1 .. at'[o] - 1 : Passed(o, i)'
    <3>1. \A i \in 1 .. at[o] - 1 : i \in 1 .. Len(call[o].records) /\ Passed(o, i)
      BY <2>3, CallTyped DEF Established
    <3>2. \A i \in 1 .. at[o] - 1 : Passed(o, i)'
      BY <3>1, PassedStays
    <3> QED
      BY <1>2, <3>2
  <2>6. heard'[o] = "nothing" \/ Ask(o) \/ Settle(o)
    <3>1. QuietStep(o) \/ Begin(o) => heard'[o] = "nothing"
      BY DEF QuietStep, Quiet, Begin, Asks, PromisesAreKept
    <3>2. Resume(o) => heard'[o] = "nothing"
      BY DEF Resume, RequestTypeOK
    <3> QED
      BY <3>1, <3>2, QuietSteps DEF Step
  <2>7. SUFFICES ASSUME TRUE
                 PROVE  /\ pc'[o] \in AgentKnown /\ call[o].kind = "represents" =>
                              "own" \in answered'[view][agent]
                        /\ pc'[o] \in Current => ~Judged(o).expired
                        /\ pc'[o] \in IssuerKnown => Resolved(view, issuer)'
                        /\ pc'[o] \in Signed => Judged(o).signedAt > 0
                        /\ Withdrawn(o) => Noticing(o)'
    BY <1>1, <2>1, <2>5 DEF StagesEstablish, Established
  <2> USE DEF AgentKnown, Current, IssuerKnown, Signed
  <2>8. CASE Begin(o)
    BY <2>1, <2>8 DEF Begin, GoTo, Return, Noticing, RequestTypeOK
  <2>9. CASE Ask(o)
    <3>1. pc' = pc /\ UNCHANGED <<pending, revoker>>
      BY <2>9 DEF Ask, lookup
    <3>2. Withdrawn(o) /\ pc[o] = "candidate" => heard'[o] = "own"
      <4> SUFFICES ASSUME Withdrawn(o), pc[o] = "candidate" PROVE heard'[o] = "own"
        OBVIOUS
      <4>1. Resolved(view, issuer) /\ revoker[o] = issuer
        BY <2>3 DEF Established, Noticing
      <4>2. Entry(o) # NoPromise /\ Entry(o).result = "own"
        BY <4>1, NoPromiseIsNone DEF Resolved, Holds, Entry, Cache, Asked
      <4> QED
        BY <2>9, <4>2 DEF Ask, RequestTypeOK
    <3>3. Withdrawn(o) => Noticing(o)'
      BY <2>1, <2>3, <3>1, <3>2 DEF Established, Noticing
    <3> QED
      BY <2>1, <2>2, <2>3, <2>4, <3>1, <3>3 DEF Established
  <2>10. CASE Settle(o)
    <3>1. pc' = pc /\ UNCHANGED <<pending, revoker>> /\ heard[o] = "waiting"
      BY <2>10 DEF Settle, lookup
    <3>2. Withdrawn(o) => Noticing(o)'
      BY <2>1, <2>3, <3>1 DEF Established, Noticing
    <3> QED
      BY <2>1, <2>2, <2>3, <2>4, <3>1, <3>2 DEF Established
  <2>11. CASE Resume(o)
    <3>1. heard[o] = "own" => Resolved(Cache(o), Asked(o)) /\ "own" \in answered[Cache(o)][Asked(o)]
      BY CallTyped, ResolvedWasAnswered DEF PromisesAreKept
    <3>5. UNCHANGED <<pending, revoker>> /\ heard[o] \in Results
      BY <2>11 DEF Resume, lookup
    <3>2. CASE pc[o] = "agent" /\ heard[o] = "own"
      <4>1. "own" \in answered[view][agent] /\ pc'[o] = "edge"
        BY <2>11, <3>1, <3>2 DEF Resume, OnwardsFrom, GoTo, Cache, Asked, RequestTypeOK
      <4> QED
        BY <2>1, <2>2, <4>1 DEF Noticing
    <3>3. CASE pc[o] = "issuer" /\ heard[o] = "own"
      <4>1. Resolved(view, issuer) /\ pc'[o] = "signature"
        BY <2>11, <3>1, <3>3 DEF Resume, OnwardsFrom, GoTo, Cache, Asked, RequestTypeOK
      <4> QED
        BY <2>1, <2>2, <2>3, <2>4, <3>3, <4>1 DEF Established, Noticing
    <3>4. CASE pc[o] = "candidate"
      <4>1. /\ pc'[o] \in {"judge", "candidates", "done"}
            /\ heard[o] = "own" => pc'[o] = "judge"
        BY <2>11, <3>4 DEF Resume, OnwardsFrom, GoTo, Return, RequestTypeOK
      <4>2. Withdrawn(o) => heard[o] = "own" /\ revoker[o] = issuer
        BY <2>3, <3>4, <3>5 DEF Established, Noticing, Results
      <4>3. Withdrawn(o) => Noticing(o)'
        BY <2>1, <3>5, <4>1, <4>2 DEF Noticing
      <4> QED
        BY <2>1, <2>2, <2>3, <2>4, <3>4, <4>1, <4>3 DEF Established
    <3>6. CASE pc[o] # "candidate" /\ heard[o] # "own"
      <4>1. pc'[o] = "done"
        BY <2>11, <3>6 DEF Resume, Return, RequestTypeOK
      <4> QED
        BY <4>1 DEF Noticing
    <3> QED
      BY <2>11, <3>2, <3>3, <3>4, <3>6 DEF Resume, Asks
  <2>12. CASE CheckEdge(o)
    BY <2>1, <2>2, <2>3, <2>12 DEF CheckEdge, GoTo, Return, Established, Noticing, RequestTypeOK
  <2>13. CASE CheckSignature(o) \/ UnknownAnchor(o)
    <3>1. pc[o] = "signature" /\ (pc'[o] = "done" \/ (pc'[o] = "revocations" /\ Judged(o).signedAt # 0))
      BY <2>13 DEF CheckSignature, UnknownAnchor, RunsOut, GoTo, Return, RequestTypeOK
    <3> QED
      BY <2>1, <2>2, <2>3, <2>4, <3>1 DEF Established, Noticing
  <2>14. CASE Lookup(o)
    <3>1. pc[o] = "revocations" /\ pc'[o] \in {"candidates", "done"}
      BY <2>14 DEF Lookup, GoTo, Return, RequestTypeOK
    <3>2. Withdrawn(o) /\ pc'[o] = "candidates" => pending'[o] # 0
      <4> SUFFICES ASSUME Withdrawn(o), pc'[o] = "candidates" PROVE pending'[o] # 0
        OBVIOUS
      <4>1. Judged(o).revokedBy \in Revokers(o) /\ IsHonest(o)
        BY RevokersTyped DEF Withdrawn
      <4>2. pending' = [pending EXCEPT ![o] = 1]
        BY <2>14, <4>1 DEF Lookup, GoTo, Return, RequestTypeOK
      <4> QED
        BY <4>2 DEF RequestTypeOK, LookupTypeOK
    <3> QED
      BY <2>1, <2>2, <2>3, <2>4, <3>1, <3>2 DEF Established, Noticing
  <2>15. CASE NextCandidate(o)
    <3>1. /\ pc[o] = "candidates"
          /\ \/ pc'[o] = "candidates" /\ ~IsHonest(o)
             \/ pc'[o] = "candidate" /\ (IsHonest(o) => revoker'[o] = Judged(o).revokedBy)
      BY <2>15 DEF NextCandidate, GoTo, RequestTypeOK, LookupTypeOK
    <3>2. heard'[o] = "nothing"
      BY <2>15, <3>1 DEF NextCandidate, Stays, PromisesAreKept, Asks
    <3> QED
      BY <2>1, <2>2, <2>3, <2>4, <3>1, <3>2 DEF Established, Noticing, Withdrawn
  <2>16. CASE JudgeCandidate(o) \/ SkipUnanchored(o)
    <3>1. pc[o] = "judge" /\ (pc'[o] = "done" \/ (pc'[o] = "candidates" /\ ~IsHonest(o)))
      BY <2>16 DEF JudgeCandidate, SkipUnanchored, GoTo, Return, RequestTypeOK
    <3> QED
      BY <2>1, <2>2, <2>3, <2>4, <3>1 DEF Established, Noticing, Withdrawn
  <2>17. CASE NotRevoked(o)
    <3>1. pc'[o] = "done"
      BY <1>2, <2>17 DEF NotRevoked, GoTo, Return, RequestTypeOK, LookupTypeOK
    <3> QED
      BY <3>1 DEF Noticing
  <2> QED
    BY <2>8, <2>9, <2>10, <2>11, <2>12, <2>13, <2>14, <2>15, <2>16, <2>17 DEF Step
<1>3. CASE at'[o] # at[o]
  <2>1. NotRevoked(o)
    BY <1>3 DEF Step, Begin, Ask, Settle, Resume, CheckEdge, CheckSignature, UnknownAnchor, Lookup,
               NextCandidate, JudgeCandidate, SkipUnanchored
  <2>2. /\ pc[o] = "candidates" /\ pending[o] = 0
        /\ at' = [at EXCEPT ![o] = @ + 1] /\ at[o] # Len(call[o].records)
        /\ IF call[o].records[at[o] + 1].expired THEN Return(o, "expired") ELSE GoTo(o, "issuer")
        /\ UNCHANGED <<call, answered, memo>>
    BY <1>3, <2>1 DEF NotRevoked, Stays
  <2>3. at[o] \in 1 .. Len(call[o].records) /\ Len(call[o].records) \in Nat
    BY CallTyped
  <2>4. at'[o] = at[o] + 1 /\ Judged(o)' = call[o].records[at[o] + 1]
    BY <2>2, <2>3 DEF Judged, RequestTypeOK, LookupTypeOK
  <2>5. pc'[o] = "done" \/ (pc'[o] = "issuer" /\ ~Judged(o)'.expired)
    BY <2>2, <2>4 DEF GoTo, Return, RequestTypeOK
  <2>6. \A i \in 1 .. at'[o] - 1 : Passed(o, i)'
    <3>1. Established(o)
      BY DEF StagesEstablish
    <3>2. \A i \in 1 .. at[o] : Passed(o, i)
      BY <2>2, <3>1, PassesWhenDone
    <3>3. \A i \in 1 .. at[o] : Passed(o, i)'
      BY <2>3, <3>2, PassedStays
    <3> QED
      BY <2>3, <2>4, <3>3
  <2>7. call[o].kind = "represents" => "own" \in answered[call[o].view][call[o].agent]
    BY <2>2 DEF StagesEstablish, Established, AgentKnown, Current, IssuerKnown, Signed
  <2>8. Established(o)'
    BY <2>2, <2>5, <2>6, <2>7 DEF Established, Noticing, AgentKnown, Current, IssuerKnown, Signed
  <2> QED
    BY <1>1, <2>8 DEF StagesEstablish
<1> QED
  BY <1>2, <1>3

(* Only an operation that has passed every record accepts. *)
LEMMA StepKeepsAccepted ==
  ASSUME RequestTypeOK, MetersBalance, PromisesAreKept, StagesEstablish, AcceptedOnOwnView,
         NEW o \in Op, Step(o)
  PROVE  AcceptedOnOwnView'
<1>1. /\ call' = call
      /\ \A v \in View, p \in Participant : answered[v][p] \subseteq answered'[v][p]
  BY StepFacts
<1>2. ASSUME NEW x \in Op
      PROVE  /\ call[x].view \in View /\ call[x].agent \in Participant
             /\ DOMAIN call[x].records = 1 .. Len(call[x].records)
             /\ \A i \in 1 .. Len(call[x].records) : call[x].records[i].issuer \in Participant
  BY CallTyped DEF Call, Record
<1>3. ASSUME NEW x \in Op, verdict'[x] = "valid"
      PROVE  \/ verdict[x] = "valid"
             \/ /\ pc[x] = "candidates" /\ pending[x] = 0 /\ at[x] = Len(call[x].records)
  <2>1. CASE x # o
    BY <1>3, <2>1, StepFacts
  <2>2. CASE x = o /\ verdict[x] # "valid"
    <3>1. NotRevoked(o)
      BY <1>3, <2>2 DEF Step, Begin, Ask, Settle, Resume, CheckEdge, CheckSignature, UnknownAnchor,
            Lookup, NextCandidate, JudgeCandidate, SkipUnanchored, RunsOut, GoTo, Return,
            RequestTypeOK, Results
    <3>2. at[o] = Len(call[o].records)
      BY <1>3, <2>2, <3>1 DEF NotRevoked, GoTo, Return, RequestTypeOK
    <3> QED
      BY <2>2, <3>1, <3>2 DEF NotRevoked
  <2> QED
    BY <2>1, <2>2
<1>4. ASSUME NEW x \in Op, pc[x] = "candidates", pending[x] = 0, at[x] = Len(call[x].records)
      PROVE  /\ call[x].kind = "represents" => "own" \in answered[call[x].view][call[x].agent]
             /\ \A i \in DOMAIN call[x].records :
                   LET record == call[x].records[i]
                   IN  /\ "own" \in answered[call[x].view][record.issuer]
                       /\ record.signedAt > 0 /\ ~record.expired
                       /\ IsHonest(x) => record.revokedBy # record.issuer
  <2>1. Established(x)
    BY DEF StagesEstablish
  <2>2. ASSUME NEW i \in 1 .. Len(call[x].records)
        PROVE  Passed(x, i) /\ "own" \in answered[call[x].view][call[x].records[i].issuer]
    <3>1. Passed(x, i)
      BY <1>4, <2>1, <2>2, PassesWhenDone
    <3> QED
      BY <1>2, <3>1, ResolvedWasAnswered DEF Passed
  <2> QED
    BY <1>2, <1>4, <2>1, <2>2 DEF Passed, Established, AgentKnown, Current, IssuerKnown, Signed
<1>5. \A x \in Op : IsHonest(x)' = IsHonest(x)
  BY <1>1 DEF IsHonest
<1>6. ASSUME NEW x \in Op, verdict'[x] = "valid"
      PROVE  /\ call[x].kind = "represents" => "own" \in answered[call[x].view][call[x].agent]
             /\ \A i \in DOMAIN call[x].records :
                   LET record == call[x].records[i]
                   IN  /\ "own" \in answered[call[x].view][record.issuer]
                       /\ record.signedAt > 0 /\ ~record.expired
                       /\ IsHonest(x) => record.revokedBy # record.issuer
  BY <1>3, <1>4, <1>6 DEF AcceptedOnOwnView
<1> QED
  BY <1>1, <1>2, <1>5, <1>6 DEF AcceptedOnOwnView

(* A meter of a begun operation that is spent stays spent. *)
LEMMA SpentMetersStay ==
  ASSUME RequestTypeOK, MetersBalance, NEW o \in Op, Step(o), NEW x \in Op, pc[x] # "idle", MeterSpent(x)
  PROVE  MeterSpent(x)'
<1>1. CASE QuietStep(o) \/ Settle(o)
  <2>1. PICK cost \in Nat : cost <= Remaining(o) /\ Charge(o, cost)
    BY <1>1, SettleFacts DEF QuietStep, Quiet
  <2>2. pc[o] # "idle"
    BY <1>1 DEF QuietStep, Quiet, Running, Settle, Asks
  <2>3. Remaining(o) \in Nat /\ Remaining(o) <= local[o] /\ Remaining(o) <= outer
    BY <2>2, RemainingFacts
  <2> QED
    BY <2>1, <2>3 DEF MeterSpent, Charge, RequestTypeOK
<1>2. CASE Begin(o)
  BY <1>2 DEF Begin, MeterSpent, RequestTypeOK
<1>3. CASE Ask(o) \/ Resume(o)
  BY <1>3 DEF Ask, Resume, meters, MeterSpent
<1> QED
  BY <1>1, <1>2, <1>3, QuietSteps DEF Step

(* So does the company of an operation hold on to its spent meter. *)
LEMMA ExhaustedStays ==
  ASSUME RequestTypeOK, MetersBalance, NEW o \in Op, Step(o), NEW x \in Op, Exhausted(x)
  PROVE  Exhausted(x)'
<1>1. PICK y \in met[x] \cup {x} : pc[x] # "idle" /\ pc[y] # "idle" /\ MeterSpent(y)
  BY DEF Exhausted
<1>2. y \in Op
  BY DEF RequestTypeOK
<1>3. MeterSpent(y)'
  BY <1>1, <1>2, SpentMetersStay
<1>4. y \in met'[x] \cup {x} /\ pc'[y] # "idle" /\ pc'[x] # "idle"
  BY <1>1, <1>2, StepFacts
<1> QED
  BY <1>3, <1>4 DEF Exhausted

(* Who outran its allowance has a spent meter. *)
LEMMA OutrunIsSpent ==
  ASSUME RequestTypeOK, NEW o \in Op, Charge(o, Remaining(o))
  PROVE  MeterSpent(o)'
<1>1. Remaining(o) = local[o] \/ Remaining(o) = outer
  BY MinOfTwo DEF Remaining, RequestTypeOK
<1> QED
  BY <1>1 DEF Charge, MeterSpent, RequestTypeOK

(* Operations that run together know of each other. *)
LEMMA StepKeepsCompany ==
  ASSUME RequestTypeOK, MetersBalance, CostIsSomebodys, NEW o \in Op, Step(o),
         NEW x \in Op, NEW y \in Op, Running(x)', Running(y)', x # y
  PROVE  y \in met'[x]
<1>1. CASE Begin(o)
  <2>1. met' = [z \in Op |-> IF z = o THEN {w \in Op : Running(w)}
                             ELSE IF Running(z) THEN met[z] \cup {o} ELSE met[z]]
    BY <1>1 DEF Begin
  <2>2. \A z \in Op : z # o => pc'[z] = pc[z]
    BY StepFacts
  <2>3. x # o => Running(x)
    BY <2>2 DEF Running
  <2>4. y # o => Running(y)
    BY <2>2 DEF Running
  <2> QED
    BY <2>1, <2>3, <2>4 DEF CostIsSomebodys
<1>2. CASE ~Begin(o)
  <2>1. met' = met /\ Running(o)
    BY <1>2 DEF Step, Ask, Settle, Resume, CheckEdge, CheckSignature, UnknownAnchor, Lookup,
                NextCandidate, JudgeCandidate, SkipUnanchored, NotRevoked, Stays, Running, Asks
  <2>2. \A z \in Op : z # o => pc'[z] = pc[z]
    BY StepFacts
  <2>3. Running(x)
    BY <2>1, <2>2 DEF Running
  <2>4. Running(y)
    BY <2>1, <2>2 DEF Running
  <2> QED
    BY <2>1, <2>3, <2>4 DEF CostIsSomebodys
<1> QED
  BY <1>1, <1>2

(* A refusal for cost comes from a meter that the charge just emptied, or *)
(* from company whose meter was.                                          *)
LEMMA StepKeepsCost ==
  ASSUME RequestTypeOK, MetersBalance, PromisesAreKept, CostIsSomebodys, NEW o \in Op, Step(o)
  PROVE  CostIsSomebodys'
<1>1. ASSUME NEW x \in Op, Running(x), NEW y \in Op, Running(y), MeterSpent(y)
      PROVE  Exhausted(x)
  BY <1>1 DEF CostIsSomebodys, Exhausted, Running
<1>2. ASSUME NEW v \in View, NEW p \in Participant, NEW x \in Op, Holds(v, p, x, "too_expensive")'
      PROVE  MeterSpent(x)'
  <2>1. CASE Holds(v, p, x, "too_expensive")
    <3>1. MeterSpent(x) /\ AsksFor(x, v, p)
      BY <2>1 DEF CostIsSomebodys, PromisesAreKept, Results
    <3>2. pc[x] # "idle"
      BY <3>1 DEF AsksFor, Asks
    <3> QED
      BY <3>1, <3>2, SpentMetersStay
  <2>2. CASE ~Holds(v, p, x, "too_expensive")
    <3>1. memo'[v][p] # memo[v][p] /\ memo'[v][p] = [by |-> x, result |-> "too_expensive"]
      BY <1>2, <2>2 DEF Holds
    <3>2. Settle(o)
      <4>1. CASE QuietStep(o) \/ Begin(o)
        BY <3>1, <4>1 DEF QuietStep, Quiet, Begin
      <4>2. CASE Ask(o)
        <5>1. memo'[v][p] = [by |-> o, result |-> "waiting"]
          <6>1. memo' = [memo EXCEPT ![Cache(o)][Asked(o)] = [by |-> o, result |-> "waiting"]]
            BY <3>1, <4>2 DEF Ask
          <6> QED
            BY <3>1, <6>1, CallTyped DEF RequestTypeOK
        <5> QED
          BY <3>1, <5>1
      <4>3. CASE Resume(o)
        <5>1. memo'[v][p] = NoPromise
          BY <3>1, <4>3, CallTyped DEF Resume, Forget, RequestTypeOK
        <5> QED
          BY <3>1, <5>1, NoPromiseIsNone
      <4> QED
        BY <4>1, <4>2, <4>3, QuietSteps DEF Step
    <3>3. PICK answer \in Answers, result \in Results, cost \in Nat :
             /\ Charge(o, cost)
             /\ memo' = [memo EXCEPT ![Cache(o)][Asked(o)] = [by |-> o, result |-> result]]
             /\ result = "too_expensive" => cost = Remaining(o)
      BY <3>2, SettleFacts
    <3>4. [by |-> x, result |-> "too_expensive"] = [by |-> o, result |-> result]
      BY <3>1, <3>3, CallTyped DEF RequestTypeOK
    <3>5. x = o /\ result = "too_expensive"
      BY <3>4
    <3> QED
      BY <3>3, <3>5, OutrunIsSpent
  <2> QED
    BY <2>1, <2>2
<1>3. ASSUME NEW x \in Op, heard'[x] = "too_expensive"
      PROVE  Exhausted(x)'
  <2>1. CASE heard[x] = "too_expensive"
    BY <2>1, ExhaustedStays DEF CostIsSomebodys
  <2>2. CASE heard[x] # "too_expensive"
    <3>1. CASE QuietStep(o)
      BY <1>3, <2>2, <3>1 DEF QuietStep, Quiet
    <3>2. CASE Begin(o)
      BY <1>3, <2>2, <3>2 DEF Begin
    <3>3. CASE Ask(o)
      <4>1. x = o /\ Entry(o) # NoPromise /\ Entry(o).result = "too_expensive" /\ Running(o)
        BY <1>3, <2>2, <3>3 DEF Ask, RequestTypeOK, Asks, Running
      <4>2. PICK y \in Op, result \in {"waiting"} \cup Results :
               Holds(Cache(o), Asked(o), y, result) /\ Entry(o).result = result
        BY <4>1, CallTyped, EntryTyped DEF Entry
      <4>3. MeterSpent(y) /\ AsksFor(y, Cache(o), Asked(o))
        BY <4>1, <4>2, CallTyped DEF CostIsSomebodys, PromisesAreKept, Results
      <4>4. Exhausted(o)
        BY <1>1, <4>1, <4>3 DEF AsksFor, Asks, Running
      <4> QED
        BY <4>1, <4>4, ExhaustedStays
    <3>4. CASE Settle(o)
      <4>1. PICK answer \in Answers, result \in Results, cost \in Nat :
               /\ Charge(o, cost)
               /\ heard' = [z \in Op |-> IF z \in Awaiting(o) THEN result ELSE heard[z]]
               /\ result = "too_expensive" => cost = Remaining(o)
        BY <3>4, SettleFacts
      <4>2. UNCHANGED <<pc, verdict, met>> /\ Running(o)
        BY <3>4 DEF Settle, Asks, Running
      <4>3. x \in Awaiting(o) /\ result = "too_expensive"
        BY <1>3, <2>2, <4>1, <4>2
      <4>4. MeterSpent(o)'
        BY <4>1, <4>3, OutrunIsSpent
      <4>5. Running(x)
        BY <4>3 DEF Awaiting, Asks, Running
      <4>6. o \in met'[x] \cup {x} /\ pc'[o] # "idle" /\ pc'[x] # "idle"
        BY <4>2, <4>5 DEF CostIsSomebodys, Running
      <4> QED
        BY <4>4, <4>6 DEF Exhausted
    <3>5. CASE Resume(o)
      BY <1>3, <2>2, <3>5 DEF Resume, RequestTypeOK
    <3> QED
      BY <3>1, <3>2, <3>3, <3>4, <3>5, QuietSteps DEF Step
  <2> QED
    BY <2>1, <2>2
<1>4. \A x, y \in Op : Running(x)' /\ Running(y)' /\ x # y => y \in met'[x]
  BY StepKeepsCompany
<1>5. ASSUME NEW x \in Op, verdict'[x] = "too_expensive"
      PROVE  pc'[x] = "done" /\ (allowance'[x] = 0 \/ Exhausted(x)')
  <2>1. CASE verdict[x] = "too_expensive"
    <3>1. pc[x] = "done" /\ (allowance[x] = 0 \/ Exhausted(x))
      BY <2>1 DEF CostIsSomebodys
    <3>2. pc[o] # "done"
      BY DEF Step, Begin, Ask, Settle, Resume, Asks, CheckEdge, CheckSignature, UnknownAnchor, Lookup,
             NextCandidate, JudgeCandidate, SkipUnanchored, NotRevoked
    <3>3. pc'[x] = pc[x] /\ allowance'[x] = allowance[x]
      BY <3>1, <3>2, StepFacts DEF OthersKeep
    <3> QED
      BY <3>1, <3>3, ExhaustedStays
  <2>2. CASE verdict[x] # "too_expensive"
    <3>1. x = o
      BY <1>5, <2>2, StepFacts
    <3>2. CASE QuietStep(o)
      <4>1. PICK place \in Places \ {"idle"}, reason \in Verdicts, cost \in Nat :
               Quiet(o, place, reason, cost)
        BY <3>2 DEF QuietStep
      <4>2. reason = "too_expensive" /\ place = "done" /\ (cost = Remaining(o) \/ allowance'[o] = 0)
        BY <1>5, <2>2, <3>1, <4>1 DEF Quiet, RequestTypeOK
      <4>3. pc'[o] = "done" /\ (cost = Remaining(o) => MeterSpent(o)')
        BY <4>1, <4>2, OutrunIsSpent DEF Quiet, RequestTypeOK
      <4> QED
        BY <3>1, <4>2, <4>3 DEF Exhausted
    <3>3. CASE Resume(o)
      <4>1. heard[o] = "too_expensive" /\ pc'[o] = "done"
        BY <1>5, <2>2, <3>1, <3>3 DEF Resume, GoTo, Return, RequestTypeOK
      <4>2. Exhausted(o)'
        BY <4>1, ExhaustedStays DEF CostIsSomebodys
      <4> QED
        BY <3>1, <4>1, <4>2
    <3>4. CASE Begin(o) \/ Ask(o) \/ Settle(o)
      BY <1>5, <2>2, <3>1, <3>4 DEF Begin, Ask, Settle, GoTo, Return, RequestTypeOK
    <3> QED
      BY <3>2, <3>3, <3>4, QuietSteps DEF Step
  <2> QED
    BY <2>1, <2>2
<1> QED
  BY <1>2, <1>3, <1>4, <1>5 DEF CostIsSomebodys

(* No operation has begun. *)
LEMMA RequestInvariantInitially == Init => RequestInvariant
<1> SUFFICES ASSUME Init PROVE RequestInvariant
  OBVIOUS
<1>1. RequestTypeOK
  <2>1. call \in [Op -> Call]
    BY RequestContextAssumption DEF Init
  <2>2. ASSUME NEW o \in Op PROVE PlaceTyped(o)
    <3>1. call[o].records \in Seq(Record) /\ call[o].records # << >>
      BY <2>1, RequestContextAssumption DEF Init, Call
    <3> QED
      BY <3>1 DEF Init, PlaceTyped
  <2>3. LookupTypeOK
    BY <2>2, RequestContextAssumption DEF Init, LookupTypeOK, CandidateAllowance
  <2> QED
    BY <2>3, RequestContextAssumption DEF Init, RequestTypeOK, Places, Verdicts
<1>2. MetersBalance
  <2>1. Sums(spent)[Op] = 0
    BY NoughtSums, RequestContextAssumption DEF Init
  <2> QED
    BY <2>1, RequestContextAssumption DEF Init, MetersBalance
<1>3. \A o \in Op : pc[o] = "idle" /\ heard[o] = "nothing" /\ verdict[o] = "none" /\ ~Running(o) /\ ~Asks(o)
  BY DEF Init, Running, Asks
<1>4. \A v, p, o, result : v \in View /\ p \in Participant => ~Holds(v, p, o, result)
  BY NoPromiseIsNone DEF Init, Holds
<1>5. PromisesAreKept
  BY <1>3, <1>4 DEF PromisesAreKept
<1>6. StagesEstablish
  <2>1. \A o \in Op : at[o] = 1
    BY DEF Init
  <2> QED
    BY <1>3, <2>1 DEF StagesEstablish, Established, Noticing, AgentKnown, Current, IssuerKnown, Signed
<1>7. AcceptedOnOwnView
  BY <1>3 DEF AcceptedOnOwnView
<1>8. CostIsSomebodys
  BY <1>3, <1>4 DEF CostIsSomebodys
<1> QED
  BY <1>1, <1>2, <1>5, <1>6, <1>7, <1>8 DEF RequestInvariant

(* Every step preserves types and balance. *)
LEMMA StepKeepsTypes ==
  ASSUME RequestTypeOK, MetersBalance, NEW o \in Op, Step(o)
  PROVE  RequestTypeOK' /\ MetersBalance'
  BY QuietSteps, QuietKeepsTypes, BeginKeepsTypes, AskKeepsTypes, SettleKeepsTypes, ResumeKeepsTypes
     DEF Step

(* Every step keeps the promises. *)
LEMMA StepKeepsPromises ==
  ASSUME RequestTypeOK, MetersBalance, PromisesAreKept, NEW o \in Op, Step(o)
  PROVE  PromisesAreKept'
<1>1. CASE QuietStep(o)
  BY <1>1, QuietKeepsPromises DEF QuietStep, Quiet
<1>2. CASE Begin(o)
  <2>1. ~Asks(o) /\ \E place : pc' = [pc EXCEPT ![o] = place]
    BY <1>2 DEF Begin, Asks, GoTo, Return
  <2>2. UNCHANGED <<call, heard, memo, answered>> /\ OthersKeep(o)
    BY <1>2 DEF Begin, lookup, OthersKeep
  <2> QED
    BY <2>1, <2>2, QuietKeepsPromises
<1> QED
  BY <1>1, <1>2, QuietSteps, AskKeepsPromises, SettleKeepsPromises, ResumeKeepsPromises DEF Step

(* However the operations of a request interleave, the invariant holds. *)
THEOREM RequestInvariantHolds == Spec => []RequestInvariant
<1>1. RequestInvariant /\ [Next]_vars => RequestInvariant'
  <2> SUFFICES ASSUME RequestInvariant, [Next]_vars PROVE RequestInvariant'
    OBVIOUS
  <2>1. CASE Next
    <3>1. PICK o \in Op : Step(o)
      BY <2>1 DEF Next
    <3> QED
      BY <3>1, StepKeepsTypes, StepKeepsPromises, StepKeepsStages, StepKeepsAccepted, StepKeepsCost
         DEF RequestInvariant
  <2>2. CASE UNCHANGED vars
    <3> USE <2>2 DEF vars, meters, lookup
    <3>1. RequestTypeOK' /\ MetersBalance' /\ AcceptedOnOwnView'
      BY DEF RequestInvariant, RequestTypeOK, LookupTypeOK, PlaceTyped, MetersBalance,
             AcceptedOnOwnView, IsHonest
    <3>2. PromisesAreKept'
      BY DEF RequestInvariant, PromisesAreKept, Holds, AsksFor, Asks, Cache, Asked, Judged, Resolved
    <3>3. StagesEstablish'
      BY DEF RequestInvariant, StagesEstablish, Established, Holds, Resolved, Withdrawn, Noticing,
             Passed, Judged, IsHonest
    <3>4. CostIsSomebodys'
      BY DEF RequestInvariant, CostIsSomebodys, Holds, Running, MeterSpent, Exhausted
    <3> QED
      BY <3>1, <3>2, <3>3, <3>4 DEF RequestInvariant
  <2> QED
    BY <2>1, <2>2
<1> QED
  BY <1>1, RequestInvariantInitially, PTL DEF Spec

(* The request costs what its context allows and every operation what its *)
(* view allows, exactly: verificationWorkOptions charges each check once. *)
THEOREM RequestMetersAddUp == Spec => []MetersAddUp
<1>1. RequestInvariant => MetersAddUp
  BY TotalIsSum DEF RequestInvariant, MetersBalance, MetersAddUp
<1> QED
  BY <1>1, RequestInvariantHolds, PTL

(* A statement is accepted on a log that its own view answered, and against  *)
(* an honest view only if it is signed, current and not revoked: the memo of *)
(* one view never answers for another.                                       *)
THEOREM RequestAcceptedOnOwnView == Spec => []AcceptedOnOwnView
<1>1. RequestInvariant => AcceptedOnOwnView
  BY DEF RequestInvariant
<1> QED
  BY <1>1, RequestInvariantHolds, PTL

(* An operation refused for cost has, or ran with one that has, a spent  *)
(* meter: the refusal of a promise never outlives those who ran with its *)
(* maker.                                                                *)
THEOREM RequestCostRefusals == Spec => []CostRefusalHasASpentMeter
<1>1. RequestInvariant => CostRefusalHasASpentMeter
  BY DEF RequestInvariant, CostIsSomebodys, Exhausted, CostRefusalHasASpentMeter
<1> QED
  BY <1>1, RequestInvariantHolds, PTL

(* At rest the memo holds replayed logs its views answered and nothing else: *)
(* signerStates forgets every failure.                                       *)
THEOREM RequestMemoKeepsReplayedLogs == Spec => []MemoKeepsReplayedLogs
<1>1. RequestInvariant => MemoKeepsReplayedLogs
  <2> SUFFICES ASSUME RequestInvariant, \A o \in Op : ~Running(o),
                      NEW v \in View, NEW p \in Participant, memo[v][p] # NoPromise
               PROVE  memo[v][p].result = "own" /\ "own" \in answered[v][p]
    BY DEF MemoKeepsReplayedLogs
  <2>1. PICK o \in Op, result \in {"waiting"} \cup Results :
           Holds(v, p, o, result) /\ memo[v][p].result = result
    BY EntryTyped DEF RequestInvariant
  <2>2. result # "own" => Asks(o)
    BY <2>1 DEF RequestInvariant, PromisesAreKept, AsksFor
  <2>3. ~Asks(o)
    BY DEF Running, Asks
  <2> QED
    BY <2>1, <2>2, <2>3 DEF RequestInvariant, PromisesAreKept
<1> QED
  BY <1>1, RequestInvariantHolds, PTL
===============================================================================
