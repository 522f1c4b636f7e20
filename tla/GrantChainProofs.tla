--------------------------- MODULE GrantChainProofs ---------------------------
(***************************************************************************)
(* For every set of chains, of any length, every option and every view:    *)
(*                                                                         *)
(*   - an accepted chain hands down the root's authority and no more;      *)
(*   - a delegated action is within the caveats of every link;             *)
(*   - only a published revocation counts, and with an honest view every   *)
(*     one that was there before the call does;                            *)
(*   - the verifications of a call are bounded by the length of its chain. *)
(*                                                                         *)
(* Each has an inductive invariant of its own, in that order, and each of  *)
(* these rests on the one before.                                          *)
(***************************************************************************)
EXTENDS GrantChain, FiniteSetTheorems, SequenceTheorems, WellFoundedInduction, TLAPS

-------------------------------------------------------------------------------
(* What each phase of the function has established when it is left, and how    *)
(* much of it half way through.                                                *)

Walking == pc \in {"window", "issuer", "judge", "lookup", "candidates"}
Started == pc \in {"pairs", "aud"} \/ Walking \/ verdict = "valid"

(* Links 1 to n: one subject, each issued by the audience of the one above,    *)
(* and each covered by all above it. *)
Down(n) ==
    \A i \in 1 .. n :
        /\ chain[i].subject = chain[1].subject
        /\ i < n => chain[i].issuer = chain[i + 1].audience
        /\ \A j \in 1 .. n : i < j => Covered(chain[i], chain[j])

(* effective is within every aud above link n, and is somebody's. *)
Narrowed(n) ==
    /\ \A i \in 1 .. Len(chain) :
          i > n /\ Carries(chain[i]) => effective # NoAud /\ effective \subseteq chain[i].aud
    /\ effective # NoAud => \E i \in 1 .. Len(chain) : Carries(chain[i])

Admitted ==
    /\ \A i \in 1 .. Len(chain) : Carries(chain[i]) => options.verifierId \in chain[i].aud
    /\ options.purpose = "request" /\ options.requireAud =>
          \E i \in 1 .. Len(chain) : Carries(chain[i])

(* Links 1 to n: signed by the issuer, in their window, and what the link      *)
(* below points at.                                                            *)
Judged(n) ==
    \A i \in 1 .. n :
        /\ chain[i].by = chain[i].issuer
        /\ WindowVerdict(chain[i]) = "ok"
        /\ i > 1 => chain[i - 1].proof = Digest(chain[i])

ShapeInv ==
    /\ chain \in Chains
    /\ pc # "done" => verdict = "none"
    /\ Started => Len(chain) > 0 /\ Root.issuer = Root.subject

PairInv ==
    /\ pc = "pairs" => index \in 1 .. Len(chain) /\ Down(index)
    /\ Started /\ pc # "pairs" => Down(Len(chain))

AudInv ==
    /\ pc \in {"shape", "pairs"} => effective = NoAud
    /\ pc = "aud" => index \in 0 .. Len(chain) /\ Narrowed(index)
    /\ Walking \/ verdict = "valid" => options.purpose = "record" \/ Admitted

WalkInv ==
    /\ Walking => index \in 1 .. Len(chain)
    /\ pc \in {"window", "issuer", "judge"} => Judged(index - 1)
    /\ pc \in {"issuer", "judge"} => WindowVerdict(chain[index]) = "ok"
    /\ pc \in {"lookup", "candidates"} => Judged(index)
    /\ verdict = "valid" => Judged(Len(chain))

(* The inductive invariant. *)
IInv == ShapeInv /\ PairInv /\ AudInv /\ WalkInv

-------------------------------------------------------------------------------
(* A cover of a cover is a cover: whole-segment prefixes are transitive. *)
LEMMA CoverIsTransitive ==
    ASSUME NEW a, NEW b, NEW c,
           Len(a) \in Nat, Len(b) \in Nat, Len(c) \in Nat,
           AbilityCovers(a, b), AbilityCovers(b, c)
    PROVE  AbilityCovers(a, c)
BY DEF AbilityCovers

(* What the parent's parent covers: attenuation link by link is attenuation    *)
(* against every link above.                                                   *)
LEMMA CoveredIsTransitive ==
    ASSUME NEW x, NEW y, NEW z,
           \A ability \in x.abilities \cup y.abilities \cup z.abilities : Len(ability) \in Nat,
           Covered(x, y), Covered(y, z)
    PROVE  Covered(x, z)
<1> SUFFICES ASSUME NEW ability \in x.abilities
             PROVE  \E top \in z.abilities : AbilityCovers(top, ability)
    BY DEF Covered
<1>1. PICK middle \in y.abilities : AbilityCovers(middle, ability)
    BY DEF Covered
<1>2. PICK top \in z.abilities : AbilityCovers(top, middle)
    BY DEF Covered
<1>3. AbilityCovers(top, ability)
    BY <1>1, <1>2, CoverIsTransitive
<1> QED BY <1>3

(* A chain of the model is a sequence of links with ability paths. *)
LEMMA ChainIsSequence ==
    ASSUME chain \in Chains
    PROVE  /\ Len(chain) \in Nat
           /\ DOMAIN chain = 1 .. Len(chain)
           /\ \A i \in 1 .. Len(chain) :
                 \A ability \in chain[i].abilities : Len(ability) \in Nat
BY GrantChainAssumption DEF GrantChainAssumption

(* A step that refuses or throws leaves nothing to establish. *)
LEMMA RefusalKeepsInv ==
    ASSUME IInv, UNCHANGED call, pc' = "done", verdict' # "valid"
    PROVE  IInv'
BY DEF IInv, ShapeInv, PairInv, AudInv, WalkInv, Started, Walking, call

(* None of the reasons is "valid". *)
LEMMA VerdictsRefuse ==
    /\ ShapeVerdict # "valid"
    /\ AudVerdict # "valid"
    /\ \A x, y : PairVerdict(x, y) # "valid"
    /\ \A x : WindowVerdict(x) # "valid"
    /\ \A x : LogVerdict(x) # "valid"
<1>1. ShapeVerdict # "valid"
    BY DEF ShapeVerdict
<1>2. AudVerdict # "valid"
    BY DEF AudVerdict
<1>3. ASSUME NEW x, NEW y PROVE PairVerdict(x, y) # "valid"
    BY DEF PairVerdict
<1>4. ASSUME NEW x PROVE WindowVerdict(x) # "valid"
    BY DEF WindowVerdict
<1>5. ASSUME NEW x PROVE LogVerdict(x) # "valid"
    BY DEF LogVerdict
<1> QED BY <1>1, <1>2, <1>3, <1>4, <1>5

(* The windows and the caveats of a link are judged by the call alone. *)
LEMMA WindowStays ==
    ASSUME options' = options, chain' = chain, NEW i
    PROVE  WindowVerdict(chain[i])' = WindowVerdict(chain[i])
<1>1. CaveatsAdmitted(chain[i])' <=> CaveatsAdmitted(chain[i])
    BY DEF CaveatsAdmitted, EvaluateFinancialCaveats, WithinCap, InCurrency,
           ToBeneficiary, IsTheAction, Approved, States, AmountAtMost, Scaled,
           Greater, AmountSchema
<1> QED BY <1>1 DEF WindowVerdict

(* A step of the walk that keeps its link keeps what was established. *)
LEMMA SamePlaceKeepsInv ==
    ASSUME IInv, UNCHANGED <<call, pc, index, verdict, effective>>
    PROVE  IInv'
<1>1. /\ chain' = chain /\ options' = options /\ pc' = pc /\ index' = index
      /\ verdict' = verdict /\ effective' = effective
    BY DEF call
<1> USE <1>1
<1>2. ShapeInv'
    BY DEF IInv, ShapeInv, Root, Started, Walking
<1>3. PairInv'
    BY DEF IInv, PairInv, Started, Walking, Down
<1>4. AudInv'
    BY DEF IInv, AudInv, Narrowed, Admitted, Walking, Carries
<1>5. WalkInv'
    BY WindowStays DEF IInv, WalkInv, Walking, Judged
<1> QED BY <1>2, <1>3, <1>4, <1>5 DEF IInv

-------------------------------------------------------------------------------
LEMMA InitEstablishes == Init => IInv
<1> SUFFICES ASSUME Init PROVE IInv
    OBVIOUS
<1>1. chain \in Chains
    BY DEF Init, Chains
<1> QED
    BY <1>1 DEF Init, IInv, ShapeInv, PairInv, AudInv, WalkInv, Started, Walking

(* A shape that passes has a root that issued its own link. *)
LEMMA ShapePasses ==
    ASSUME chain \in Chains, ShapeVerdict = "ok"
    PROVE  Len(chain) > 0 /\ Root.issuer = Root.subject
<1>1. Len(chain) # 0 /\ Root.issuer = Root.subject
    BY DEF ShapeVerdict
<1>2. Len(chain) > 0
    BY <1>1, ChainIsSequence
<1> QED BY <1>1, <1>2

LEMMA CheckShapeKeeps == IInv /\ CheckShape => IInv'
<1> SUFFICES ASSUME IInv, CheckShape PROVE IInv'
    OBVIOUS
<1> USE DEF World
<1>1. CASE ShapeVerdict # "ok"
    BY <1>1, VerdictsRefuse, RefusalKeepsInv DEF CheckShape, Return
<1>2. CASE ShapeVerdict = "ok"
  <2>1. /\ pc' = "pairs" /\ index' = 1 /\ verdict' = verdict /\ verdict = "none"
        /\ effective' = effective /\ effective = NoAud
    BY <1>2 DEF CheckShape, GoTo, IInv, ShapeInv, AudInv
  <2>2. Len(chain) \in Nat /\ Len(chain) > 0 /\ Root.issuer = Root.subject
    BY <1>2, ShapePasses, ChainIsSequence DEF IInv, ShapeInv
  <2>3. UNCHANGED call
    BY DEF CheckShape
  <2>4. ShapeInv'
    BY <2>1, <2>2, <2>3 DEF ShapeInv, IInv, Root, call
  <2>5. PairInv'
    BY <2>1, <2>2, <2>3 DEF PairInv, Down, Started, Walking, call
  <2> QED BY <2>1, <2>4, <2>5 DEF IInv, AudInv, WalkInv, Walking, NoAud
<1> QED BY <1>1, <1>2

(* One pair more: the link above covers what the link it covers covers. *)
LEMMA DownGrows ==
    ASSUME chain \in Chains, NEW n \in 1 .. Len(chain), n < Len(chain), Down(n),
           PairVerdict(chain[n], chain[n + 1]) = "ok"
    PROVE  Down(n + 1)
<1>1. /\ chain[n].issuer = chain[n + 1].audience
      /\ chain[n].subject = chain[n + 1].subject
      /\ Covered(chain[n], chain[n + 1])
    BY DEF PairVerdict
<1>2. Len(chain) \in Nat
    BY ChainIsSequence
<1>3. ASSUME NEW i \in 1 .. n
      PROVE  Covered(chain[i], chain[n + 1])
  <2>1. CASE i = n
    BY <1>1, <2>1
  <2>2. CASE i # n
    <3>1. Covered(chain[i], chain[n])
        BY <1>2, <2>2 DEF Down
    <3>2. \A ability \in chain[i].abilities \cup chain[n].abilities \cup chain[n + 1].abilities :
             Len(ability) \in Nat
        BY <1>2, ChainIsSequence
    <3> QED BY <3>1, <3>2, <1>1, CoveredIsTransitive
  <2> QED BY <2>1, <2>2
<1>4. chain[n].subject = chain[1].subject
    BY <1>2 DEF Down
<1>5. ASSUME NEW i \in 1 .. n + 1
      PROVE  /\ chain[i].subject = chain[1].subject
             /\ i < n + 1 => chain[i].issuer = chain[i + 1].audience
             /\ \A j \in 1 .. n + 1 : i < j => Covered(chain[i], chain[j])
  <2>1. CASE i = n + 1
    <3>1. chain[i].subject = chain[1].subject
        BY <1>1, <1>4, <2>1
    <3>2. ~(i < n + 1) /\ \A j \in 1 .. n + 1 : ~(i < j)
        BY <1>2, <2>1
    <3> QED BY <3>1, <3>2
  <2>2. CASE i # n + 1
    <3>1. i \in 1 .. n
        BY <1>2, <2>2
    <3>2. chain[i].subject = chain[1].subject
        BY <3>1 DEF Down
    <3>3. chain[i].issuer = chain[i + 1].audience
        BY <3>1, <1>1, <1>2 DEF Down
    <3>4. \A j \in 1 .. n + 1 : i < j => Covered(chain[i], chain[j])
        BY <3>1, <1>2, <1>3 DEF Down
    <3> QED BY <3>2, <3>3, <3>4
  <2> QED BY <2>1, <2>2
<1> QED BY <1>5 DEF Down

LEMMA CheckPairKeeps == IInv /\ CheckPair => IInv'
<1> SUFFICES ASSUME IInv, CheckPair PROVE IInv'
    OBVIOUS
<1> USE DEF World
<1>0. /\ UNCHANGED call /\ pc = "pairs" /\ verdict = "none"
      /\ chain \in Chains /\ index \in 1 .. Len(chain) /\ Down(index)
      /\ Len(chain) \in Nat /\ Len(chain) > 0 /\ Root.issuer = Root.subject
    BY ChainIsSequence DEF CheckPair, IInv, ShapeInv, PairInv, Started
<1>1. CASE index < Len(chain) /\ PairVerdict(chain[index], chain[index + 1]) # "ok"
    BY <1>1, <1>0, VerdictsRefuse, RefusalKeepsInv DEF CheckPair, Return
<1>2. CASE index < Len(chain) /\ PairVerdict(chain[index], chain[index + 1]) = "ok"
  <2>1. /\ pc' = "pairs" /\ index' = index + 1 /\ verdict' = verdict
        /\ effective' = effective /\ effective = NoAud
    BY <1>0, <1>2 DEF CheckPair, GoTo, IInv, AudInv
  <2>2. Down(index + 1)
    BY <1>0, <1>2, DownGrows
  <2>3. ShapeInv'
    BY <1>0, <2>1 DEF ShapeInv, Root, call
  <2>4. (index \in 1 .. Len(chain) /\ Down(index))'
    <3>1. chain' = chain /\ index + 1 \in 1 .. Len(chain)
        BY <1>0, <1>2 DEF call
    <3> QED BY <2>1, <2>2, <3>1 DEF Down, Covered
  <2>5. PairInv'
    BY <2>1, <2>4, <1>0 DEF PairInv, Started, Walking
  <2> QED BY <1>0, <2>1, <2>3, <2>5 DEF IInv, AudInv, WalkInv, Walking, NoAud
<1>3. CASE index = Len(chain)
  <2>1. Down(Len(chain)) /\ verdict' = verdict
    BY <1>0, <1>3 DEF CheckPair, GoTo
  <2>2. ~(index < Len(chain))
    BY <1>0, <1>3
  <2>3. Down(Len(chain))'
    BY <1>0, <2>1 DEF Down, Covered, call
  <2>4. CASE options.purpose = "record"
    <3>1. pc' = "window" /\ index' = 1
        BY <2>2, <2>4 DEF CheckPair, GoTo
    <3>2. ShapeInv' /\ PairInv'
        BY <1>0, <2>1, <2>3, <3>1 DEF ShapeInv, PairInv, Root, call
    <3>3. AudInv'
        BY <1>0, <2>4, <3>1 DEF AudInv, call
    <3>4. WalkInv'
        BY <1>0, <2>1, <3>1 DEF WalkInv, Walking, Judged, call
    <3> QED BY <3>2, <3>3, <3>4 DEF IInv
  <2>5. CASE options.purpose # "record"
    <3>1. pc' = "aud" /\ index' = Len(chain) /\ effective' = effective
        BY <2>2, <2>5 DEF CheckPair, GoTo
    <3>2. ShapeInv' /\ PairInv'
        BY <1>0, <2>1, <2>3, <3>1 DEF ShapeInv, PairInv, Root, call
    <3>3. effective = NoAud
        BY <1>0 DEF IInv, AudInv
    <3>4. AudInv'
        BY <1>0, <2>1, <3>1, <3>3 DEF AudInv, Narrowed, Walking, Carries, call
    <3>5. WalkInv'
        BY <1>0, <2>1, <3>1 DEF WalkInv, Walking, call
    <3> QED BY <3>2, <3>4, <3>5 DEF IInv
  <2> QED BY <2>4, <2>5
<1> QED BY <1>0, <1>1, <1>2, <1>3

LEMMA NarrowAudKeeps == IInv /\ NarrowAud => IInv'
<1> SUFFICES ASSUME IInv, NarrowAud PROVE IInv'
    OBVIOUS
<1> USE DEF World
<1>0. /\ UNCHANGED call /\ chain' = chain /\ pc = "aud" /\ verdict = "none"
      /\ index \in 1 .. Len(chain) /\ Narrowed(index)
      /\ Len(chain) \in Nat /\ Down(Len(chain)) /\ ShapeInv
    BY ChainIsSequence DEF NarrowAud, IInv, ShapeInv, PairInv, AudInv, Started, call
<1> DEFINE link == chain[index]
           widens == Carries(link) /\ effective # NoAud /\ ~(link.aud \subseteq effective)
<1>1. CASE widens
    BY <1>1, <1>0, RefusalKeepsInv DEF NarrowAud, Return
<1>2. CASE ~widens
  <2>1. /\ pc' = "aud" /\ index' = index - 1 /\ verdict' = verdict
        /\ effective' = IF Carries(link) THEN link.aud ELSE effective
    BY <1>2 DEF NarrowAud, GoTo
  <2>2. ShapeInv'
    BY <1>0, <2>1 DEF ShapeInv, Started, Root
  <2>3. PairInv'
    BY <1>0, <2>1 DEF PairInv, Down, Covered
  <2>4. ASSUME NEW i \in 1 .. Len(chain), i > index - 1, Carries(chain[i])
        PROVE  effective' # NoAud /\ effective' \subseteq chain[i].aud
    <3>1. CASE i = index
        BY <2>1, <2>4, <3>1 DEF Carries
    <3>2. CASE i > index
      <4>1. effective # NoAud /\ effective \subseteq chain[i].aud
        BY <1>0, <2>4, <3>2 DEF Narrowed
      <4> QED BY <1>2, <2>1, <4>1 DEF Carries
    <3> QED BY <1>0, <2>4, <3>1, <3>2
  <2>5. effective' # NoAud => \E i \in 1 .. Len(chain) : Carries(chain[i])
    BY <1>0, <2>1 DEF Narrowed
  <2>6. (index \in 0 .. Len(chain) /\ Narrowed(index))'
    BY <1>0, <2>1, <2>4, <2>5 DEF Narrowed, Carries, NoAud
  <2>7. AudInv'
    BY <1>0, <2>1, <2>6 DEF AudInv, Walking
  <2> QED BY <1>0, <2>1, <2>2, <2>3, <2>7 DEF IInv, WalkInv, Walking
<1> QED BY <1>1, <1>2

LEMMA AdmitVerifierKeeps == IInv /\ AdmitVerifier => IInv'
<1> SUFFICES ASSUME IInv, AdmitVerifier PROVE IInv'
    OBVIOUS
<1> USE DEF World
<1>0. /\ UNCHANGED call /\ chain' = chain /\ options' = options
      /\ pc = "aud" /\ verdict = "none" /\ index = 0 /\ Narrowed(0)
      /\ Len(chain) \in Nat /\ Len(chain) > 0 /\ Down(Len(chain)) /\ ShapeInv
    BY ChainIsSequence
    DEF AdmitVerifier, IInv, ShapeInv, PairInv, AudInv, Started, call
<1>1. CASE AudVerdict # "ok"
    BY <1>1, <1>0, VerdictsRefuse, RefusalKeepsInv DEF AdmitVerifier, Return
<1>2. CASE AudVerdict = "ok"
  <2>1. pc' = "window" /\ index' = 1 /\ verdict' = verdict
    BY <1>2 DEF AdmitVerifier, GoTo
  <2>2. ShapeInv'
    BY <1>0, <2>1 DEF ShapeInv, Started, Root
  <2>3. PairInv'
    BY <1>0, <2>1 DEF PairInv, Down, Covered
  <2>4. \A i \in 1 .. Len(chain) :
           Carries(chain[i]) => effective # NoAud /\ effective \subseteq chain[i].aud
    BY <1>0 DEF Narrowed
  <2>5. effective # NoAud => options.verifierId \in effective
    BY <1>2 DEF AudVerdict
  <2>6. options.purpose = "request" /\ options.requireAud => effective # NoAud
    BY <1>2 DEF AudVerdict
  <2>7. effective # NoAud => \E i \in 1 .. Len(chain) : Carries(chain[i])
    BY <1>0 DEF Narrowed
  <2>8. Admitted
    BY <2>4, <2>5, <2>6, <2>7 DEF Admitted
  <2>9. Admitted'
    BY <1>0, <2>8 DEF Admitted, Carries, NoAud
  <2>10. AudInv'
    BY <2>1, <2>9 DEF AudInv
  <2>11. WalkInv'
    BY <1>0, <2>1 DEF WalkInv, Walking, Judged
  <2> QED BY <2>2, <2>3, <2>10, <2>11 DEF IInv
<1> QED BY <1>1, <1>2

-------------------------------------------------------------------------------
(* The walk over the links.  A step at a link adds to what is known of it. *)
LEMMA WalkOnKeepsInv ==
    ASSUME IInv, UNCHANGED <<call, index, verdict>>, Walking, Walking', pc' # "window",
           pc' \in {"issuer", "judge"} =>
               Judged(index - 1) /\ WindowVerdict(chain[index]) = "ok",
           pc' \in {"lookup", "candidates"} => Judged(index)
    PROVE  IInv'
<1>0. /\ chain' = chain /\ options' = options /\ index' = index /\ verdict' = verdict
      /\ index \in 1 .. Len(chain) /\ verdict = "none" /\ ShapeInv
      /\ Down(Len(chain)) /\ (options.purpose = "record" \/ Admitted)
    BY DEF IInv, ShapeInv, PairInv, AudInv, WalkInv, Walking, Started, call
<1>1. ShapeInv'
    BY <1>0 DEF ShapeInv, Started, Root
<1>2. PairInv'
    BY <1>0 DEF PairInv, Walking, Down, Covered
<1>3. AudInv'
    BY <1>0 DEF AudInv, Walking, Admitted, Carries, NoAud
<1>4. (pc \in {"issuer", "judge"} => Judged(index - 1) /\ WindowVerdict(chain[index]) = "ok")'
    BY <1>0, WindowStays DEF Judged, Digest
<1>5. (pc \in {"lookup", "candidates"} => Judged(index))'
    BY <1>0, WindowStays DEF Judged, Digest
<1>6. WalkInv'
    BY <1>0, <1>4, <1>5 DEF WalkInv
<1> QED BY <1>1, <1>2, <1>3, <1>6 DEF IInv

(* Leaving a link that was judged: the next one, or a chain that is accepted. *)
LEMMA NextLinkKeepsInv ==
    ASSUME IInv, UNCHANGED call, Walking, Judged(index), NextLink
    PROVE  IInv'
<1>0. /\ chain' = chain /\ options' = options
      /\ Len(chain) \in Nat /\ index \in 1 .. Len(chain) /\ verdict = "none" /\ ShapeInv
      /\ Down(Len(chain)) /\ (options.purpose = "record" \/ Admitted)
      /\ Len(chain) > 0 /\ Root.issuer = Root.subject
    BY ChainIsSequence
    DEF IInv, ShapeInv, PairInv, AudInv, WalkInv, Walking, Started, call
<1>1. pc' \in {"window", "done"} /\ (pc' = "done" \/ verdict' = "none")
    BY <1>0 DEF NextLink, GoTo, Return
<1>2. ShapeInv'
    BY <1>0, <1>1 DEF ShapeInv, Root
<1>3. PairInv'
    BY <1>0, <1>1 DEF PairInv, Down, Covered
<1>4. AudInv'
    BY <1>0, <1>1 DEF AudInv, Admitted, Carries, NoAud
<1>5. CASE index < Len(chain)
  <2>1. pc' = "window" /\ index' = index + 1 /\ verdict' = "none"
    BY <1>0, <1>5 DEF NextLink, GoTo
  <2>2. (index \in 1 .. Len(chain) /\ Judged(index - 1))'
    BY <1>0, <1>5, <2>1, WindowStays DEF Judged, Digest
  <2> QED BY <1>2, <1>3, <1>4, <2>1, <2>2 DEF IInv, WalkInv
<1>6. CASE index = Len(chain)
  <2>1. pc' = "done"
    BY <1>0, <1>6 DEF NextLink, Return
  <2>2. Judged(Len(chain))'
    BY <1>0, <1>6, WindowStays DEF Judged, Digest
  <2> QED BY <1>2, <1>3, <1>4, <2>1, <2>2 DEF IInv, WalkInv, Walking
<1> QED BY <1>0, <1>5, <1>6

LEMMA CheckWindowKeeps == IInv /\ CheckWindow => IInv'
<1> SUFFICES ASSUME IInv, CheckWindow PROVE IInv'
    OBVIOUS
<1>0. UNCHANGED call /\ pc = "window" /\ Judged(index - 1) /\ Walking
    BY DEF CheckWindow, World, IInv, WalkInv, Walking
<1>1. CASE WindowVerdict(chain[index]) # "ok"
    BY <1>1, <1>0, VerdictsRefuse, RefusalKeepsInv DEF CheckWindow, Return
<1>2. CASE WindowVerdict(chain[index]) = "ok"
  <2>1. pc' = "issuer" /\ UNCHANGED <<index, verdict>>
    BY <1>2 DEF CheckWindow, GoTo
  <2> QED BY <1>0, <1>2, <2>1, WalkOnKeepsInv DEF Walking
<1> QED BY <1>1, <1>2

LEMMA ResolveIssuerKeeps ==
    ASSUME NEW answer, IInv, ResolveIssuer(answer)
    PROVE  IInv'
<1>0. /\ UNCHANGED call /\ pc = "issuer" /\ Walking
      /\ Judged(index - 1) /\ WindowVerdict(chain[index]) = "ok"
    BY DEF ResolveIssuer, World, IInv, WalkInv, Walking
<1>1. \/ pc' = "done" /\ verdict' # "valid"
      \/ pc' = "judge" /\ UNCHANGED <<index, verdict>>
    BY VerdictsRefuse DEF ResolveIssuer, Return, GoTo
<1> QED BY <1>0, <1>1, RefusalKeepsInv, WalkOnKeepsInv DEF Walking

LEMMA RecallIssuerKeeps == IInv /\ RecallIssuer => IInv'
<1> SUFFICES ASSUME IInv, RecallIssuer PROVE IInv'
    OBVIOUS
<1>0. /\ UNCHANGED call /\ pc = "issuer" /\ Walking
      /\ Judged(index - 1) /\ WindowVerdict(chain[index]) = "ok"
    BY DEF RecallIssuer, World, IInv, WalkInv, Walking
<1>1. pc' = "judge" /\ UNCHANGED <<index, verdict>>
    BY DEF RecallIssuer, GoTo
<1> QED BY <1>0, <1>1, WalkOnKeepsInv DEF Walking

(* A link that is not refused is signed, and what the link below points at. *)
LEMMA JudgeLinkKeeps == IInv /\ JudgeLink => IInv'
<1> SUFFICES ASSUME IInv, JudgeLink PROVE IInv'
    OBVIOUS
<1>0. /\ UNCHANGED call /\ pc = "judge" /\ Walking /\ index \in 1 .. Len(chain)
      /\ Len(chain) \in Nat
      /\ Judged(index - 1) /\ WindowVerdict(chain[index]) = "ok"
    BY ChainIsSequence DEF JudgeLink, World, IInv, ShapeInv, WalkInv, Walking
<1> DEFINE link == chain[index]
           signed == link.by = link.issuer
           pointed == index > 1 => chain[index - 1].proof = Digest(link)
<1>1. \/ pc' = "done" /\ verdict' # "valid"
      \/ signed /\ pointed /\ pc' = "lookup" /\ UNCHANGED <<index, verdict>>
      \/ signed /\ pointed /\ NextLink
    BY <1>0 DEF JudgeLink, Return, GoTo
<1>2. ASSUME signed, pointed PROVE Judged(index)
    BY <1>0, <1>2 DEF Judged
<1> QED BY <1>0, <1>1, <1>2, RefusalKeepsInv, WalkOnKeepsInv, NextLinkKeepsInv DEF Walking

(* The lookups: what they add is a refusal, or nothing. *)
LEMMA LookupKeeps ==
    ASSUME IInv, UNCHANGED call, pc \in {"lookup", "candidates"},
           \/ pc' = "done" /\ verdict' # "valid"
           \/ pc' = "candidates" /\ UNCHANGED <<index, verdict>>
           \/ NextLink
    PROVE  IInv'
<1>1. Walking /\ Judged(index)
    BY DEF IInv, WalkInv, Walking
<1> QED BY <1>1, RefusalKeepsInv, WalkOnKeepsInv, NextLinkKeepsInv DEF Walking

LEMMA AskRevocationsKeeps == IInv /\ AskRevocations => IInv'
BY LookupKeeps DEF AskRevocations, World, Return, GoTo

LEMMA ResolveRevokerKeeps ==
    ASSUME NEW answer, IInv, ResolveRevoker(answer)
    PROVE  IInv'
BY LookupKeeps DEF ResolveRevoker, World, Return, GoTo, Skip, AtCandidate

LEMMA SkipIrrelevantKeeps == IInv /\ SkipIrrelevant => IInv'
BY LookupKeeps DEF SkipIrrelevant, World, GoTo, Skip, AtCandidate

LEMMA JudgeCandidateKeeps == IInv /\ JudgeCandidate => IInv'
BY LookupKeeps DEF JudgeCandidate, Unaffordable, World, Return, GoTo, Skip, AtCandidate

LEMMA NotRevokedKeeps == IInv /\ NotRevoked => IInv'
BY LookupKeeps DEF NotRevoked, World

LEMMA ViewThrowsKeeps == IInv /\ ViewThrows => IInv'
BY RefusalKeepsInv DEF ViewThrows, World, Return

LEMMA PublishRevocationKeeps == IInv /\ PublishRevocation => IInv'
BY SamePlaceKeepsInv DEF PublishRevocation

-------------------------------------------------------------------------------
(* Every step of the function and of the world keeps the invariant. *)
LEMMA StepKeepsInv == IInv /\ [Next]_vars => IInv'
<1> SUFFICES ASSUME IInv, [Next]_vars PROVE IInv'
    OBVIOUS
<1>1. CASE CheckShape BY <1>1, CheckShapeKeeps
<1>2. CASE CheckPair BY <1>2, CheckPairKeeps
<1>3. CASE NarrowAud BY <1>3, NarrowAudKeeps
<1>4. CASE AdmitVerifier BY <1>4, AdmitVerifierKeeps
<1>5. CASE CheckWindow BY <1>5, CheckWindowKeeps
<1>6. CASE RecallIssuer BY <1>6, RecallIssuerKeeps
<1>7. CASE JudgeLink BY <1>7, JudgeLinkKeeps
<1>8. ASSUME NEW answer \in LogAnswer, ResolveIssuer(answer) \/ ResolveRevoker(answer)
      PROVE  IInv'
    BY <1>8, ResolveIssuerKeeps, ResolveRevokerKeeps
<1>9. CASE AskRevocations BY <1>9, AskRevocationsKeeps
<1>10. CASE ViewThrows BY <1>10, ViewThrowsKeeps
<1>11. CASE SkipIrrelevant BY <1>11, SkipIrrelevantKeeps
<1>12. CASE JudgeCandidate BY <1>12, JudgeCandidateKeeps
<1>13. CASE NotRevoked BY <1>13, NotRevokedKeeps
<1>14. CASE PublishRevocation BY <1>14, PublishRevocationKeeps
<1>15. CASE UNCHANGED vars
    BY <1>15, SamePlaceKeepsInv DEF vars
<1> QED
    BY <1>1, <1>2, <1>3, <1>4, <1>5, <1>6, <1>7, <1>8, <1>9, <1>10, <1>11, <1>12,
       <1>13, <1>14, <1>15
    DEF Next, Step

(* What was established when the function returns "valid". *)
LEMMA InvImpliesNarrows == IInv => AcceptedChainNarrows
<1> SUFFICES ASSUME IInv, verdict = "valid" PROVE AcceptedChainNarrows
    BY DEF AcceptedChainNarrows
<1>1. /\ Len(chain) \in Nat /\ DOMAIN chain = 1 .. Len(chain) /\ Len(chain) > 0
      /\ Root.issuer = Root.subject /\ Down(Len(chain)) /\ Judged(Len(chain))
      /\ (options.purpose = "record" \/ Admitted)
    BY ChainIsSequence DEF IInv, ShapeInv, PairInv, AudInv, WalkInv, Started
<1>2. ASSUME NEW i \in 1 .. Len(chain)
      PROVE  /\ chain[i].by = chain[i].issuer
             /\ chain[i].subject = Root.subject
             /\ chain[i].expiresAt = Never \/ ~(chain[i].expiresAt <= options.at)
             /\ options.purpose = "record" => ~(options.at < chain[i].issuedAt)
             /\ options.purpose # "record" => CaveatsAdmitted(chain[i])
             /\ i < Len(chain) => /\ chain[i].proof = Digest(chain[i + 1])
                                  /\ chain[i].issuer = chain[i + 1].audience
  <2>1. chain[i].subject = chain[1].subject /\ Root.subject = chain[1].subject
    BY <1>1 DEF Down, Root
  <2>2. chain[i].by = chain[i].issuer /\ WindowVerdict(chain[i]) = "ok"
    BY <1>1 DEF Judged
  <2>3. ASSUME i < Len(chain) PROVE chain[i].proof = Digest(chain[i + 1])
    <3>1. i + 1 \in 1 .. Len(chain) /\ i + 1 > 1 /\ (i + 1) - 1 = i
        BY <1>1, <2>3
    <3>2. chain[(i + 1) - 1].proof = Digest(chain[i + 1])
        BY <1>1, <3>1 DEF Judged
    <3> QED BY <3>1, <3>2
  <2>4. i < Len(chain) => chain[i].issuer = chain[i + 1].audience
    BY <1>1 DEF Down
  <2>5. /\ chain[i].expiresAt = Never \/ ~(chain[i].expiresAt <= options.at)
        /\ options.purpose = "record" => ~(options.at < chain[i].issuedAt)
        /\ options.purpose # "record" => CaveatsAdmitted(chain[i])
    BY <2>2 DEF WindowVerdict
  <2> QED BY <2>1, <2>2, <2>3, <2>4, <2>5
<1>3. \A i, j \in 1 .. Len(chain) : i < j => Covered(chain[i], chain[j])
    BY <1>1 DEF Down
<1>4. options.purpose # "record" => Admitted
    BY <1>1
<1> QED BY <1>1, <1>2, <1>3, <1>4 DEF AcceptedChainNarrows, Admitted, Covered

(* verifyGrantChain: whatever the chain, however long, and whatever the view   *)
(* answered, "valid" is returned only for a chain that narrows the authority   *)
(* of its self-issued root, link by link and therefore end to end.             *)
THEOREM ChainNarrows == Spec => []AcceptedChainNarrows
<1>1. Init => IInv
    BY InitEstablishes
<1>2. IInv /\ [Next]_vars => IInv'
    BY StepKeepsInv
<1>3. IInv => AcceptedChainNarrows
    BY InvImpliesNarrows
<1> QED BY <1>1, <1>2, <1>3, PTL DEF Spec

-------------------------------------------------------------------------------
(* Counting up: a set that has nought, and with every number below N the next, *)
(* has all numbers up to N.                                                    *)
LEMMA CountingUp ==
    ASSUME NEW N \in Nat, NEW P, 0 \in P,
           ASSUME NEW n \in 0 .. N, n < N, n \in P PROVE n + 1 \in P
    PROVE  \A n \in 0 .. N : n \in P
<1> DEFINE Missing == {n \in 0 .. N : n \notin P}
<1>1. ASSUME Missing # {} PROVE FALSE
  <2>1. Missing \subseteq Nat
    OBVIOUS
  <2>2. PICK least \in Missing : \A n \in Missing : ~(<<n, least>> \in OpToRel(<, Nat))
    <3> HIDE DEF Missing
    <3> QED BY <1>1, <2>1, WFMin, NatLessThanWellFounded
  <2>3. \A n \in Missing : ~(n < least)
    BY <2>1, <2>2 DEF OpToRel
  <2>4. least # 0
    OBVIOUS
  <2>5. least - 1 \in 0 .. N /\ least - 1 < N /\ (least - 1) + 1 = least
    BY <2>4
  <2>6. least - 1 \notin Missing
    <3> HIDE DEF Missing
    <3> QED BY <2>1, <2>3, <2>5
  <2>7. least - 1 \in P
    BY <2>5, <2>6
  <2> QED BY <2>5, <2>7
<1> QED BY <1>1

(* A function may be defined by its value at nought and each value from the    *)
(* one before.                                                                 *)
LEMMA RecursionExists ==
    ASSUME NEW N \in Nat, NEW start \in Nat, NEW step \in [1 .. N -> [Nat -> Nat]]
    PROVE  \E g \in [0 .. N -> Nat] :
              g = [n \in 0 .. N |-> IF n = 0 THEN start ELSE step[n][g[n - 1]]]
<1> DEFINE Follows(g, m) == \A n \in 0 .. m : g[n] = IF n = 0 THEN start ELSE step[n][g[n - 1]]
           Reached == {m \in 0 .. N : \E g \in [0 .. N -> Nat] : Follows(g, m)}
<1>1. 0 \in Reached
  <2> DEFINE constant == [n \in 0 .. N |-> start]
  <2>1. constant \in [0 .. N -> Nat] /\ Follows(constant, 0)
    OBVIOUS
  <2> HIDE DEF constant, Follows
  <2>2. \E g \in [0 .. N -> Nat] : Follows(g, 0)
    BY <2>1
  <2>3. 0 \in 0 .. N
    OBVIOUS
  <2> QED BY <2>2, <2>3, Zenon
<1>2. ASSUME NEW m \in 0 .. N, m < N, m \in Reached
      PROVE  m + 1 \in Reached
  <2>1. PICK g \in [0 .. N -> Nat] : Follows(g, m)
    BY <1>2
  <2> DEFINE h == [g EXCEPT ![m + 1] = step[m + 1][g[m]]]
  <2>2. m + 1 \in 1 .. N /\ g[m] \in Nat
    BY <1>2, <2>1
  <2>3. step[m + 1][g[m]] \in Nat
    BY <2>2
  <2>4. h \in [0 .. N -> Nat]
    BY <2>1, <2>3
  <2>5. ASSUME NEW n \in 0 .. m + 1
        PROVE  h[n] = IF n = 0 THEN start ELSE step[n][h[n - 1]]
    <3>1. CASE n = m + 1
      <4>1. h[n] = step[m + 1][g[m]] /\ n # 0 /\ n - 1 = m /\ h[m] = g[m]
        BY <1>2, <2>1, <2>2, <3>1
      <4> QED BY <3>1, <4>1
    <3>2. CASE n # m + 1
      <4>1. n \in 0 .. m /\ h[n] = g[n]
        BY <1>2, <2>1, <2>2, <3>2
      <4>2. n # 0 => n - 1 \in 0 .. m /\ h[n - 1] = g[n - 1]
        BY <1>2, <2>1, <2>2, <4>1
      <4> QED BY <2>1, <4>1, <4>2
    <3> QED BY <3>1, <3>2
  <2>6. Follows(h, m + 1)
    BY <2>5
  <2>7. m + 1 \in 0 .. N
    BY <2>2
  <2> HIDE DEF h, Follows
  <2> QED BY <2>4, <2>6, <2>7, Zenon
<1>3. N \in Reached
  <2> HIDE DEF Reached
  <2>1. \A m \in 0 .. N : m \in Reached
    BY <1>1, <1>2, CountingUp
  <2> QED BY <2>1
<1>4. PICK g \in [0 .. N -> Nat] : Follows(g, N)
  BY <1>3
<1>5. g = [n \in 0 .. N |-> IF n = 0 THEN start ELSE step[n][g[n - 1]]]
  BY <1>4
<1> QED BY <1>5

-----------------------------------------------------------------------------
(* The powers of ten are what their definition says. *)
LEMMA TenToDef ==
    /\ TenTo \in [0 .. MaxPlaces -> Nat]
    /\ TenTo[0] = 1
    /\ \A n \in 1 .. MaxPlaces : TenTo[n] = 10 * TenTo[n - 1]
<1> DEFINE times == [n \in 1 .. MaxPlaces |-> [x \in Nat |-> 10 * x]]
<1>0. MaxPlaces \in Nat
  BY CaveatAssumption DEF CaveatAssumption
<1>1. times \in [1 .. MaxPlaces -> [Nat -> Nat]]
  OBVIOUS
<1>2. PICK g \in [0 .. MaxPlaces -> Nat] :
         g = [n \in 0 .. MaxPlaces |-> IF n = 0 THEN 1 ELSE times[n][g[n - 1]]]
  <2> HIDE DEF times
  <2>1. \A start \in Nat, step \in [1 .. MaxPlaces -> [Nat -> Nat]] :
           \E g \in [0 .. MaxPlaces -> Nat] :
              g = [n \in 0 .. MaxPlaces |-> IF n = 0 THEN start ELSE step[n][g[n - 1]]]
    BY <1>0, RecursionExists
  <2>2. 1 \in Nat
    OBVIOUS
  <2> QED BY <1>1, <2>1, <2>2, Zenon
<1>3. g = [n \in 0 .. MaxPlaces |-> IF n = 0 THEN 1 ELSE 10 * g[n - 1]]
  <2>1. \A n \in 0 .. MaxPlaces : n # 0 => times[n][g[n - 1]] = 10 * g[n - 1]
    <3>1. \A n \in 1 .. MaxPlaces : g[n - 1] \in Nat
      <4> HIDE DEF times
      <4> QED BY <1>0, <1>2
    <3>2. \A n \in 1 .. MaxPlaces, x \in Nat : times[n][x] = 10 * x
      OBVIOUS
    <3>3. \A n \in 0 .. MaxPlaces : n # 0 => n \in 1 .. MaxPlaces
      BY <1>0
    <3> HIDE DEF times
    <3> QED BY <3>1, <3>2, <3>3, Zenon
  <2> HIDE DEF times
  <2> QED BY <1>2, <2>1
<1>4. TenTo = [n \in 0 .. MaxPlaces |-> IF n = 0 THEN 1 ELSE 10 * TenTo[n - 1]]
  BY <1>3 DEF TenTo
<1>5. TenTo[0] = 1 /\ \A n \in 1 .. MaxPlaces : TenTo[n] = 10 * TenTo[n - 1]
  BY <1>0, <1>4
<1>6. TenTo \in [0 .. MaxPlaces -> Nat]
  <2> DEFINE Good == {n \in 0 .. MaxPlaces : TenTo[n] \in Nat}
  <2>1. 0 \in Good
    BY <1>0, <1>5
  <2>2. ASSUME NEW n \in 0 .. MaxPlaces, n < MaxPlaces, n \in Good
        PROVE  n + 1 \in Good
    <3>1. TenTo[n + 1] = 10 * TenTo[n]
      BY <1>0, <1>5, <2>2
    <3> QED BY <1>0, <2>2, <3>1
  <2>3. \A n \in 0 .. MaxPlaces : n \in Good
    <3> HIDE DEF Good
    <3> QED BY <1>0, <2>1, <2>2, CountingUp
  <2> QED BY <1>4, <2>3
<1> QED BY <1>5, <1>6

(* They are positive, and shifting by m places and then by n is shifting by    *)
(* both.                                                                       *)
LEMMA TenToAdds ==
    /\ \A n \in 0 .. MaxPlaces : TenTo[n] \in Nat \ {0}
    /\ \A m, n \in 0 .. MaxPlaces :
          m + n <= MaxPlaces => TenTo[m + n] = TenTo[m] * TenTo[n]
<1>0. MaxPlaces \in Nat
  BY CaveatAssumption DEF CaveatAssumption
<1>1. \A n \in 0 .. MaxPlaces : TenTo[n] \in Nat \ {0}
  <2> DEFINE Good == {n \in 0 .. MaxPlaces : TenTo[n] \in Nat \ {0}}
  <2>1. 0 \in Good
    BY <1>0, TenToDef
  <2>2. ASSUME NEW n \in 0 .. MaxPlaces, n < MaxPlaces, n \in Good
        PROVE  n + 1 \in Good
    <3>1. TenTo[n + 1] = 10 * TenTo[n]
      BY <1>0, TenToDef, <2>2
    <3> QED BY <1>0, <2>2, <3>1
  <2>3. \A n \in 0 .. MaxPlaces : n \in Good
    <3> HIDE DEF Good
    <3> QED BY <1>0, <2>1, <2>2, CountingUp
  <2> QED BY <2>3
<1>2. ASSUME NEW m \in 0 .. MaxPlaces
      PROVE  \A n \in 0 .. MaxPlaces :
                m + n <= MaxPlaces => TenTo[m + n] = TenTo[m] * TenTo[n]
  <2> DEFINE Good == {n \in 0 .. MaxPlaces :
                         m + n <= MaxPlaces => TenTo[m + n] = TenTo[m] * TenTo[n]}
  <2>1. 0 \in Good
    <3>1. TenTo[m] \in Nat /\ TenTo[0] = 1 /\ m + 0 = m
      BY <1>0, <1>1, TenToDef
    <3> QED BY <1>0, <3>1
  <2>2. ASSUME NEW n \in 0 .. MaxPlaces, n < MaxPlaces, n \in Good
        PROVE  n + 1 \in Good
    <3>1. ASSUME m + (n + 1) <= MaxPlaces
          PROVE  TenTo[m + (n + 1)] = TenTo[m] * TenTo[n + 1]
      <4>1. n + 1 \in 1 .. MaxPlaces /\ m + (n + 1) \in 1 .. MaxPlaces
            /\ (n + 1) - 1 = n /\ (m + (n + 1)) - 1 = m + n /\ m + n <= MaxPlaces
        BY <1>0, <2>2, <3>1
      <4>2. TenTo[n + 1] = 10 * TenTo[n] /\ TenTo[m + (n + 1)] = 10 * TenTo[m + n]
        <5>1. TenTo[n + 1] = 10 * TenTo[(n + 1) - 1]
          BY <4>1, TenToDef
        <5>2. TenTo[m + (n + 1)] = 10 * TenTo[(m + (n + 1)) - 1]
          BY <4>1, TenToDef
        <5> QED BY <4>1, <5>1, <5>2
      <4>3. TenTo[m + n] = TenTo[m] * TenTo[n]
        BY <2>2, <4>1
      <4>4. TenTo[m] \in Nat /\ TenTo[n] \in Nat
        BY <1>1
      <4>5. \A x, y \in Nat : 10 * (x * y) = x * (10 * y)
        OBVIOUS
      <4> QED BY <4>2, <4>3, <4>4, <4>5
    <3> QED BY <1>0, <2>2, <3>1
  <2>3. \A n \in 0 .. MaxPlaces : n \in Good
    <3> HIDE DEF Good
    <3> QED BY <1>0, <2>1, <2>2, CountingUp
  <2> QED BY <2>3
<1> QED BY <1>1, <1>2

(* amountAtMost compares two amounts as the rationals they write. *)
LEMMA ComparesRationals ==
    ASSUME NEW x, NEW y, AmountSchema(x), AmountSchema(y), AmountAtMost(x, y)
    PROVE  x.units * TenTo[y.places] <= y.units * TenTo[x.places]
<1>0. /\ MaxPlaces \in Nat /\ MaxUnits \in Nat
      /\ x.units \in Nat /\ x.places \in 0 .. MaxPlaces
      /\ y.units \in Nat /\ y.places \in 0 .. MaxPlaces
  BY CaveatAssumption DEF CaveatAssumption, AmountSchema
<1> DEFINE p == x.places
           q == y.places
           a == x.units
           b == y.units
<1> HIDE DEF p, q, a, b
<1>00. a \in Nat /\ b \in Nat /\ p \in 0 .. MaxPlaces /\ q \in 0 .. MaxPlaces
  BY <1>0 DEF p, q, a, b
<1>1. CASE p <= q
  <2>1. a * TenTo[q - p] <= b * TenTo[q - q]
    BY <1>1, <1>00 DEF AmountAtMost, Scaled, Greater, p, q, a, b
  <2>2. q - p \in 0 .. MaxPlaces /\ (q - p) + p = q /\ q - q = 0
    BY <1>0, <1>00, <1>1
  <2>3. TenTo[q] = TenTo[q - p] * TenTo[p]
    <3>1. (q - p) + p <= MaxPlaces => TenTo[(q - p) + p] = TenTo[q - p] * TenTo[p]
      BY <1>00, <2>2, TenToAdds
    <3> QED BY <1>0, <1>00, <2>2, <3>1
  <2>4. a * TenTo[q - p] <= b
    BY <1>00, <2>1, <2>2, TenToDef
  <2>5. TenTo[q - p] \in Nat /\ TenTo[p] \in Nat
    BY <1>00, <2>2, TenToAdds
  <2>6. ASSUME NEW c \in Nat, NEW d \in Nat, a * c <= b
        PROVE  a * (c * d) <= b * d
    BY <1>00, <2>6
  <2>7. a * TenTo[q] <= b * TenTo[p]
    BY <2>3, <2>4, <2>5, <2>6
  <2> QED BY <2>7 DEF a, b, p, q
<1>2. CASE ~(p <= q)
  <2>1. a * TenTo[p - p] <= b * TenTo[p - q]
    <3>1. p >= q
      BY <1>00, <1>2
    <3>2. Greater(p, q) = p
      BY <1>00, <1>2 DEF Greater
    <3> QED BY <3>2 DEF AmountAtMost, Scaled, p, q, a, b
  <2>2. p - q \in 0 .. MaxPlaces /\ (p - q) + q = p /\ p - p = 0
    BY <1>0, <1>00, <1>2
  <2>3. TenTo[p] = TenTo[p - q] * TenTo[q]
    <3>1. (p - q) + q <= MaxPlaces => TenTo[(p - q) + q] = TenTo[p - q] * TenTo[q]
      BY <1>00, <2>2, TenToAdds
    <3> QED BY <1>0, <1>00, <2>2, <3>1
  <2>4. a <= b * TenTo[p - q]
    BY <1>00, <2>1, <2>2, TenToDef
  <2>5. TenTo[p - q] \in Nat /\ TenTo[q] \in Nat
    BY <1>00, <2>2, TenToAdds
  <2>6. ASSUME NEW c \in Nat, NEW d \in Nat, a <= b * c
        PROVE  a * d <= b * (c * d)
    BY <1>00, <2>6
  <2>7. a * TenTo[q] <= b * TenTo[p]
    BY <2>3, <2>4, <2>5, <2>6
  <2> QED BY <2>7 DEF a, b, p, q
<1> QED BY <1>1, <1>2

(* One grant's caveats, where they are met. *)
Within(caveats, action) ==
    /\ DOMAIN caveats \subseteq ADMITTED_KEYS
    /\ "maxAmount" \in DOMAIN caveats =>
          /\ {"amount", "currency"} \subseteq DOMAIN action
          /\ "currency" \in DOMAIN caveats
          /\ action.amount.units * TenTo[caveats.maxAmount.places]
                <= caveats.maxAmount.units * TenTo[action.amount.places]
    /\ "currency" \in DOMAIN caveats => caveats.currency = action.currency
    /\ "beneficiary" \in DOMAIN caveats => action.beneficiary \in caveats.beneficiary
    /\ "actionId" \in DOMAIN caveats => caveats.actionId = action.actionId
    /\ "approvalTier" \in DOMAIN caveats =>
          /\ "approvalTier" \in DOMAIN action
          /\ action.approvalTier \in caveats.approvalTier .. MaxTier

(* An evaluated set of caveats bounds the action.                              *)
LEMMA EvaluatedIsWithin ==
    ASSUME NEW caveats, NEW action, EvaluateFinancialCaveats(caveats, action)
    PROVE  Within(caveats, action)
<1>1. ASSUME "maxAmount" \in DOMAIN caveats
      PROVE  /\ {"amount", "currency"} \subseteq DOMAIN action
             /\ "currency" \in DOMAIN caveats
             /\ action.amount.units * TenTo[caveats.maxAmount.places]
                   <= caveats.maxAmount.units * TenTo[action.amount.places]
  <2>1. WithinCap(caveats, action)
    BY <1>1 DEF EvaluateFinancialCaveats
  <2>2. {"amount", "currency"} \subseteq DOMAIN action /\ "currency" \in DOMAIN caveats
    BY <2>1 DEF WithinCap, States
  <2>3. action.amount.units * TenTo[caveats.maxAmount.places]
           <= caveats.maxAmount.units * TenTo[action.amount.places]
    BY <2>1, ComparesRationals DEF WithinCap
  <2> QED BY <2>2, <2>3
<1>2. ASSUME "approvalTier" \in DOMAIN caveats
      PROVE  /\ "approvalTier" \in DOMAIN action
             /\ action.approvalTier \in caveats.approvalTier .. MaxTier
  <2>1. Approved(caveats, action)
    BY <1>2 DEF EvaluateFinancialCaveats
  <2>2. MaxTier \in Nat
    BY CaveatAssumption DEF CaveatAssumption
  <2> QED BY <2>1, <2>2 DEF Approved, States
<1>3. "currency" \in DOMAIN caveats => caveats.currency = action.currency
  BY DEF EvaluateFinancialCaveats, InCurrency
<1>4. "beneficiary" \in DOMAIN caveats => action.beneficiary \in caveats.beneficiary
  BY DEF EvaluateFinancialCaveats, ToBeneficiary
<1>5. "actionId" \in DOMAIN caveats => caveats.actionId = action.actionId
  BY DEF EvaluateFinancialCaveats, IsTheAction
<1>6. DOMAIN caveats \subseteq ADMITTED_KEYS
  BY DEF EvaluateFinancialCaveats
<1> QED BY <1>1, <1>2, <1>3, <1>4, <1>5, <1>6 DEF Within

LEMMA NarrowedChainSpendsWithin ==
    ASSUME IInv, AcceptedChainNarrows
    PROVE  SpendingWithinEveryLink
<1> SUFFICES ASSUME verdict = "valid", options.purpose # "record"
             PROVE  SpendingWithinEveryLink
    BY DEF SpendingWithinEveryLink
<1>1. ASSUME NEW i \in DOMAIN chain
      PROVE  /\ DOMAIN chain[i].caveats # {} =>
                   options.evaluates /\ Within(chain[i].caveats, options.action)
             /\ DOMAIN chain[i].caveats = {} => Within(chain[i].caveats, options.action)
  <2>1. CaveatsAdmitted(chain[i])
    BY DEF AcceptedChainNarrows
  <2>2. DOMAIN chain[i].caveats = {} => Within(chain[i].caveats, options.action)
    BY DEF Within
  <2> QED BY <2>1, <2>2, EvaluatedIsWithin DEF CaveatsAdmitted
<1>2. ASSUME NEW i \in DOMAIN chain, NEW j \in DOMAIN chain
      PROVE  LET mine == chain[i].caveats
                 others == chain[j].caveats
                 action == options.action
             IN  /\ {"currency"} \subseteq DOMAIN mine \cap DOMAIN others
                    => mine.currency = others.currency
                 /\ {"beneficiary"} \subseteq DOMAIN mine \cap DOMAIN others
                    => action.beneficiary \in mine.beneficiary \cap others.beneficiary
                 /\ {"actionId"} \subseteq DOMAIN mine \cap DOMAIN others
                    => mine.actionId = others.actionId
  <2>1. Within(chain[i].caveats, options.action) /\ Within(chain[j].caveats, options.action)
    BY <1>1
  <2> QED BY <2>1 DEF Within
<1>3. ASSUME NEW i \in DOMAIN chain
      PROVE  LET caveats == chain[i].caveats
                 action == options.action
             IN  /\ DOMAIN caveats # {} => options.evaluates
                 /\ DOMAIN caveats \subseteq ADMITTED_KEYS
                 /\ "maxAmount" \in DOMAIN caveats =>
                       /\ {"amount", "currency"} \subseteq DOMAIN action
                       /\ "currency" \in DOMAIN caveats
                       /\ action.amount.units * TenTo[caveats.maxAmount.places]
                             <= caveats.maxAmount.units * TenTo[action.amount.places]
                 /\ "approvalTier" \in DOMAIN caveats =>
                       /\ "approvalTier" \in DOMAIN action
                       /\ action.approvalTier \in caveats.approvalTier .. MaxTier
  BY <1>1 DEF Within
<1> QED BY <1>2, <1>3 DEF SpendingWithinEveryLink

(* Delegated spending: for every number of links, of any caveats and places,   *)
(* an accepted action is within the caveats of all of them.                    *)
THEOREM ChainSpendsWithinEveryLink == Spec => []SpendingWithinEveryLink
<1>1. Init => IInv
    BY InitEstablishes
<1>2. IInv /\ [Next]_vars => IInv'
    BY StepKeepsInv
<1>3. IInv => SpendingWithinEveryLink
    BY InvImpliesNarrows, NarrowedChainSpendsWithin
<1> QED BY <1>1, <1>2, <1>3, PTL DEF Spec

-------------------------------------------------------------------------------
(* What a revocation lookup has to work on: records that are published, each   *)
(* its issuer's own, and others that nobody signed.                            *)
Issuers == {chain[i].issuer : i \in 1 .. Len(chain)}

(* Records that carry an id but nobody's signature.                            *)
Fakes ==
    {Forged(p, revokes, anchor) :
        p \in Issuers,
        revokes \in {Digest(chain[i]) : i \in 1 .. Len(chain)} \cup {NoProof},
        anchor \in {1, MaxLog + 1}}

(* What is at hand was published or is a fake, and what counted was published. *)
RecordsInv ==
    /\ IsFiniteSet(revoked) /\ revokedBefore \subseteq revoked
    /\ \A r \in revoked :
          r.issuer \in Participant /\ r.by = r.issuer /\ r.anchor = LogLength[r.issuer]
    /\ memo \in [Participant -> 0 .. MaxLog]
    /\ pending \in Seq(revoked \cup Fakes)
    /\ view = "honest" =>
          /\ \A p \in Participant : memo[p] \in {Unasked, LogLength[p]}
          /\ \A n \in 1 .. Len(pending) : pending[n] \in revoked
    /\ verdict = "grant_revoked" =>
          \E i \in 1 .. Len(chain) : \E r \in revoked :
             r.revokes = Digest(chain[i]) /\ r.issuer \in AuthorizedRevokers(i)

(* The revocations of link i that were there before the call. *)
Withdrawn(i) ==
    {r \in revokedBefore : r.revokes = Digest(chain[i]) /\ r.issuer \in AuthorizedRevokers(i)}

(* The links left behind have none, and those of the link in hand are among    *)
(* the candidates not yet looked at.                                           *)
NoticeInv ==
    view = "honest" /\ ChecksRevocation =>
        /\ Walking => \A i \in 1 .. index - 1 : Withdrawn(i) = {}
        /\ pc = "candidates" =>
              \A r \in Withdrawn(index) : \E n \in 1 .. Len(pending) : pending[n] = r
        /\ verdict = "valid" => \A i \in 1 .. Len(chain) : Withdrawn(i) = {}

-----------------------------------------------------------------------------
(* The issuers are as many as the links, at most. *)
LEMMA IssuersAreFew ==
    ASSUME chain \in Chains
    PROVE  /\ IsFiniteSet(Issuers) /\ Cardinality(Issuers) <= Len(chain)
           /\ \A i \in 1 .. Len(chain) :
                 /\ AuthorizedRevokers(i) \subseteq Issuers
                 /\ IsFiniteSet(AuthorizedRevokers(i))
                 /\ Cardinality(AuthorizedRevokers(i)) \in Nat
<1>1. Len(chain) \in Nat
  BY ChainIsSequence
<1> DEFINE f == [i \in 1 .. Len(chain) |-> chain[i].issuer]
<1>2. f \in Surjection(1 .. Len(chain), Issuers)
  BY DEF Surjection, Issuers
<1>3. IsFiniteSet(1 .. Len(chain)) /\ Cardinality(1 .. Len(chain)) = Len(chain)
  BY <1>1, FS_Interval
<1>4. IsFiniteSet(Issuers) /\ Cardinality(Issuers) <= Len(chain)
  <2> HIDE DEF f
  <2> QED BY <1>2, <1>3, FS_Surjection
<1>5. ASSUME NEW i \in 1 .. Len(chain)
      PROVE  AuthorizedRevokers(i) \subseteq Issuers
  BY <1>1, <1>5 DEF AuthorizedRevokers, Issuers
<1> QED BY <1>4, <1>5, FS_Subset, FS_CardinalityType

(* No reason but "grant_revoked" says so. *)
LEMMA VerdictsOtherThanRevoked ==
    /\ ShapeVerdict # "grant_revoked"
    /\ AudVerdict # "grant_revoked"
    /\ \A x, y : PairVerdict(x, y) # "grant_revoked"
    /\ \A x : WindowVerdict(x) # "grant_revoked"
    /\ \A x : LogVerdict(x) # "grant_revoked"
<1>1. ShapeVerdict # "grant_revoked"
    BY DEF ShapeVerdict
<1>2. AudVerdict # "grant_revoked"
    BY DEF AudVerdict
<1>3. ASSUME NEW x, NEW y PROVE PairVerdict(x, y) # "grant_revoked"
    BY DEF PairVerdict
<1>4. ASSUME NEW x PROVE WindowVerdict(x) # "grant_revoked"
    BY DEF WindowVerdict
<1>5. ASSUME NEW x PROVE LogVerdict(x) # "grant_revoked"
    BY DEF LogVerdict
<1> QED BY <1>1, <1>2, <1>3, <1>4, <1>5

(* What a log that replays says of the memo entry it becomes. *)
Remembers ==
    \E p \in Participant, answer \in 1 .. MaxLog :
        /\ view = "honest" => answer = LogLength[p]
        /\ memo' = [memo EXCEPT ![p] = answer]

(* The walk keeps the records in order that it does not judge. *)
LEMMA RecordsKept ==
    ASSUME RecordsInv, UNCHANGED <<call, revoked, revokedBefore>>,
           memo' = memo \/ Remembers,
           pending' = pending \/ (pending # << >> /\ pending' = Tail(pending)),
           verdict' = verdict \/ verdict' # "grant_revoked"
    PROVE  RecordsInv'
<1>1. /\ chain' = chain /\ view' = view /\ revoked' = revoked /\ revokedBefore' = revokedBefore
  BY DEF call
<1>2. memo' \in [Participant -> 0 .. MaxLog]
  BY DEF RecordsInv, Remembers
<1>3. view = "honest" => \A p \in Participant : memo'[p] \in {Unasked, LogLength[p]}
  BY DEF RecordsInv, Remembers
<1> DEFINE S == revoked \cup Fakes
<1>4. pending' \in Seq(S) /\ \A n \in 1 .. Len(pending') : \E m \in 1 .. Len(pending) : pending'[n] = pending[m]
  <2>1. pending \in Seq(S)
    BY DEF RecordsInv
  <2> HIDE DEF S
  <2>2. CASE pending' = pending
    BY <2>1, <2>2
  <2>3. CASE pending # << >> /\ pending' = Tail(pending)
    <3>1. /\ Tail(pending) \in Seq(S) /\ Len(Tail(pending)) = Len(pending) - 1
          /\ \A n \in 1 .. Len(Tail(pending)) : Tail(pending)[n] = pending[n + 1]
      BY <2>1, <2>3, HeadTailProperties
    <3>2. Len(pending) \in Nat
      BY <2>1
    <3>3. ASSUME NEW n \in 1 .. Len(Tail(pending))
          PROVE  \E m \in 1 .. Len(pending) : Tail(pending)[n] = pending[m]
      <4>1. n + 1 \in 1 .. Len(pending)
        BY <3>1, <3>2
      <4>2. Tail(pending)[n] = pending[n + 1]
        BY <3>1
      <4> QED BY <4>1, <4>2
    <3> QED BY <2>3, <3>1, <3>3
  <2> QED BY <2>2, <2>3
<1>5. S' = S
  BY <1>1 DEF Fakes, Issuers, Forged, Digest
<1>6. view = "honest" => \A n \in 1 .. Len(pending') : pending'[n] \in revoked
  BY <1>4 DEF RecordsInv
<1>7. pending' \in Seq(revoked' \cup Fakes')
  <2>1. S' = revoked' \cup Fakes'
    OBVIOUS
  <2> HIDE DEF S
  <2> QED BY <1>4, <1>5, <2>1
<1>8. (verdict = "grant_revoked" =>
          \E i \in 1 .. Len(chain) : \E r \in revoked :
             r.revokes = Digest(chain[i]) /\ r.issuer \in AuthorizedRevokers(i))'
  BY <1>1 DEF RecordsInv, Digest, AuthorizedRevokers
<1>9. (IsFiniteSet(revoked) /\ revokedBefore \subseteq revoked
       /\ \A r \in revoked :
             r.issuer \in Participant /\ r.by = r.issuer /\ r.anchor = LogLength[r.issuer])'
  BY <1>1 DEF RecordsInv
<1> QED BY <1>1, <1>2, <1>3, <1>6, <1>7, <1>8, <1>9 DEF RecordsInv

(* The log of a participant that is replayed becomes its memo entry. *)
LEMMA RemembersAnswer ==
    ASSUME NEW p \in Participant, NEW answer \in LogAnswers(p), answer > 0, Remember(p, answer)
    PROVE  Remembers
<1>1. LogLength[p] \in 1 .. MaxLog /\ MaxLog \in Nat
  BY GrantChainAssumption DEF GrantChainAssumption
<1>2. answer \in 1 .. LogLength[p] /\ (view = "honest" => answer = LogLength[p])
  BY <1>1 DEF LogAnswers, Absent, Unreplayable, Substituted
<1>3. answer \in 1 .. MaxLog
  BY <1>1, <1>2
<1> QED BY <1>2, <1>3 DEF Remember, Remembers

(* The steps that publish, ask or find are the ones that touch the records. *)
LEMMA PublishKeepsRecords == IInv /\ RecordsInv /\ PublishRevocation => RecordsInv'
<1> SUFFICES ASSUME IInv, RecordsInv, PublishRevocation PROVE RecordsInv'
    OBVIOUS
<1>1. PICK p \in Participant, k \in DOMAIN chain : revoked' = revoked \cup {Revocation(p, k)}
  BY DEF PublishRevocation
<1>2. /\ chain' = chain /\ view' = view /\ memo' = memo /\ pending' = pending
      /\ verdict' = verdict
      /\ revokedBefore' = (IF pc = "shape" THEN revoked' ELSE revokedBefore)
  BY DEF PublishRevocation, call
<1>3. IsFiniteSet(revoked') /\ revokedBefore' \subseteq revoked'
  BY <1>1, <1>2, FS_AddElement DEF RecordsInv
<1>4. \A r \in revoked' :
         r.issuer \in Participant /\ r.by = r.issuer /\ r.anchor = LogLength[r.issuer]
  BY <1>1 DEF RecordsInv, Revocation
<1>5. Fakes' = Fakes
  BY <1>2 DEF Fakes, Issuers, Forged, Digest
<1>6. pending' \in Seq(revoked' \cup Fakes')
  <2> DEFINE S == revoked \cup Fakes
             T == revoked' \cup Fakes'
  <2>1. S \subseteq T /\ pending \in Seq(S)
    BY <1>1, <1>5 DEF RecordsInv
  <2> HIDE DEF S, T
  <2>2. pending \in Seq(T)
    BY <2>1
  <2> QED BY <1>2, <2>2 DEF T
<1>7. (verdict = "grant_revoked" =>
          \E i \in 1 .. Len(chain) : \E r \in revoked :
             r.revokes = Digest(chain[i]) /\ r.issuer \in AuthorizedRevokers(i))'
  <2>1. ASSUME NEW j \in 1 .. Len(chain), NEW r \in revoked,
               r.revokes = Digest(chain[j]), r.issuer \in AuthorizedRevokers(j)
        PROVE  r \in revoked' /\ r.revokes = Digest(chain[j])'
               /\ r.issuer \in AuthorizedRevokers(j)'
    BY <1>1, <1>2, <2>1 DEF AuthorizedRevokers, Digest
  <2> QED BY <1>2, <2>1 DEF RecordsInv
<1> QED BY <1>1, <1>2, <1>3, <1>4, <1>6, <1>7 DEF RecordsInv

(* Answers are sequences of what was published and of what nobody signed; an   *)
(* honest view leaves nothing out.                                             *)
LEMMA AnswersAreRecords ==
    ASSUME IInv, RecordsInv, pc = "lookup", NEW answer \in RevocationAnswers
    PROVE  /\ answer \in Seq(revoked \cup Fakes)
           /\ view = "honest" =>
                 /\ \A n \in 1 .. Len(answer) : answer[n] \in Published
                 /\ \A r \in Published : \E n \in 1 .. Len(answer) : answer[n] = r
<1>1. /\ chain \in Chains /\ index \in 1 .. Len(chain) /\ Len(chain) \in Nat /\ Len(chain) > 0
  BY ChainIsSequence DEF IInv, ShapeInv, WalkInv, Walking
<1>2. IsFiniteSet(Published) /\ Published \subseteq revoked /\ Cardinality(Published) \in Nat
  <2>1. Published \subseteq revoked
    BY DEF Published
  <2> QED BY <2>1, FS_Subset, FS_CardinalityType DEF RecordsInv
<1>3. Cardinality(AuthorizedRevokers(index)) \in Nat
  BY <1>1, IssuersAreFew
<1>4. CASE view = "honest"
  <2> DEFINE N == Cardinality(Published)
  <2>1. answer \in [1 .. N -> Published] /\ \A i, j \in DOMAIN answer : answer[i] = answer[j] => i = j
    BY <1>4 DEF RevocationAnswers
  <2>2. answer \in Injection(1 .. N, Published)
    BY <2>1 DEF Injection, IsInjective
  <2>3. Cardinality(1 .. N) = N
    BY <1>2, FS_Interval
  <2>4. answer \in Surjection(1 .. N, Published)
    BY <1>2, <2>2, <2>3, FS_Injection
  <2>5. answer \in Seq(Published) /\ Len(answer) = N
    <3> HIDE DEF N
    <3>1. N \in Nat
      BY <1>2 DEF N
    <3> QED BY <2>1, <3>1
  <2>6. \A r \in Published : \E n \in 1 .. N : answer[n] = r
    BY <2>4 DEF Surjection
  <2>7. answer \in Seq(revoked \cup Fakes)
    <3> DEFINE T == revoked \cup Fakes
    <3>1. Published \subseteq T
      BY <1>2
    <3> HIDE DEF T
    <3>2. answer \in Seq(T)
      BY <2>5, <3>1
    <3> QED BY <3>2 DEF T
  <2> QED BY <2>1, <2>5, <2>6, <2>7
<1>5. CASE view # "honest"
  <2> DEFINE T == revoked \cup Fakes
             asked == Cardinality(AuthorizedRevokers(index))
  <2>1. Candidates \subseteq T
    <3>1. Root.issuer \in Issuers
      BY <1>1 DEF Root, Issuers
    <3>2. AuthorizedRevokers(index) \subseteq Issuers
      BY <1>1, IssuersAreFew
    <3> DEFINE D == {Digest(chain[i]) : i \in 1 .. Len(chain)} \cup {NoProof}
               A == {1, MaxLog + 1}
    <3>3. Digest(chain[index]) \in D /\ NoProof \in D /\ 1 \in A
      BY <1>1
    <3>4. \A p \in Issuers, d \in D, a \in A : Forged(p, d, a) \in Fakes
      BY DEF Fakes
    <3>5. \A p \in Issuers, a \in A :
             Forged(p, Digest(chain[index]), a) \in Fakes /\ Forged(p, NoProof, 1) \in Fakes
      BY <3>3, <3>4
    <3> QED BY <3>1, <3>2, <3>5 DEF Candidates
  <2>2. \/ \E n \in 0 .. asked : answer \in [1 .. n -> Candidates]
        \/ \E c \in Candidates : answer = [i \in 1 .. asked + 1 |-> c]
    <3> DEFINE Short == {[1 .. n -> Candidates] : n \in 0 .. asked}
               Long == {[i \in 1 .. asked + 1 |-> c] : c \in Candidates}
    <3>1. answer \in (UNION Short) \cup Long
      BY <1>5, Zenon DEF RevocationAnswers
    <3>2. answer \in UNION Short \/ answer \in Long
      <4> HIDE DEF Short, Long
      <4> QED BY <3>1
    <3> HIDE DEF asked
    <3>3. CASE answer \in UNION Short
      <4>1. PICK s \in Short : answer \in s
        BY <3>3
      <4>2. PICK n \in 0 .. asked : s = [1 .. n -> Candidates]
        OBVIOUS
      <4> QED BY <4>1, <4>2
    <3>4. CASE answer \in Long
      BY <3>4
    <3> QED BY <3>2, <3>3, <3>4
  <2>3. \E n \in Nat : answer \in [1 .. n -> Candidates]
    <3>1. asked \in Nat
      BY <1>3
    <3> HIDE DEF asked
    <3> QED BY <2>2, <3>1
  <2>4. answer \in Seq(T)
    <3> HIDE DEF T
    <3> QED BY <2>1, <2>3
  <2> QED BY <1>5, <2>4
<1> QED BY <1>4, <1>5

LEMMA AskKeepsRecords == IInv /\ RecordsInv /\ AskRevocations => RecordsInv'
<1> SUFFICES ASSUME IInv, RecordsInv, AskRevocations PROVE RecordsInv'
    OBVIOUS
<1>1. PICK answer \in RevocationAnswers :
         IF Oversized(answer)
         THEN Return("threw") /\ UNCHANGED <<pending, allowance>>
         ELSE /\ pending' = answer
              /\ allowance' = CandidateAllowance
              /\ GoTo("candidates", index)
              /\ UNCHANGED effective
  BY DEF AskRevocations
<1>2. /\ UNCHANGED <<call, revoked, revokedBefore>> /\ memo' = memo /\ pc = "lookup"
  BY DEF AskRevocations, World
<1>3. CASE Oversized(answer)
  BY <1>1, <1>2, <1>3, RecordsKept DEF Return
<1>4. CASE ~Oversized(answer)
  <2>1. pending' = answer /\ verdict' = verdict
    BY <1>1, <1>4 DEF GoTo
  <2>2. /\ answer \in Seq(revoked \cup Fakes)
        /\ view = "honest" => \A n \in 1 .. Len(answer) : answer[n] \in revoked
    BY <1>2, AnswersAreRecords DEF Published
  <2>3. /\ chain' = chain /\ view' = view /\ revoked' = revoked /\ revokedBefore' = revokedBefore
    BY <1>2 DEF call
  <2>4. Fakes' = Fakes
    BY <2>3 DEF Fakes, Issuers, Forged, Digest
  <2>5. pending' \in Seq(revoked' \cup Fakes')
    BY <2>1, <2>2, <2>3, <2>4
  <2>6. (verdict = "grant_revoked" =>
          \E i \in 1 .. Len(chain) : \E r \in revoked :
             r.revokes = Digest(chain[i]) /\ r.issuer \in AuthorizedRevokers(i))'
    BY <2>1, <2>3 DEF RecordsInv, Digest, AuthorizedRevokers
  <2> QED BY <1>2, <2>1, <2>2, <2>3, <2>5, <2>6 DEF RecordsInv
<1> QED BY <1>3, <1>4

(* A candidate in hand is a record of the lookup. *)
LEMMA CandidateIsRecord ==
    ASSUME RecordsInv, pending # << >>
    PROVE  /\ Candidate \in revoked \cup Fakes /\ Candidate = pending[1]
           /\ 1 \in 1 .. Len(pending)
<1> DEFINE S == revoked \cup Fakes
<1>1. pending \in Seq(S)
  BY DEF RecordsInv
<1>2. Head(pending) \in S /\ Head(pending) = pending[1] /\ 1 \in 1 .. Len(pending)
  <2> HIDE DEF S
  <2> QED BY <1>1
<1> QED BY <1>2 DEF Candidate

(* A candidate that counts was published. *)
LEMMA CountedWasPublished ==
    ASSUME RecordsInv, pending # << >>, Relevant, SignedAtAnchor(Candidate)
    PROVE  Candidate \in revoked
<1>1. Candidate.issuer \in Participant /\ Candidate.by = Candidate.issuer
  BY DEF Relevant, SignedAtAnchor, AuthorizedRevokers
<1>2. \A r \in Fakes : r.by = "nobody"
  BY DEF Fakes, Forged
<1>3. "nobody" \notin Participant
  BY GrantChainAssumption DEF GrantChainAssumption
<1> QED BY <1>1, <1>2, <1>3, CandidateIsRecord

LEMMA JudgeCandidateKeepsRecords == IInv /\ RecordsInv /\ JudgeCandidate => RecordsInv'
<1> SUFFICES ASSUME IInv, RecordsInv, JudgeCandidate PROVE RecordsInv'
    OBVIOUS
<1>1. /\ UNCHANGED <<call, revoked, revokedBefore>> /\ memo' = memo
      /\ pc = "candidates" /\ pending # << >> /\ Relevant
  BY DEF JudgeCandidate, World, AtCandidate
<1>2. \/ pending' = Tail(pending) /\ verdict' = verdict
      \/ pending' = pending /\ verdict' = "grant_signature_check_too_expensive"
      \/ SignedAtAnchor(Candidate) /\ pending' = pending /\ verdict' = "grant_revoked"
  BY DEF JudgeCandidate, Skip, GoTo, Unaffordable, Return
<1>3. CASE SignedAtAnchor(Candidate) /\ pending' = pending /\ verdict' = "grant_revoked"
  <2>1. /\ chain' = chain /\ view' = view /\ revoked' = revoked /\ revokedBefore' = revokedBefore
    BY <1>1 DEF call
  <2>2. Candidate \in revoked /\ index \in 1 .. Len(chain)
    BY <1>1, <1>3, CountedWasPublished DEF IInv, WalkInv, Walking
  <2>3. Candidate.revokes = Digest(chain[index]) /\ Candidate.issuer \in AuthorizedRevokers(index)
    BY <1>1 DEF Relevant
  <2>4. \E i \in 1 .. Len(chain) : \E r \in revoked :
             r.revokes = Digest(chain[i]) /\ r.issuer \in AuthorizedRevokers(i)
    BY <2>2, <2>3
  <2>5. (\E i \in 1 .. Len(chain) : \E r \in revoked :
             r.revokes = Digest(chain[i]) /\ r.issuer \in AuthorizedRevokers(i))'
    BY <2>1, <2>4 DEF AuthorizedRevokers, Digest
  <2>6. Fakes' = Fakes
    BY <2>1 DEF Fakes, Issuers, Forged, Digest
  <2> QED BY <1>1, <1>3, <2>1, <2>5, <2>6 DEF RecordsInv
<1> QED BY <1>1, <1>2, <1>3, RecordsKept

LEMMA ResolveIssuerKeepsRecords ==
    ASSUME NEW answer, IInv, RecordsInv, ResolveIssuer(answer)
    PROVE  RecordsInv'
<1> DEFINE p == chain[index].issuer
<1>1. /\ UNCHANGED <<call, revoked, revokedBefore>> /\ pending' = pending
      /\ p \in Participant /\ answer \in LogAnswers(p)
  BY DEF ResolveIssuer, World
<1>2. memo' = memo \/ (answer > 0 /\ Remember(p, answer))
  BY DEF ResolveIssuer, LogVerdict, Absent, Unreplayable, Substituted
<1>3. verdict' = verdict \/ verdict' # "grant_revoked"
  BY VerdictsOtherThanRevoked DEF ResolveIssuer, Return, GoTo
<1> HIDE DEF p
<1> QED BY <1>1, <1>2, <1>3, RemembersAnswer, RecordsKept

LEMMA ResolveRevokerKeepsRecords ==
    ASSUME NEW answer, IInv, RecordsInv, ResolveRevoker(answer)
    PROVE  RecordsInv'
<1> DEFINE p == Candidate.issuer
<1>1. /\ UNCHANGED <<call, revoked, revokedBefore>> /\ pending # << >>
      /\ p \in Participant /\ answer \in LogAnswers(p)
  BY DEF ResolveRevoker, World, AtCandidate, Relevant, AuthorizedRevokers
<1>2. /\ memo' = memo \/ (answer > 0 /\ Remember(p, answer))
      /\ pending' = pending \/ pending' = Tail(pending)
      /\ verdict' = verdict \/ verdict' # "grant_revoked"
  BY DEF ResolveRevoker, Return, GoTo, Skip
<1> HIDE DEF p
<1> QED BY <1>1, <1>2, RemembersAnswer, RecordsKept

(* The steps that touch neither a candidate nor the memo. *)
Plain ==
    \/ CheckShape \/ CheckPair \/ NarrowAud \/ AdmitVerifier \/ CheckWindow \/ RecallIssuer
    \/ JudgeLink \/ ViewThrows \/ NotRevoked \/ UNCHANGED vars

LEMMA PlainKeepsRecords == RecordsInv /\ Plain => RecordsInv'
<1> SUFFICES ASSUME RecordsInv, Plain PROVE RecordsInv'
    OBVIOUS
<1>1. UNCHANGED <<call, revoked, revokedBefore, memo, pending>>
  BY DEF Plain, CheckShape, CheckPair, NarrowAud, AdmitVerifier, CheckWindow, RecallIssuer,
         JudgeLink, ViewThrows, NotRevoked, World, vars
<1>2. verdict' = verdict \/ verdict' # "grant_revoked"
  BY VerdictsOtherThanRevoked
  DEF Plain, CheckShape, CheckPair, NarrowAud, AdmitVerifier, CheckWindow, RecallIssuer,
      JudgeLink, ViewThrows, NotRevoked, NextLink, Return, GoTo, vars
<1> QED BY <1>1, <1>2, RecordsKept

(* Nothing that was not published ever counts.                                 *)
LEMMA StepKeepsRecords == IInv /\ RecordsInv /\ [Next]_vars => RecordsInv'
<1> SUFFICES ASSUME IInv, RecordsInv, [Next]_vars PROVE RecordsInv'
    OBVIOUS
<1>1. CASE Plain BY <1>1, PlainKeepsRecords
<1>2. ASSUME NEW answer \in LogAnswer, ResolveIssuer(answer) \/ ResolveRevoker(answer)
      PROVE  RecordsInv'
  BY <1>2, ResolveIssuerKeepsRecords, ResolveRevokerKeepsRecords
<1>3. CASE AskRevocations BY <1>3, AskKeepsRecords
<1>4. CASE SkipIrrelevant
  BY <1>4, RecordsKept DEF SkipIrrelevant, AtCandidate, Skip, GoTo, World
<1>5. CASE JudgeCandidate BY <1>5, JudgeCandidateKeepsRecords
<1>6. CASE PublishRevocation BY <1>6, PublishKeepsRecords
<1> QED BY <1>1, <1>2, <1>3, <1>4, <1>5, <1>6 DEF Next, Step, Plain

-------------------------------------------------------------------------------
(* What was withdrawn before the call is settled once the call has begun. *)
LEMMA WithdrawnStays ==
    ASSUME chain' = chain, revokedBefore' = revokedBefore, NEW i
    PROVE  Withdrawn(i)' = Withdrawn(i)
BY DEF Withdrawn, AuthorizedRevokers, Digest

(* A refusal claims nothing. *)
LEMMA RefusalKeepsNotice ==
    ASSUME pc' = "done", verdict' # "valid"
    PROVE  NoticeInv'
BY DEF NoticeInv, Walking

(* Before the walk, and where it begins, nothing is claimed. *)
LEMMA BeforeTheWalkNotice ==
    ASSUME verdict' # "valid", pc' \notin {"issuer", "judge", "lookup", "candidates"},
           pc' = "window" => index' = 1
    PROVE  NoticeInv'
BY DEF NoticeInv, Walking

(* The walk stays at its link, with no candidates in hand. *)
LEMMA SameLinkKeepsNotice ==
    ASSUME NoticeInv, UNCHANGED <<call, revokedBefore, index, verdict>>, Walking,
           pc' # "candidates"
    PROVE  NoticeInv'
<1>1. /\ chain' = chain /\ options' = options /\ view' = view /\ revokedBefore' = revokedBefore
      /\ index' = index /\ verdict' = verdict
  BY DEF call
<1>2. ChecksRevocation' <=> ChecksRevocation
  BY <1>1 DEF ChecksRevocation
<1> QED BY <1>1, <1>2, WithdrawnStays DEF NoticeInv

(* The walk leaves a link of which nothing was withdrawn. *)
LEMMA NextLinkKeepsNotice ==
    ASSUME IInv, NoticeInv, UNCHANGED <<call, revokedBefore>>, Walking, NextLink,
           view = "honest" /\ ChecksRevocation => Withdrawn(index) = {}
    PROVE  NoticeInv'
<1>1. /\ chain' = chain /\ options' = options /\ view' = view /\ revokedBefore' = revokedBefore
  BY DEF call
<1>2. ChecksRevocation' <=> ChecksRevocation
  BY <1>1 DEF ChecksRevocation
<1>3. Len(chain) \in Nat /\ index \in 1 .. Len(chain) /\ verdict = "none"
  BY ChainIsSequence DEF IInv, ShapeInv, WalkInv, Walking
<1>4. ASSUME view = "honest", ChecksRevocation
      PROVE  \A i \in 1 .. index : Withdrawn(i) = {}
  <2>1. \A i \in 1 .. index - 1 : Withdrawn(i) = {}
    BY <1>4 DEF NoticeInv
  <2> QED BY <1>3, <1>4, <2>1
<1>5. CASE index < Len(chain)
  <2>1. pc' = "window" /\ index' = index + 1 /\ verdict' = verdict
    BY <1>5 DEF NextLink, GoTo
  <2>2. view = "honest" /\ ChecksRevocation => \A i \in 1 .. index' - 1 : Withdrawn(i)' = {}
    BY <1>1, <1>3, <1>4, <2>1, WithdrawnStays
  <2> QED BY <1>1, <1>2, <1>3, <2>1, <2>2 DEF NoticeInv
<1>6. CASE index = Len(chain)
  <2>1. pc' = "done" /\ verdict' = "valid"
    BY <1>3, <1>6 DEF NextLink, Return
  <2>2. view = "honest" /\ ChecksRevocation => \A i \in 1 .. Len(chain) : Withdrawn(i)' = {}
    BY <1>1, <1>3, <1>4, <1>6, WithdrawnStays
  <2> QED BY <1>1, <1>2, <2>1, <2>2 DEF NoticeInv, Walking
<1> QED BY <1>3, <1>5, <1>6

(* A lookup goes on with the candidates it has, less at most one that does not *)
(* withdraw the link.                                                          *)
LEMMA CandidatesKeepNotice ==
    ASSUME RecordsInv, NoticeInv, UNCHANGED <<call, revokedBefore, index, verdict>>,
           pc = "candidates", pc' = "candidates",
           \/ pending' = pending
           \/ /\ pending # << >> /\ pending' = Tail(pending)
              /\ view = "honest" /\ ChecksRevocation => Candidate \notin Withdrawn(index)
    PROVE  NoticeInv'
<1>1. /\ chain' = chain /\ options' = options /\ view' = view /\ revokedBefore' = revokedBefore
      /\ index' = index /\ verdict' = verdict
  BY DEF call
<1>2. ChecksRevocation' <=> ChecksRevocation
  BY <1>1 DEF ChecksRevocation
<1>3. ASSUME view = "honest", ChecksRevocation, NEW r \in Withdrawn(index)
      PROVE  \E n \in 1 .. Len(pending') : pending'[n] = r
  <2>1. PICK n \in 1 .. Len(pending) : pending[n] = r
    BY <1>3 DEF NoticeInv
  <2>2. CASE pending' = pending
    BY <2>1, <2>2
  <2>3. CASE pending # << >> /\ pending' = Tail(pending) /\ Candidate # r
    <3> DEFINE S == revoked \cup Fakes
    <3>1. pending \in Seq(S) /\ Candidate = pending[1]
      BY <2>3, CandidateIsRecord DEF RecordsInv
    <3> HIDE DEF S
    <3>2. /\ Tail(pending) \in Seq(S) /\ Len(Tail(pending)) = Len(pending) - 1
          /\ \A k \in 1 .. Len(Tail(pending)) : Tail(pending)[k] = pending[k + 1]
      BY <2>3, <3>1, HeadTailProperties
    <3>3. n # 1 /\ Len(pending) \in Nat
      BY <2>1, <2>3, <3>1
    <3>4. n - 1 \in 1 .. Len(Tail(pending)) /\ (n - 1) + 1 = n
      BY <3>2, <3>3
    <3>5. Tail(pending)[n - 1] = pending[(n - 1) + 1]
      BY <3>2, <3>4
    <3> QED BY <2>1, <2>3, <3>4, <3>5
  <2> QED BY <1>3, <2>2, <2>3
<1>4. Walking
  BY DEF Walking
<1>5. view = "honest" /\ ChecksRevocation =>
         \A r \in Withdrawn(index) : \E n \in 1 .. Len(pending') : pending'[n] = r
  BY <1>3
<1>6. Withdrawn(index)' = Withdrawn(index)
  BY <1>1 DEF Withdrawn, AuthorizedRevokers, Digest
<1>7. \A i \in 1 .. index - 1 : Withdrawn(i) = {} => Withdrawn(i)' = {}
  BY <1>1, WithdrawnStays
<1>8. verdict' = "valid" => \A i \in 1 .. Len(chain) : Withdrawn(i) = {} => Withdrawn(i)' = {}
  BY <1>1, WithdrawnStays
<1> QED BY <1>1, <1>2, <1>4, <1>5, <1>6, <1>7, <1>8 DEF NoticeInv

(* An honest answer has every revocation of the link there was. *)
LEMMA AskKeepsNotice == IInv /\ RecordsInv /\ NoticeInv /\ AskRevocations => NoticeInv'
<1> SUFFICES ASSUME IInv, RecordsInv, NoticeInv, AskRevocations PROVE NoticeInv'
    OBVIOUS
<1>1. PICK answer \in RevocationAnswers :
         IF Oversized(answer)
         THEN Return("threw") /\ UNCHANGED <<pending, allowance>>
         ELSE /\ pending' = answer
              /\ allowance' = CandidateAllowance
              /\ GoTo("candidates", index)
              /\ UNCHANGED effective
  BY DEF AskRevocations
<1>2. CASE Oversized(answer)
  BY <1>1, <1>2, RefusalKeepsNotice DEF Return
<1>3. CASE ~Oversized(answer)
  <2>1. pending' = answer /\ verdict' = verdict /\ pc' = "candidates" /\ index' = index
    BY <1>1, <1>3 DEF GoTo
  <2>2. /\ chain' = chain /\ options' = options /\ view' = view /\ revokedBefore' = revokedBefore
        /\ pc = "lookup" /\ verdict = "none" /\ Walking
    BY DEF AskRevocations, World, call, IInv, ShapeInv, Walking
  <2>3. ChecksRevocation' <=> ChecksRevocation
    BY <2>2 DEF ChecksRevocation
  <2>4. Withdrawn(index) \subseteq Published
    BY DEF Withdrawn, Published, RecordsInv
  <2>5. view = "honest" => \A r \in Withdrawn(index) : \E n \in 1 .. Len(answer) : answer[n] = r
    BY <2>2, <2>4, AnswersAreRecords
  <2>6. Withdrawn(index)' = Withdrawn(index)
    BY <2>1, <2>2 DEF Withdrawn, AuthorizedRevokers, Digest
  <2>7. \A i \in 1 .. index - 1 : Withdrawn(i) = {} => Withdrawn(i)' = {}
    BY <2>2, WithdrawnStays
  <2> QED BY <2>1, <2>2, <2>3, <2>5, <2>6, <2>7 DEF NoticeInv
<1> QED BY <1>2, <1>3

(* With an honest view every candidate that reaches its issuer's states counts: *)
(* its anchor is known and it is its issuer's.                                 *)
LEMMA HonestCandidateCounts ==
    ASSUME RecordsInv, view = "honest", pending # << >>, Relevant,
           memo[Candidate.issuer] # Unasked
    PROVE  SignedAtAnchor(Candidate)
<1>1. Candidate \in revoked
  BY CandidateIsRecord DEF RecordsInv
<1>2. /\ Candidate.issuer \in Participant /\ Candidate.by = Candidate.issuer
      /\ Candidate.anchor = LogLength[Candidate.issuer]
  BY <1>1 DEF RecordsInv
<1>3. memo[Candidate.issuer] = LogLength[Candidate.issuer]
  BY <1>2 DEF RecordsInv
<1>4. LogLength[Candidate.issuer] \in Nat
  BY <1>2, GrantChainAssumption DEF GrantChainAssumption
<1> QED BY <1>2, <1>3, <1>4 DEF SignedAtAnchor, AnchorKnown

LEMMA JudgeCandidateKeepsNotice ==
    IInv /\ RecordsInv /\ NoticeInv /\ JudgeCandidate => NoticeInv'
<1> SUFFICES ASSUME IInv, RecordsInv, NoticeInv, JudgeCandidate PROVE NoticeInv'
    OBVIOUS
<1>1. /\ UNCHANGED <<call, revokedBefore>> /\ pc = "candidates" /\ pending # << >> /\ Relevant
      /\ memo[Candidate.issuer] # Unasked
  BY DEF JudgeCandidate, World, AtCandidate
<1>2. view = "honest" => SignedAtAnchor(Candidate)
  BY <1>1, HonestCandidateCounts
<1>3. \/ pc' = "done" /\ verdict' # "valid"
      \/ /\ ~SignedAtAnchor(Candidate)
         /\ pc' = "candidates" /\ UNCHANGED <<index, verdict>> /\ pending' = Tail(pending)
  BY DEF JudgeCandidate, Unaffordable, Return, Skip, GoTo, SignedAtAnchor
<1> QED BY <1>1, <1>2, <1>3, RefusalKeepsNotice, CandidatesKeepNotice

LEMMA ResolveRevokerKeepsNotice ==
    ASSUME NEW answer, IInv, RecordsInv, NoticeInv, ResolveRevoker(answer)
    PROVE  NoticeInv'
<1>1. /\ UNCHANGED <<call, revokedBefore>> /\ pc = "candidates" /\ pending # << >>
      /\ Candidate.issuer \in Participant /\ answer \in LogAnswers(Candidate.issuer)
  BY DEF ResolveRevoker, World, AtCandidate, Relevant, AuthorizedRevokers
<1>2. view = "honest" => answer > 0
  BY <1>1, GrantChainAssumption DEF LogAnswers, GrantChainAssumption
<1>3. \/ pc' = "done" /\ verdict' # "valid"
      \/ pc' = "candidates" /\ UNCHANGED <<index, verdict>> /\ pending' = pending
      \/ ~(answer > 0) /\ pc' = "candidates" /\ UNCHANGED <<index, verdict>>
         /\ pending' = Tail(pending)
  BY DEF ResolveRevoker, Return, Skip, GoTo
<1> QED BY <1>1, <1>2, <1>3, RefusalKeepsNotice, CandidatesKeepNotice

LEMMA SkipKeepsNotice == RecordsInv /\ NoticeInv /\ SkipIrrelevant => NoticeInv'
<1> SUFFICES ASSUME RecordsInv, NoticeInv, SkipIrrelevant PROVE NoticeInv'
    OBVIOUS
<1>1. Candidate \notin Withdrawn(index)
  BY DEF SkipIrrelevant, Relevant, Withdrawn
<1>2. /\ UNCHANGED <<call, revokedBefore, index, verdict>> /\ pc = "candidates"
      /\ pc' = "candidates" /\ pending # << >> /\ pending' = Tail(pending)
  BY DEF SkipIrrelevant, AtCandidate, Skip, GoTo, World
<1> QED BY <1>1, <1>2, CandidatesKeepNotice

(* No candidate is left: nothing was withdrawn. *)
LEMMA NotRevokedKeepsNotice == IInv /\ RecordsInv /\ NoticeInv /\ NotRevoked => NoticeInv'
<1> SUFFICES ASSUME IInv, NoticeInv, NotRevoked PROVE NoticeInv'
    OBVIOUS
<1>1. UNCHANGED <<call, revokedBefore>> /\ Walking /\ NextLink /\ pc = "candidates" /\ pending = << >>
  BY DEF NotRevoked, World, Walking
<1>2. Len(pending) = 0
  BY <1>1
<1>3. view = "honest" /\ ChecksRevocation => Withdrawn(index) = {}
  BY <1>1, <1>2 DEF NoticeInv
<1> QED BY <1>1, <1>3, NextLinkKeepsNotice

LEMMA JudgeLinkKeepsNotice == IInv /\ NoticeInv /\ JudgeLink => NoticeInv'
<1> SUFFICES ASSUME IInv, NoticeInv, JudgeLink PROVE NoticeInv'
    OBVIOUS
<1>1. UNCHANGED <<call, revokedBefore>> /\ Walking
  BY DEF JudgeLink, World, Walking
<1>2. \/ pc' = "done" /\ verdict' # "valid"
      \/ pc' = "lookup" /\ UNCHANGED <<index, verdict>>
      \/ ~ChecksRevocation /\ NextLink
  BY DEF JudgeLink, Return, GoTo
<1> QED BY <1>1, <1>2, RefusalKeepsNotice, SameLinkKeepsNotice, NextLinkKeepsNotice

LEMMA PlainKeepsNotice == IInv /\ RecordsInv /\ NoticeInv /\ Plain => NoticeInv'
<1> SUFFICES ASSUME IInv, RecordsInv, NoticeInv, Plain PROVE NoticeInv'
    OBVIOUS
<1>1. CASE CheckShape \/ CheckPair \/ NarrowAud \/ AdmitVerifier
  <2>1. verdict' # "valid" /\ pc' \notin {"issuer", "judge", "lookup", "candidates"}
        /\ (pc' = "window" => index' = 1)
    BY <1>1, VerdictsRefuse
    DEF CheckShape, CheckPair, NarrowAud, AdmitVerifier, Return, GoTo, IInv, ShapeInv
  <2> QED BY <2>1, BeforeTheWalkNotice
<1>2. CASE CheckWindow \/ RecallIssuer
  <2>1. UNCHANGED <<call, revokedBefore>> /\ Walking
    BY <1>2 DEF CheckWindow, RecallIssuer, World, Walking
  <2>2. \/ pc' = "done" /\ verdict' # "valid"
        \/ pc' # "candidates" /\ UNCHANGED <<index, verdict>>
    BY <1>2, VerdictsRefuse DEF CheckWindow, RecallIssuer, Return, GoTo
  <2> QED BY <2>1, <2>2, RefusalKeepsNotice, SameLinkKeepsNotice
<1>3. CASE JudgeLink BY <1>3, JudgeLinkKeepsNotice
<1>4. CASE ViewThrows BY <1>4, RefusalKeepsNotice DEF ViewThrows, Return
<1>5. CASE NotRevoked BY <1>5, NotRevokedKeepsNotice
<1>6. CASE UNCHANGED vars
  <2>1. /\ chain' = chain /\ options' = options /\ view' = view /\ revokedBefore' = revokedBefore
        /\ index' = index /\ verdict' = verdict /\ pc' = pc /\ pending' = pending
    BY <1>6 DEF vars, call
  <2> QED BY <2>1 DEF NoticeInv, Walking, Withdrawn, AuthorizedRevokers, Digest, ChecksRevocation
<1> QED BY <1>1, <1>2, <1>3, <1>4, <1>5, <1>6 DEF Plain

LEMMA ResolveIssuerKeepsNotice ==
    ASSUME NEW answer, NoticeInv, ResolveIssuer(answer)
    PROVE  NoticeInv'
<1>1. UNCHANGED <<call, revokedBefore>> /\ Walking
  BY DEF ResolveIssuer, World, Walking
<1>2. \/ pc' = "done" /\ verdict' # "valid"
      \/ pc' = "judge" /\ UNCHANGED <<index, verdict>>
  BY VerdictsRefuse DEF ResolveIssuer, Return, GoTo
<1> QED BY <1>1, <1>2, RefusalKeepsNotice, SameLinkKeepsNotice

(* What is published once the call has begun was not there before it. *)
LEMMA PublishKeepsNotice == IInv /\ NoticeInv /\ PublishRevocation => NoticeInv'
<1> SUFFICES ASSUME IInv, NoticeInv, PublishRevocation PROVE NoticeInv'
    OBVIOUS
<1>1. /\ chain' = chain /\ options' = options /\ view' = view
      /\ index' = index /\ verdict' = verdict /\ pc' = pc /\ pending' = pending
      /\ revokedBefore' = IF pc = "shape" THEN revoked' ELSE revokedBefore
  BY DEF PublishRevocation, call
<1>2. CASE pc = "shape"
  BY <1>1, <1>2 DEF NoticeInv, Walking, IInv, ShapeInv
<1>3. CASE pc # "shape"
  BY <1>1, <1>3 DEF NoticeInv, Walking, Withdrawn, AuthorizedRevokers, Digest, ChecksRevocation
<1> QED BY <1>2, <1>3

(* A revocation published before the call stays to be found until it is found. *)
LEMMA StepKeepsNotice == IInv /\ RecordsInv /\ NoticeInv /\ [Next]_vars => NoticeInv'
<1> SUFFICES ASSUME IInv, RecordsInv, NoticeInv, [Next]_vars PROVE NoticeInv'
    OBVIOUS
<1>1. CASE Plain BY <1>1, PlainKeepsNotice
<1>2. ASSUME NEW answer \in LogAnswer, ResolveIssuer(answer) \/ ResolveRevoker(answer)
      PROVE  NoticeInv'
  BY <1>2, ResolveIssuerKeepsNotice, ResolveRevokerKeepsNotice
<1>3. CASE AskRevocations BY <1>3, AskKeepsNotice
<1>4. CASE SkipIrrelevant BY <1>4, SkipKeepsNotice
<1>5. CASE JudgeCandidate BY <1>5, JudgeCandidateKeepsNotice
<1>6. CASE PublishRevocation BY <1>6, PublishKeepsNotice
<1> QED BY <1>1, <1>2, <1>3, <1>4, <1>5, <1>6 DEF Next, Step, Plain

-----------------------------------------------------------------------------
(* The records of a lookup, beside what is known of the chain. *)
RevocationInv == IInv /\ RecordsInv /\ NoticeInv

(* Before anything is published or asked, nothing is in memo or at hand. *)
LEMMA InitEstablishesRecords == Init => RecordsInv /\ NoticeInv
<1> SUFFICES ASSUME Init PROVE RecordsInv /\ NoticeInv
    OBVIOUS
<1>1. NoticeInv
  BY DEF Init, NoticeInv, Walking
<1>2. /\ revoked = {} /\ revokedBefore = {} /\ pending = << >> /\ verdict = "none"
      /\ memo = [p \in Participant |-> Unasked]
  BY DEF Init
<1>3. memo \in [Participant -> 0 .. MaxLog]
  BY <1>2, GrantChainAssumption DEF GrantChainAssumption, Unasked
<1>4. pending \in Seq(revoked \cup Fakes) /\ Len(pending) = 0
  BY <1>2
<1>5. RecordsInv
  BY <1>2, <1>3, <1>4, FS_EmptySet DEF RecordsInv
<1> QED BY <1>1, <1>5

(* Records and notices together are inductive.                                 *)
LEMMA RevocationInvHolds == Spec => []RevocationInv
<1>1. Init => RevocationInv
  BY InitEstablishes, InitEstablishesRecords DEF RevocationInv
<1>2. RevocationInv /\ [Next]_vars => RevocationInv'
  BY StepKeepsInv, StepKeepsRecords, StepKeepsNotice DEF RevocationInv
<1> QED BY <1>1, <1>2, PTL DEF Spec

(* findRevocation: whatever a view answers, a chain is refused as revoked only *)
(* on a record that one of its issuers published.                              *)
THEOREM ForgedRevocationsNeverCount == Spec => []ForgedRevocationNeverCounts
<1>1. RevocationInv => ForgedRevocationNeverCounts
  <2> SUFFICES ASSUME RevocationInv, verdict = "grant_revoked" PROVE ForgedRevocationNeverCounts
      BY DEF ForgedRevocationNeverCounts
  <2>1. DOMAIN chain = 1 .. Len(chain)
    BY ChainIsSequence DEF RevocationInv, IInv, ShapeInv
  <2>2. PICK i \in 1 .. Len(chain), r \in revoked :
           r.revokes = Digest(chain[i]) /\ r.issuer \in AuthorizedRevokers(i)
    BY DEF RevocationInv, RecordsInv
  <2>3. r.issuer \in {chain[j].issuer : j \in i .. Len(chain)}
    BY <2>2 DEF AuthorizedRevokers
  <2> QED BY <2>1, <2>2, <2>3 DEF ForgedRevocationNeverCounts
<1> QED BY <1>1, RevocationInvHolds, PTL

(* findRevocation: with a view that answers what is published, no chain with a *)
(* link revoked before the call is accepted, at whatever link and by whichever *)
(* of the issuers above it, however short the allowance.                       *)
THEOREM RevocationsAreNoticed == Spec => []RevocationIsNoticed
<1>1. RevocationInv => RevocationIsNoticed
  <2> SUFFICES ASSUME RevocationInv, verdict = "valid", view = "honest", ChecksRevocation,
                      NEW i \in DOMAIN chain, NEW r \in revokedBefore,
                      r.revokes = Digest(chain[i]),
                      r.issuer \in {chain[j].issuer : j \in i .. Len(chain)}
               PROVE  FALSE
      BY DEF RevocationIsNoticed
  <2>1. i \in 1 .. Len(chain)
    BY ChainIsSequence DEF RevocationInv, IInv, ShapeInv
  <2>2. r.issuer \in Participant
    BY DEF RevocationInv, RecordsInv
  <2>3. r \in Withdrawn(i)
    BY <2>2 DEF Withdrawn, AuthorizedRevokers
  <2> QED BY <2>1, <2>3 DEF RevocationInv, NoticeInv
<1> QED BY <1>1, RevocationInvHolds, PTL

-------------------------------------------------------------------------------
(* A log replayed at its worst. *)
Replay == MaxLog * MaxKeys

(* The logs whose states are in the memo.                                      *)
Replayed == {p \in Participant : memo[p] # Unasked}

(* The links whose issuers' logs were replayed, and those whose signatures     *)
(* were paid for.                                                              *)
Recalled == IF pc \in {"judge", "lookup", "candidates"} THEN index
            ELSE IF Walking THEN index - 1 ELSE 0
Paid == IF pc \in {"lookup", "candidates"} THEN index
        ELSE IF Walking THEN index - 1 ELSE 0

(* Revokers asked about at a link, and the replays and the cost that may mean. *)
Asked(i) == Cardinality(AuthorizedRevokers(i))
MostReplays(i) == IF Unreplayed(i) = {} THEN 0 ELSE Asked(i)
LinkCost(i) == (1 + MostReplays(i)) * MaxLog * MaxKeys + MaxKeys + LookupCost(i)

(* Candidates done with, and the one in hand if its issuer's states are there. *)
LookedAt == Asked(index) - Len(pending)
InHand == IF AtCandidate /\ Relevant /\ memo[Candidate.issuer] # Unasked THEN 1 ELSE 0
(* The replays of this lookup at most: one for each candidate with an issuer whose *)
(* log the walk has not replayed.                                              *)
LookupReplays == IF Unreplayed(index) = {} THEN 0 ELSE LookedAt + InHand
(* What the lookup has drawn from its own allowance.                           *)
Drawn == CandidateAllowance - allowance

(* What is spent came off the allowance of the call.                           *)
Balanced ==
    /\ local \in Nat /\ spent \in Nat /\ allowance \in Nat
    /\ spent + local = options.limit

(* No issuer that the walk has passed is replayed again.                       *)
MemoCoversLinks ==
    \A i \in 1 .. Recalled :
        chain[i].issuer \in Participant => memo[chain[i].issuer] # Unasked

(* A lookup draws a walk for each candidate it has looked at, and no more.     *)
DrawnPerCandidate ==
    pc = "candidates" => Len(pending) <= Asked(index) /\ Drawn \in 0 .. LookedAt * MaxKeys

(* With an honest view: a replay for each issuer, and a walk for each link. *)
HonestInv ==
    view = "honest" =>
        /\ Replayed \subseteq Issuers
        /\ pc # "done" => spent <= Cardinality(Replayed) * Replay + Paid * MaxKeys
        /\ pc = "done" => spent <= HonestCeiling

(* What the links up to each one may cost, whatever the view answers. *)
Adds(costs) ==
    /\ costs \in [0 .. Len(chain) -> Nat]
    /\ costs[0] = 0
    /\ \A n \in 1 .. Len(chain) : costs[n] = costs[n - 1] + LinkCost(n)

(* What is spent, at each place of the walk, is within those costs.            *)
Under(costs) ==
    /\ ~Walking /\ pc # "done" => spent = 0
    /\ pc \in {"window", "issuer"} => spent <= costs[index - 1]
    /\ pc = "judge" => spent <= costs[index - 1] + Replay
    /\ pc = "lookup" => spent <= costs[index - 1] + Replay + MaxKeys
    /\ pc = "candidates" =>
          spent <= costs[index - 1] + Replay + MaxKeys + LookupReplays * Replay + Drawn
    /\ pc = "done" => spent <= costs[Len(chain)]

-----------------------------------------------------------------------------
(* Products of naturals that the meters need. *)
LEMMA Products ==
    /\ \A x, y \in Nat : x * y \in Nat
    /\ \A x, y, z \in Nat : x <= y => x * z <= y * z
    /\ \A x, z \in Nat : (x + 1) * z = x * z + z
    /\ \A x, y, z \in Nat : (x * y) * z = x * (y * z)
OBVIOUS

(* The meters count in naturals.                                               *)
LEMMA ReplayIsNat ==
    /\ MaxKeys \in Nat /\ MaxKeys > 0 /\ MaxLog \in Nat /\ Replay \in Nat
    /\ CandidateAllowance = MaxKeys + MaxKeys
    /\ \A p \in Participant : LogLength[p] \in 1 .. MaxLog
<1>1. /\ MaxKeys \in Nat /\ MaxKeys > 0 /\ MaxLog \in Nat
      /\ \A p \in Participant : LogLength[p] \in 1 .. MaxLog
  BY GrantChainAssumption DEF GrantChainAssumption
<1> QED BY <1>1, Products DEF Replay, CandidateAllowance

(* No answer costs more than a replay at its worst. *)
LEMMA ReplayCosts ==
    ASSUME NEW p \in Participant, NEW answer \in LogAnswers(p)
    PROVE  ReplayCost(answer) \in Nat /\ ReplayCost(answer) <= Replay
<1>1. \/ answer \in 1 .. MaxLog
      \/ answer \in {Absent, Unreplayable, Substituted}
  BY ReplayIsNat DEF LogAnswers
<1>2. CASE answer \in 1 .. MaxLog
  <2>1. ReplayCost(answer) = answer * MaxKeys
    BY <1>2, ReplayIsNat DEF ReplayCost, Absent
  <2>2. answer \in Nat /\ answer <= MaxLog
    BY <1>2, ReplayIsNat
  <2> QED BY <2>1, <2>2, ReplayIsNat, Products DEF Replay
<1>3. CASE answer \in {Absent, Unreplayable, Substituted}
  <2>1. ReplayCost(answer) = 0 \/ ReplayCost(answer) = MaxLog * MaxKeys
    BY <1>3 DEF ReplayCost, Absent, Unreplayable, Substituted
  <2> QED BY <2>1, ReplayIsNat DEF Replay
<1> QED BY <1>1, <1>2, <1>3

(* No walk costs more than one verification per key.                           *)
LEMMA WalkCosts ==
    \A p : WalkCost(p) \in Nat /\ WalkCost(p) <= MaxKeys
BY ReplayIsNat DEF WalkCost

(* A link costs a replay, the replays of its lookup, a walk and the walks of   *)
(* its lookup.                                                                 *)
LEMMA LinkCostIs ==
    ASSUME chain \in Chains, NEW i \in 1 .. Len(chain)
    PROVE  /\ Asked(i) \in Nat /\ MostReplays(i) \in 0 .. Asked(i)
           /\ MostReplays(i) * Replay \in Nat
           /\ LookupCost(i) \in Nat
           /\ LookupCost(i) = Least(MaxKeys + MaxKeys, Asked(i) * MaxKeys)
           /\ LinkCost(i) = Replay + MostReplays(i) * Replay + MaxKeys + LookupCost(i)
           /\ LinkCost(i) \in Nat
<1>1. Asked(i) \in Nat /\ MostReplays(i) \in 0 .. Asked(i)
  BY IssuersAreFew DEF Asked, MostReplays
<1>2. Asked(i) * MaxKeys \in Nat /\ MostReplays(i) * Replay \in Nat
  BY <1>1, ReplayIsNat, Products
<1>3. LookupCost(i) = Least(MaxKeys + MaxKeys, Asked(i) * MaxKeys)
  BY ReplayIsNat DEF LookupCost, Asked
<1>4. LookupCost(i) \in Nat
  BY <1>2, <1>3, ReplayIsNat DEF Least
<1> DEFINE m == MostReplays(i)
<1>5. (1 + m) * MaxLog * MaxKeys = Replay + m * Replay
  <2>1. m \in Nat
    BY <1>1
  <2> HIDE DEF m
  <2>2. (1 + m) * MaxLog * MaxKeys = (1 + m) * Replay
    BY <2>1, ReplayIsNat, Products DEF Replay
  <2>3. (1 + m) * Replay = Replay + m * Replay
    BY <2>1, ReplayIsNat
  <2> QED BY <2>2, <2>3
<1>6. LinkCost(i) = Replay + m * Replay + MaxKeys + LookupCost(i)
  <2> DEFINE c == (1 + m) * MaxLog * MaxKeys
  <2>1. LinkCost(i) = c + MaxKeys + LookupCost(i)
    BY DEF LinkCost
  <2>2. c = Replay + m * Replay
    BY <1>5
  <2> HIDE DEF c, m
  <2> QED BY <2>1, <2>2
<1>7. m * Replay \in Nat
  BY <1>2
<1> HIDE DEF m
<1>8. LinkCost(i) \in Nat
  BY <1>4, <1>6, <1>7, ReplayIsNat
<1> QED BY <1>1, <1>2, <1>3, <1>4, <1>6, <1>8 DEF m

(* The costs of the links add up, and never down. *)
LEMMA CostsExist ==
    ASSUME chain \in Chains
    PROVE  \E costs : Adds(costs)
<1> DEFINE N == Len(chain)
           step == [n \in 1 .. N |-> [x \in Nat |-> x + LinkCost(n)]]
<1>1. N \in Nat
  BY ChainIsSequence
<1>2. \A n \in 1 .. N : LinkCost(n) \in Nat
  BY LinkCostIs
<1>3. step \in [1 .. N -> [Nat -> Nat]]
  <2> HIDE DEF N
  <2> QED BY <1>2
<1>4. \A n \in 1 .. N, x \in Nat : step[n][x] = x + LinkCost(n)
  OBVIOUS
<1> HIDE DEF N, step
<1>5. PICK g \in [0 .. N -> Nat] :
         g = [n \in 0 .. N |-> IF n = 0 THEN 0 ELSE step[n][g[n - 1]]]
  <2>1. \A start \in Nat, next \in [1 .. N -> [Nat -> Nat]] :
           \E g \in [0 .. N -> Nat] :
              g = [n \in 0 .. N |-> IF n = 0 THEN start ELSE next[n][g[n - 1]]]
    BY <1>1, RecursionExists
  <2>2. 0 \in Nat
    OBVIOUS
  <2> QED BY <1>3, <2>1, <2>2, Zenon
<1>6. \A n \in 1 .. N : g[n - 1] \in Nat /\ n \in 0 .. N /\ n # 0
  BY <1>1, <1>5
<1>7. \A n \in 1 .. N : g[n] = g[n - 1] + LinkCost(n)
  BY <1>4, <1>5, <1>6
<1>8. g[0] = 0
  BY <1>1, <1>5
<1> QED BY <1>5, <1>7, <1>8 DEF Adds, N

(* More links never cost less.                                                 *)
LEMMA CostsGrow ==
    ASSUME chain \in Chains, NEW costs, Adds(costs), NEW n \in 0 .. Len(chain)
    PROVE  costs[n] \in Nat /\ costs[n] <= costs[Len(chain)]
<1> DEFINE N == Len(chain)
           Low == {m \in 0 .. N : m <= n \/ costs[n] <= costs[m]}
<1>1. N \in Nat /\ \A m \in 0 .. N : costs[m] \in Nat
  BY ChainIsSequence DEF Adds
<1>2. 0 \in Low
  BY <1>1
<1>3. ASSUME NEW m \in 0 .. N, m < N, m \in Low
      PROVE  m + 1 \in Low
  <2>1. m + 1 \in 1 .. N /\ (m + 1) - 1 = m
    BY <1>1, <1>3
  <2>2. costs[m + 1] = costs[m] + LinkCost(m + 1) /\ LinkCost(m + 1) \in Nat
    BY <2>1, LinkCostIs DEF Adds
  <2>3. m = n \/ m < n \/ costs[n] <= costs[m]
    BY <1>1, <1>3
  <2>4. m + 1 <= n \/ costs[n] <= costs[m + 1]
    BY <1>1, <2>1, <2>2, <2>3
  <2> QED BY <1>1, <2>1, <2>4
<1>4. \A m \in 0 .. N : m \in Low
  <2> HIDE DEF Low, N
  <2> QED BY <1>1, <1>2, <1>3, CountingUp
<1> QED BY <1>1, <1>4

(* The sum that OneReplayPerCandidate forms is that of the costs. *)
LEMMA CeilingIsSum ==
    ASSUME chain \in Chains, NEW costs, Adds(costs)
    PROVE  OneReplayPerCandidate = costs[Len(chain)]
<1> DEFINE N == Len(chain)
           Sums(f) == f = [n \in 0 .. N |-> IF n = 0 THEN 0 ELSE f[n - 1] + LinkCost(n)]
           sum == CHOOSE f : Sums(f)
<1>1. N \in Nat
  BY ChainIsSequence
<1>2. OneReplayPerCandidate = sum[N]
  BY DEF OneReplayPerCandidate, SumOverLinks, LinkCost, MostReplays, Asked
<1>3. Sums(costs)
  BY <1>1 DEF Adds
<1>4. Sums(sum)
  <2> HIDE DEF Sums
  <2> QED BY <1>3
<1> DEFINE Same == {n \in 0 .. N : sum[n] = costs[n]}
<1>5. sum[0] = 0 /\ \A n \in 1 .. N : sum[n] = sum[n - 1] + LinkCost(n)
  <2> HIDE DEF sum, N
  <2> QED BY <1>1, <1>4
<1>6. costs[0] = 0 /\ \A n \in 1 .. N : costs[n] = costs[n - 1] + LinkCost(n)
  BY DEF Adds
<1> HIDE DEF N, sum
<1>7. 0 \in Same
  BY <1>1, <1>5, <1>6
<1>8. ASSUME NEW n \in 0 .. N, n < N, n \in Same
      PROVE  n + 1 \in Same
  <2>1. n + 1 \in 1 .. N /\ (n + 1) - 1 = n
    BY <1>1, <1>8
  <2>2. sum[n + 1] = sum[(n + 1) - 1] + LinkCost(n + 1)
        /\ costs[n + 1] = costs[(n + 1) - 1] + LinkCost(n + 1)
    BY <1>5, <1>6, <2>1
  <2> QED BY <1>8, <2>1, <2>2
<1>9. \A n \in 0 .. N : n \in Same
  <2> HIDE DEF Same
  <2> QED BY <1>1, <1>7, <1>8, CountingUp
<1>10. sum[N] = costs[N]
  BY <1>1, <1>9
<1> QED BY <1>2, <1>10 DEF N

-------------------------------------------------------------------------------
(* The ways a step pays: not at all, a cost it can afford, or all there is. *)
Pays(cost) ==
    \/ cost = 0 /\ UNCHANGED <<local, spent>>
    \/ Affords(cost) /\ Charge(cost)
    \/ ~Affords(cost) /\ Exhaust

(* Paying moves what is paid from one meter to the other.                      *)
LEMMA PayingBalances ==
    ASSUME Balanced, NEW cost \in Nat, Pays(cost), allowance' \in Nat, UNCHANGED call
    PROVE  Balanced' /\ spent' <= spent + cost
BY DEF Balanced, Pays, Affords, Charge, Exhaust, call

(* What a step pays for, and what it costs at most. *)
LEMMA ResolveIssuerPays ==
    ASSUME NEW answer, ResolveIssuer(answer)
    PROVE  /\ Pays(ReplayCost(answer)) /\ UNCHANGED <<call, allowance, pending>>
           /\ ReplayCost(answer) \in Nat /\ ReplayCost(answer) <= Replay
           /\ chain[index].issuer \in Participant /\ memo[chain[index].issuer] = Unasked
           /\ pc = "issuer"
           /\ \/ pc' = "done" /\ memo' = memo
              \/ /\ pc' = "judge" /\ index' = index
                 /\ Affords(ReplayCost(answer)) /\ Charge(ReplayCost(answer))
                 /\ answer > 0 /\ Remember(chain[index].issuer, answer)
<1>1. chain[index].issuer \in Participant /\ answer \in LogAnswers(chain[index].issuer)
  BY DEF ResolveIssuer
<1>2. ReplayCost(answer) \in Nat /\ ReplayCost(answer) <= Replay
  BY <1>1, ReplayCosts
<1>3. LogVerdict(answer) = "ok" => answer > 0
  BY DEF LogVerdict
<1> QED BY <1>1, <1>2, <1>3 DEF ResolveIssuer, Pays, World, Return, GoTo

LEMMA ResolveRevokerPays ==
    ASSUME NEW answer, ResolveRevoker(answer)
    PROVE  /\ Pays(ReplayCost(answer)) /\ UNCHANGED <<call, allowance>>
           /\ ReplayCost(answer) \in Nat /\ ReplayCost(answer) <= Replay
           /\ AtCandidate /\ Relevant /\ memo[Candidate.issuer] = Unasked
           /\ Candidate.issuer \in Participant
           /\ answer \in LogAnswers(Candidate.issuer)
           /\ \/ pc' = "done" /\ memo' = memo /\ pending' = pending
              \/ /\ pc' = "candidates" /\ index' = index /\ pending' = pending
                 /\ Affords(ReplayCost(answer)) /\ Charge(ReplayCost(answer))
                 /\ answer > 0 /\ Remember(Candidate.issuer, answer)
              \/ /\ pc' = "candidates" /\ index' = index /\ pending' = Tail(pending)
                 /\ memo' = memo /\ ~(answer > 0)
<1>1. Candidate.issuer \in Participant /\ answer \in LogAnswers(Candidate.issuer)
  BY DEF ResolveRevoker, Relevant, AuthorizedRevokers
<1>2. ReplayCost(answer) \in Nat /\ ReplayCost(answer) <= Replay
  BY <1>1, ReplayCosts
<1> QED BY <1>1, <1>2 DEF ResolveRevoker, Pays, World, Return, GoTo, Skip

LEMMA JudgeLinkPays ==
    ASSUME JudgeLink
    PROVE  /\ \E cost \in 0 .. MaxKeys : Pays(cost)
           /\ UNCHANGED <<call, allowance, pending, memo>> /\ pc = "judge"
           /\ \/ pc' = "done" /\ verdict' # "valid"
              \/ pc' = "lookup" /\ index' = index
              \/ NextLink
<1> DEFINE cost == WalkCost(chain[index].issuer)
<1>1. cost \in 0 .. MaxKeys /\ 0 \in 0 .. MaxKeys
  BY WalkCosts, ReplayIsNat
<1>2. Pays(0) \/ Pays(cost)
  BY DEF JudgeLink, Pays
<1>3. \/ pc' = "done" /\ verdict' # "valid"
      \/ pc' = "lookup" /\ index' = index
      \/ NextLink
  BY DEF JudgeLink, Return, GoTo
<1>4. UNCHANGED <<call, allowance, pending, memo>> /\ pc = "judge"
  BY DEF JudgeLink, World
<1> HIDE DEF cost
<1> QED BY <1>1, <1>2, <1>3, <1>4

(* A candidate is walked within both meters, and drawn from both. *)
LEMMA JudgeCandidatePays ==
    ASSUME JudgeCandidate, Balanced
    PROVE  \E cost \in 0 .. MaxKeys :
              /\ cost <= local /\ cost <= allowance
              /\ local' = local - cost /\ spent' = spent + cost /\ allowance' = allowance - cost
              /\ UNCHANGED <<call, memo>> /\ AtCandidate /\ Relevant
              /\ memo[Candidate.issuer] # Unasked
              /\ \/ pc' = "done" /\ pending' = pending
                 \/ pc' = "candidates" /\ index' = index /\ pending' = Tail(pending)
<1>0. MaxKeys \in Nat /\ local \in Nat /\ allowance \in Nat /\ spent \in Nat
  BY ReplayIsNat DEF Balanced
<1>1. UNCHANGED <<call, memo>> /\ AtCandidate /\ Relevant /\ memo[Candidate.issuer] # Unasked
  BY DEF JudgeCandidate, World
<1>2. CASE ~AnchorKnown(Candidate)
  <2>1. /\ local' = local - 0 /\ spent' = spent + 0 /\ allowance' = allowance - 0
        /\ pc' = "candidates" /\ index' = index /\ pending' = Tail(pending)
    BY <1>0, <1>2 DEF JudgeCandidate, Skip, GoTo
  <2>2. 0 \in 0 .. MaxKeys /\ 0 <= local /\ 0 <= allowance
    BY <1>0
  <2> QED BY <1>1, <2>1, <2>2
<1>3. CASE AnchorKnown(Candidate) /\ (MaxKeys > local \/ MaxKeys > allowance)
  <2> DEFINE paid == IF local <= allowance THEN local ELSE allowance
  <2>1. /\ local' = local - paid /\ spent' = spent + paid /\ allowance' = allowance - paid
        /\ pc' = "done" /\ pending' = pending
    BY <1>3 DEF JudgeCandidate, Unaffordable, Charge, Draw, Return
  <2>2. paid \in 0 .. MaxKeys /\ paid <= local /\ paid <= allowance
    BY <1>0, <1>3
  <2> HIDE DEF paid
  <2> QED BY <1>1, <2>1, <2>2
<1>4. CASE AnchorKnown(Candidate) /\ ~(MaxKeys > local \/ MaxKeys > allowance)
  <2>1. /\ local' = local - MaxKeys /\ spent' = spent + MaxKeys /\ allowance' = allowance - MaxKeys
        /\ \/ pc' = "done" /\ pending' = pending
           \/ pc' = "candidates" /\ index' = index /\ pending' = Tail(pending)
    BY <1>4 DEF JudgeCandidate, Charge, Draw, Return, Skip, GoTo
  <2>2. MaxKeys \in 0 .. MaxKeys /\ MaxKeys <= local /\ MaxKeys <= allowance
    BY <1>0, <1>4
  <2> QED BY <1>1, <2>1, <2>2
<1> QED BY <1>2, <1>3, <1>4

(* The steps that pay nothing, and that ask nobody for a log. *)
Free ==
    \/ CheckShape \/ CheckPair \/ NarrowAud \/ AdmitVerifier \/ CheckWindow \/ RecallIssuer
    \/ ViewThrows \/ NotRevoked \/ AskRevocations \/ SkipIrrelevant \/ PublishRevocation
    \/ UNCHANGED vars

(* A free step leaves both meters and the memo alone.                          *)
LEMMA FreeIsFree ==
    ASSUME Free
    PROVE  UNCHANGED <<chain, options, view, memo, local, spent>>
BY DEF Free, CheckShape, CheckPair, NarrowAud, AdmitVerifier, CheckWindow, RecallIssuer,
       ViewThrows, NotRevoked, AskRevocations, SkipIrrelevant, PublishRevocation, vars, call,
       World, Unmetered

(* Every step is free or is one of the four that pay.                          *)
LEMMA StepsAreFreeOrPay ==
    ASSUME [Next]_vars
    PROVE  \/ Free \/ JudgeLink \/ JudgeCandidate
           \/ \E answer \in LogAnswer : ResolveIssuer(answer) \/ ResolveRevoker(answer)
BY DEF Next, Step, Free

-----------------------------------------------------------------------------
(* Every step takes from the allowance what it performs.                       *)
LEMMA StepKeepsBalance == Balanced /\ [Next]_vars => Balanced'
<1> SUFFICES ASSUME Balanced, [Next]_vars PROVE Balanced'
    OBVIOUS
<1>1. CASE Free
  <2>1. allowance' = allowance \/ allowance' = CandidateAllowance
    BY <1>1
    DEF Free, CheckShape, CheckPair, NarrowAud, AdmitVerifier, CheckWindow, RecallIssuer,
        ViewThrows, NotRevoked, AskRevocations, SkipIrrelevant, PublishRevocation, vars,
        Unmetered
  <2>2. allowance' \in Nat
    BY <2>1, ReplayIsNat DEF Balanced
  <2> QED BY <1>1, <2>2, FreeIsFree DEF Balanced
<1>2. CASE JudgeLink
  <2>1. PICK cost \in 0 .. MaxKeys : Pays(cost)
    BY <1>2, JudgeLinkPays
  <2>2. cost \in Nat /\ allowance' \in Nat /\ UNCHANGED call
    BY <1>2, ReplayIsNat, JudgeLinkPays DEF Balanced
  <2> QED BY <2>1, <2>2, PayingBalances
<1>3. CASE JudgeCandidate
  <2>1. PICK cost \in 0 .. MaxKeys :
           /\ cost <= local /\ cost <= allowance
           /\ local' = local - cost /\ spent' = spent + cost /\ allowance' = allowance - cost
           /\ UNCHANGED call
    BY <1>3, JudgeCandidatePays
  <2> QED BY <2>1, ReplayIsNat DEF Balanced, call
<1>4. ASSUME NEW answer, ResolveIssuer(answer) \/ ResolveRevoker(answer)
      PROVE  Balanced'
  <2>1. Pays(ReplayCost(answer)) /\ UNCHANGED <<call, allowance>> /\ ReplayCost(answer) \in Nat
    BY <1>4, ResolveIssuerPays, ResolveRevokerPays
  <2> QED BY <2>1, PayingBalances DEF Balanced
<1> QED BY <1>1, <1>2, <1>3, <1>4, StepsAreFreeOrPay

(* The links replayed grow by one where the issuer is resolved or recalled. *)
LEMMA StepKeepsMemoCover ==
    IInv /\ RecordsInv /\ MemoCoversLinks /\ [Next]_vars => MemoCoversLinks'
<1> SUFFICES ASSUME IInv, RecordsInv, MemoCoversLinks, [Next]_vars PROVE MemoCoversLinks'
    OBVIOUS
<1>0. /\ Len(chain) \in Nat /\ (Walking => index \in 1 .. Len(chain))
      /\ memo \in [Participant -> 0 .. MaxLog] /\ MaxLog \in Nat
  BY ChainIsSequence, ReplayIsNat DEF IInv, ShapeInv, WalkInv, RecordsInv
<1>1. chain' = chain
  BY DEF Next, Step, CheckShape, CheckPair, NarrowAud, AdmitVerifier, CheckWindow, RecallIssuer,
       ViewThrows, NotRevoked, AskRevocations, SkipIrrelevant, PublishRevocation, vars, call,
       World, JudgeLink, JudgeCandidate, ResolveIssuer, ResolveRevoker
<1>2. ASSUME Recalled' <= Recalled, Recalled \in Nat, Recalled' \in Int,
             \A p \in Participant : memo[p] # Unasked => memo'[p] # Unasked
      PROVE  MemoCoversLinks'
  BY <1>1, <1>2 DEF MemoCoversLinks
<1>3. Recalled \in Nat
  BY <1>0 DEF Recalled, Walking
<1>4. CASE Free
  <2>1. memo' = memo
    BY <1>4, FreeIsFree
  <2>2. CASE RecallIssuer
    <3>1. /\ pc = "issuer" /\ pc' = "judge" /\ index' = index
          /\ chain[index].issuer \in Participant => memo[chain[index].issuer] # Unasked
      BY <2>2 DEF RecallIssuer, GoTo
    <3>2. Recalled = index - 1 /\ Recalled' = index
      BY <3>1 DEF Recalled, Walking
    <3> QED BY <1>0, <1>1, <2>1, <3>1, <3>2 DEF MemoCoversLinks, Walking
  <2>3. CASE NotRevoked
    <3>1. Recalled = index /\ Recalled' \in {0, index}
      BY <1>0, <2>3 DEF NotRevoked, NextLink, GoTo, Return, Recalled, Walking
    <3> QED BY <1>2, <1>3, <2>1, <3>1
  <2>4. CASE Free /\ ~RecallIssuer /\ ~NotRevoked
    <3>1. Recalled' \in {0, Recalled}
      BY <1>0, <2>4
      DEF Free, CheckShape, CheckPair, NarrowAud, AdmitVerifier, CheckWindow, ViewThrows,
          AskRevocations, SkipIrrelevant, PublishRevocation, vars, AtCandidate,
          Return, GoTo, Skip, Recalled, Walking
    <3> QED BY <1>2, <1>3, <2>1, <3>1
  <2> QED BY <1>4, <2>2, <2>3, <2>4
<1>5. CASE JudgeLink
  <2>1. Recalled = index /\ Recalled' \in {0, index} /\ memo' = memo
    BY <1>0, <1>5, JudgeLinkPays DEF NextLink, GoTo, Return, Recalled, Walking
  <2> QED BY <1>2, <1>3, <2>1
<1>6. CASE JudgeCandidate
  <2>1. Recalled = index /\ Recalled' \in {0, index} /\ memo' = memo
    BY <1>0, <1>6
    DEF JudgeCandidate, AtCandidate, Unaffordable, Skip, GoTo, Return, Recalled, Walking
  <2> QED BY <1>2, <1>3, <2>1
<1>7. ASSUME NEW answer, ResolveIssuer(answer) PROVE MemoCoversLinks'
  <2> DEFINE p == chain[index].issuer
  <2>1. CASE pc' = "done"
    <3>1. Recalled' = 0 /\ memo' = memo
      BY <1>7, <2>1, ResolveIssuerPays DEF Recalled, Walking
    <3> QED BY <1>2, <1>3, <3>1
  <2>2. CASE pc' = "judge"
    <3>1. /\ pc = "issuer" /\ index' = index /\ p \in Participant /\ answer > 0
          /\ memo' = [memo EXCEPT ![p] = answer]
      BY <1>7, <2>2, ResolveIssuerPays DEF Remember
    <3>2. Recalled = index - 1 /\ Recalled' = index
      BY <2>2, <3>1 DEF Recalled, Walking
    <3>3. answer # Unasked
      BY <3>1 DEF Unasked
    <3>4. memo'[p] # Unasked /\ \A q \in Participant : memo[q] # Unasked => memo'[q] # Unasked
      BY <1>0, <3>1, <3>3
    <3> QED BY <1>0, <1>1, <3>1, <3>2, <3>4 DEF MemoCoversLinks, Walking
  <2> QED BY <1>7, <2>1, <2>2, ResolveIssuerPays
<1>8. ASSUME NEW answer, ResolveRevoker(answer) PROVE MemoCoversLinks'
  <2>1. Recalled = index /\ Recalled' \in {0, index}
    BY <1>0, <1>8, ResolveRevokerPays DEF AtCandidate, Recalled, Walking
  <2>2. \A p \in Participant : memo[p] # Unasked => memo'[p] # Unasked
    <3>1. answer > 0 => answer # Unasked
      BY DEF Unasked
    <3> QED BY <1>0, <1>8, <3>1, ResolveRevokerPays DEF Remember
  <2> QED BY <1>2, <1>3, <2>1, <2>2
<1> QED BY <1>4, <1>5, <1>6, <1>7, <1>8, StepsAreFreeOrPay

-------------------------------------------------------------------------------
(* Where a lookup stands. *)
LEMMA AtLookup ==
    ASSUME IInv, RecordsInv, pc \in {"lookup", "candidates"}
    PROVE  /\ chain \in Chains /\ index \in 1 .. Len(chain) /\ Len(chain) \in Nat
           /\ Asked(index) \in Nat /\ Len(pending) \in Nat
           /\ pending # << >> => Len(Tail(pending)) = Len(pending) - 1 /\ Len(pending) > 0
           /\ pending = << >> => Len(pending) = 0
<1>1. chain \in Chains /\ index \in 1 .. Len(chain) /\ Len(chain) \in Nat
  BY ChainIsSequence DEF IInv, ShapeInv, WalkInv, Walking
<1>2. Asked(index) \in Nat
  BY <1>1, LinkCostIs
<1> DEFINE S == revoked \cup Fakes
<1>3. pending \in Seq(S)
  BY DEF RecordsInv
<1> HIDE DEF S
<1>4. /\ Len(pending) \in Nat
      /\ pending # << >> => Len(Tail(pending)) = Len(pending) - 1 /\ Len(pending) > 0
      /\ pending = << >> => Len(pending) = 0
  BY <1>3
<1> QED BY <1>1, <1>2, <1>4

(* The revokers asked about do not change while the walk is at a link. *)
LEMMA SameLinkAsks ==
    ASSUME chain' = chain, index' = index
    PROVE  /\ Asked(index)' = Asked(index)
           /\ Unreplayed(index)' = Unreplayed(index)
BY DEF Asked, Unreplayed, AuthorizedRevokers

(* One candidate fewer, and one walk more. *)
LEMMA OneCandidateLess ==
    ASSUME NEW looked \in Nat, NEW drawn \in 0 .. looked * MaxKeys, NEW cost \in 0 .. MaxKeys
    PROVE  drawn + cost \in 0 .. (looked + 1) * MaxKeys
<1>1. (looked + 1) * MaxKeys = looked * MaxKeys + MaxKeys /\ looked * MaxKeys \in Nat
  BY ReplayIsNat, Products
<1> HIDE DEF Replay
<1> DEFINE a == looked * MaxKeys
           b == (looked + 1) * MaxKeys
<1>2. a \in Nat /\ b = a + MaxKeys /\ drawn \in 0 .. a
  BY <1>1
<1> HIDE DEF a, b
<1>3. drawn + cost \in 0 .. b
  BY <1>2, ReplayIsNat
<1> QED BY <1>3 DEF b

(* A candidate is drawn for once, when it leaves the queue.                    *)
LEMMA StepKeepsDraw ==
    IInv /\ RecordsInv /\ Balanced /\ DrawnPerCandidate /\ [Next]_vars => DrawnPerCandidate'
<1> SUFFICES ASSUME IInv, RecordsInv, Balanced, DrawnPerCandidate, [Next]_vars, pc' = "candidates"
             PROVE  (Len(pending) <= Asked(index) /\ Drawn \in 0 .. LookedAt * MaxKeys)'
    BY DEF DrawnPerCandidate
<1>0. CandidateAllowance \in Nat /\ CandidateAllowance' = CandidateAllowance
      /\ MaxKeys \in Nat
  BY ReplayIsNat DEF CandidateAllowance
<1>1. CASE AskRevocations
  <2>1. PICK answer \in RevocationAnswers :
           ~Oversized(answer) /\ pending' = answer /\ allowance' = CandidateAllowance /\ index' = index
    BY <1>1 DEF AskRevocations, Return, GoTo
  <2>2. chain' = chain /\ pc = "lookup"
    BY <1>1 DEF AskRevocations, World, call
  <2>3. answer \in Seq(revoked \cup Fakes)
    BY <2>2, AnswersAreRecords
  <2>4. Len(answer) \in Nat /\ Asked(index) \in Nat /\ Len(answer) <= Asked(index)
    <3> DEFINE S == revoked \cup Fakes
    <3>1. answer \in Seq(S)
      BY <2>3
    <3> HIDE DEF S
    <3>2. Len(answer) \in Nat
      BY <3>1
    <3>3. Asked(index) \in Nat
      BY <2>2, AtLookup
    <3> QED BY <2>1, <3>2, <3>3 DEF Oversized, Asked
  <2>5. Drawn' = 0 /\ LookedAt' = Asked(index) - Len(answer)
    BY <1>0, <2>1, <2>2, SameLinkAsks DEF Drawn, LookedAt
  <2>6. LookedAt' \in Nat
    BY <2>4, <2>5
  <2>7. LookedAt' * MaxKeys \in Nat
    BY <1>0, <2>6, Products
  <2> QED BY <2>1, <2>2, <2>4, <2>5, <2>7, SameLinkAsks
<1>2. ASSUME pc = "candidates", UNCHANGED <<chain, index, pending, allowance>>
      PROVE  (Len(pending) <= Asked(index) /\ Drawn \in 0 .. LookedAt * MaxKeys)'
  BY <1>0, <1>2, SameLinkAsks DEF DrawnPerCandidate, Drawn, LookedAt
<1>3. ASSUME pc = "candidates", UNCHANGED <<chain, index>>, pending # << >>, pending' = Tail(pending),
             NEW cost \in 0 .. MaxKeys, allowance' = allowance - cost
      PROVE  (Len(pending) <= Asked(index) /\ Drawn \in 0 .. LookedAt * MaxKeys)'
  <2>1. /\ Len(pending) \in Nat /\ Asked(index) \in Nat
        /\ Len(pending') = Len(pending) - 1 /\ Len(pending) > 0
    BY <1>3, AtLookup
  <2>2. LookedAt \in Nat /\ Drawn \in 0 .. LookedAt * MaxKeys /\ allowance \in Nat
        /\ Len(pending) <= Asked(index)
    BY <1>3, <2>1 DEF DrawnPerCandidate, LookedAt, Balanced
  <2>3. Drawn' = Drawn + cost /\ LookedAt' = LookedAt + 1
    BY <1>0, <1>3, <2>1, <2>2, SameLinkAsks DEF Drawn, LookedAt
  <2>4. Drawn + cost \in 0 .. (LookedAt + 1) * MaxKeys
    BY <2>2, OneCandidateLess
  <2> QED BY <1>3, <2>1, <2>2, <2>3, <2>4, SameLinkAsks
<1>4. 0 \in 0 .. MaxKeys /\ allowance - 0 = allowance
  BY <1>0 DEF Balanced
<1>5. CASE SkipIrrelevant
  <2>1. pc = "candidates" /\ UNCHANGED <<chain, index, allowance>> /\ pending # << >> /\ pending' = Tail(pending)
    BY <1>5 DEF SkipIrrelevant, AtCandidate, Skip, GoTo, World, Unmetered, call
  <2> QED BY <1>3, <1>4, <2>1
<1>6. CASE JudgeCandidate
  <2>1. PICK cost \in 0 .. MaxKeys :
           /\ allowance' = allowance - cost /\ UNCHANGED call /\ AtCandidate
           /\ index' = index /\ pending' = Tail(pending)
    BY <1>6, JudgeCandidatePays
  <2>2. pc = "candidates" /\ UNCHANGED <<chain, index>> /\ pending # << >>
    BY <2>1 DEF AtCandidate, call
  <2> QED BY <1>3, <2>1, <2>2
<1>7. ASSUME NEW answer, ResolveRevoker(answer)
      PROVE  (Len(pending) <= Asked(index) /\ Drawn \in 0 .. LookedAt * MaxKeys)'
  <2>1. /\ pc = "candidates" /\ UNCHANGED <<chain, index, allowance>> /\ pending # << >>
        /\ pending' = pending \/ pending' = Tail(pending)
    BY <1>7, ResolveRevokerPays DEF AtCandidate, call
  <2> QED BY <1>2, <1>3, <1>4, <2>1
<1>8. CASE PublishRevocation \/ UNCHANGED vars
  <2>1. pc = "candidates" /\ UNCHANGED <<chain, index, pending, allowance>>
    BY <1>8 DEF PublishRevocation, vars, call
  <2> QED BY <1>2, <2>1
<1>9. ~(CheckShape \/ CheckPair \/ NarrowAud \/ AdmitVerifier \/ CheckWindow \/ RecallIssuer
        \/ ViewThrows \/ NotRevoked \/ JudgeLink \/ \E answer \in LogAnswer : ResolveIssuer(answer))
  BY DEF CheckShape, CheckPair, NarrowAud, AdmitVerifier, CheckWindow, RecallIssuer, ViewThrows,
         NotRevoked, JudgeLink, ResolveIssuer, NextLink, Return, GoTo
<1> QED BY <1>1, <1>5, <1>6, <1>7, <1>8, <1>9, StepsAreFreeOrPay DEF Free

-----------------------------------------------------------------------------
(* Under the honest ceiling: at most a replay for each issuer and a walk for   *)
(* each link, and one candidate.                                               *)
LEMMA UnderHonestCeiling ==
    ASSUME chain \in Chains, NEW replays \in 0 .. Len(chain), NEW walks \in 0 .. Len(chain),
           NEW x \in Nat, x <= replays * Replay + walks * MaxKeys + MaxKeys
    PROVE  x <= HonestCeiling
<1>1. Len(chain) \in Nat
  BY ChainIsSequence
<1>2. HonestCeiling = Len(chain) * Replay + Len(chain) * MaxKeys + MaxKeys
  BY <1>1, ReplayIsNat, Products DEF HonestCeiling, Replay
<1>3. replays * Replay <= Len(chain) * Replay /\ walks * MaxKeys <= Len(chain) * MaxKeys
  BY <1>1, ReplayIsNat, Products
<1>4. /\ replays * Replay \in Nat /\ Len(chain) * Replay \in Nat
      /\ walks * MaxKeys \in Nat /\ Len(chain) * MaxKeys \in Nat
  BY <1>1, ReplayIsNat, Products
<1> DEFINE a == replays * Replay
           b == walks * MaxKeys
           c == Len(chain) * Replay
           d == Len(chain) * MaxKeys
<1>5. a \in Nat /\ b \in Nat /\ c \in Nat /\ d \in Nat /\ a <= c /\ b <= d
      /\ x <= a + b + MaxKeys /\ HonestCeiling = c + d + MaxKeys
  BY <1>2, <1>3, <1>4
<1> HIDE DEF a, b, c, d
<1> QED BY <1>5, ReplayIsNat

(* The replayed logs are those of issuers. *)
LEMMA ReplayedAreFew ==
    ASSUME chain \in Chains, Replayed \subseteq Issuers
    PROVE  /\ IsFiniteSet(Replayed) /\ Cardinality(Replayed) \in 0 .. Len(chain)
           /\ \A p \in Issuers \ Replayed :
                 /\ Cardinality(Replayed \cup {p}) = Cardinality(Replayed) + 1
                 /\ Cardinality(Replayed) + 1 \in 0 .. Len(chain)
<1>1. Len(chain) \in Nat /\ IsFiniteSet(Issuers) /\ Cardinality(Issuers) <= Len(chain)
  BY ChainIsSequence, IssuersAreFew
<1>2. ASSUME NEW S, S \subseteq Issuers
      PROVE  IsFiniteSet(S) /\ Cardinality(S) \in 0 .. Len(chain)
  <2>1. IsFiniteSet(S) /\ Cardinality(S) <= Cardinality(Issuers)
    BY <1>1, <1>2, FS_Subset
  <2>2. Cardinality(S) \in Nat /\ Cardinality(Issuers) \in Nat
    BY <1>1, <2>1, FS_CardinalityType
  <2> QED BY <1>1, <2>1, <2>2
<1>3. ASSUME NEW p \in Issuers \ Replayed
      PROVE  /\ Cardinality(Replayed \cup {p}) = Cardinality(Replayed) + 1
             /\ Cardinality(Replayed) + 1 \in 0 .. Len(chain)
  <2>1. Replayed \cup {p} \subseteq Issuers
    OBVIOUS
  <2>2. Cardinality(Replayed \cup {p}) = Cardinality(Replayed) + 1
    BY <1>2, FS_AddElement
  <2> HIDE DEF Replayed
  <2> QED BY <1>2, <2>1, <2>2
<1> QED BY <1>2, <1>3

(* What an honest view has cost, as a bound on every way a step may go on.     *)
LEMMA HonestGoesOn ==
    ASSUME chain \in Chains, Len(chain) \in Nat, UNCHANGED <<chain, view, memo>>,
           view = "honest", Replayed \subseteq Issuers, spent' \in Nat,
           NEW walks \in Nat, walks <= Len(chain), NEW paid \in Nat, Paid' = paid,
           \/ spent' <= Cardinality(Replayed) * Replay + walks * MaxKeys /\ walks <= paid
           \/ pc' = "done" /\ spent' <= Cardinality(Replayed) * Replay + walks * MaxKeys + MaxKeys
    PROVE  HonestInv'
<1>1. Replayed' = Replayed /\ Issuers' = Issuers /\ HonestCeiling' = HonestCeiling /\ Replay' = Replay
  BY DEF Replayed, Issuers, HonestCeiling, Replay
<1>2. PICK n \in Nat : n = Cardinality(Replayed) /\ n <= Len(chain)
  BY ReplayedAreFew
<1>3. n * Replay \in Nat /\ walks * MaxKeys \in Nat /\ paid * MaxKeys \in Nat
  BY ReplayIsNat, Products
<1>4. walks <= paid => walks * MaxKeys <= paid * MaxKeys
  BY ReplayIsNat, Products
<1>5. pc' = "done" => spent' <= HonestCeiling
  <2>1. spent' <= n * Replay + walks * MaxKeys + MaxKeys
    <3> DEFINE a == n * Replay
               b == walks * MaxKeys
    <3>1. a \in Nat /\ b \in Nat /\ (spent' <= a + b \/ spent' <= a + b + MaxKeys)
      BY <1>2, <1>3
    <3> HIDE DEF a, b
    <3>2. spent' <= a + b + MaxKeys
      BY <3>1, ReplayIsNat
    <3> QED BY <3>2 DEF a, b
  <2>2. n \in 0 .. Len(chain) /\ walks \in 0 .. Len(chain)
    BY <1>2
  <2> QED BY <2>1, <2>2, UnderHonestCeiling
<1>6. pc' # "done" => spent' <= n * Replay + paid * MaxKeys
  <2> DEFINE a == n * Replay
             b == walks * MaxKeys
             c == paid * MaxKeys
  <2>1. a \in Nat /\ b \in Nat /\ c \in Nat /\ (pc' # "done" => b <= c /\ spent' <= a + b)
    BY <1>2, <1>3, <1>4
  <2> HIDE DEF a, b, c
  <2>2. pc' # "done" => spent' <= a + c
    BY <2>1
  <2> QED BY <2>2 DEF a, c
<1> QED BY <1>1, <1>2, <1>5, <1>6 DEF HonestInv

-------------------------------------------------------------------------------
(* A call that has returned stays as it is. *)
LEMMA DoneStays ==
    ASSUME [Next]_vars, pc = "done"
    PROVE  UNCHANGED <<chain, options, view, pc, index, memo, local, spent>>
BY DEF Next, Step, CheckShape, CheckPair, NarrowAud, AdmitVerifier, CheckWindow, RecallIssuer,
       ViewThrows, NotRevoked, AskRevocations, SkipIrrelevant, PublishRevocation, vars, call,
       JudgeLink, JudgeCandidate, ResolveIssuer, ResolveRevoker, AtView, AtCandidate

(* An issuer's replay, paid for once. *)
LEMMA HonestReplays ==
    ASSUME chain \in Chains, UNCHANGED <<chain, view>>, view = "honest",
           memo \in [Participant -> 0 .. MaxLog],
           Replayed \subseteq Issuers, spent' \in Nat, 
           NEW p \in Issuers \ Replayed, p \in Participant,
           NEW paid \in Nat, paid <= Len(chain), Paid' = paid \/ pc' = "done",
           spent' <= Cardinality(Replayed) * Replay + paid * MaxKeys + Replay,
           \/ pc' = "done" /\ memo' = memo
           \/ pc' # "done" /\ \E answer \in Nat \ {0} : memo' = [memo EXCEPT ![p] = answer]
    PROVE  HonestInv'
<1>1. Issuers' = Issuers /\ HonestCeiling' = HonestCeiling /\ Replay' = Replay
  BY DEF Issuers, HonestCeiling, Replay
<1>2. PICK n \in Nat : n = Cardinality(Replayed) /\ n + 1 \in 0 .. Len(chain)
                       /\ Cardinality(Replayed \cup {p}) = n + 1
  BY ReplayedAreFew
<1>3. (n + 1) * Replay = n * Replay + Replay /\ n * Replay \in Nat /\ paid * MaxKeys \in Nat
  BY ReplayIsNat, Products
<1>4. spent' <= (n + 1) * Replay + paid * MaxKeys
  <2> DEFINE a == n * Replay
             b == paid * MaxKeys
             c == (n + 1) * Replay
  <2>1. a \in Nat /\ b \in Nat /\ c = a + Replay /\ spent' <= a + b + Replay
    BY <1>2, <1>3
  <2> HIDE DEF a, b, c
  <2>2. spent' <= c + b
    BY <2>1, ReplayIsNat
  <2> QED BY <2>2 DEF b, c
<1>5. spent' <= HonestCeiling
  <2>1. spent' <= (n + 1) * Replay + paid * MaxKeys + MaxKeys
    <3> DEFINE a == (n + 1) * Replay
               b == paid * MaxKeys
    <3>1. a \in Nat /\ b \in Nat /\ spent' <= a + b
      BY <1>3, <1>4, ReplayIsNat
    <3> HIDE DEF a, b
    <3>2. spent' <= a + b + MaxKeys
      BY <3>1, ReplayIsNat
    <3> QED BY <3>2 DEF a, b
  <2>2. paid \in 0 .. Len(chain)
    BY <1>2
  <2> QED BY <1>2, <2>1, <2>2, UnderHonestCeiling
<1>6. CASE pc' = "done"
  <2>1. memo' = memo
    BY <1>6
  <2>2. Replayed' = Replayed
    BY <2>1 DEF Replayed
  <2> QED BY <1>1, <1>5, <1>6, <2>2 DEF HonestInv
<1>7. CASE pc' # "done"
  <2>1. PICK answer \in Nat \ {0} : memo' = [memo EXCEPT ![p] = answer]
    BY <1>7
  <2>2. Replayed' = Replayed \cup {p}
    BY <2>1 DEF Replayed, Unasked
  <2> QED BY <1>1, <1>2, <1>4, <1>7, <2>2 DEF HonestInv
<1> QED BY <1>6, <1>7

(* An honest view makes the call pay one replay per issuer, one walk per link. *)
LEMMA StepKeepsHonest ==
    /\ IInv /\ RecordsInv /\ Balanced /\ HonestInv
    /\ Balanced' /\ [Next]_vars
    => HonestInv'
<1> SUFFICES ASSUME IInv, RecordsInv, Balanced, HonestInv, Balanced', [Next]_vars,
                    view' = "honest"
             PROVE  HonestInv'
    BY DEF HonestInv
<1>0. /\ chain' = chain /\ view' = view /\ view = "honest" /\ spent' \in Nat /\ spent \in Nat
  BY DEF Balanced, Next, Step, CheckShape, CheckPair, NarrowAud, AdmitVerifier, CheckWindow, RecallIssuer,
       ViewThrows, NotRevoked, AskRevocations, SkipIrrelevant, PublishRevocation, vars, call,
       World, JudgeLink, JudgeCandidate, ResolveIssuer, ResolveRevoker
<1>1. /\ chain \in Chains /\ Len(chain) \in Nat /\ (Walking => index \in 1 .. Len(chain))
      /\ memo \in [Participant -> 0 .. MaxLog] /\ Replayed \subseteq Issuers
  BY <1>0, ChainIsSequence DEF IInv, ShapeInv, WalkInv, RecordsInv, HonestInv
<1>2. CASE pc = "done"
  <2>1. UNCHANGED <<chain, pc, memo, spent>>
    BY <1>2, DoneStays
  <2> QED BY <1>0, <1>2, <2>1 DEF HonestInv, Replayed, Issuers, HonestCeiling, Replay
<1>3. ASSUME pc # "done" PROVE HonestInv'
  <2>1. spent <= Cardinality(Replayed) * Replay + Paid * MaxKeys
    BY <1>0, <1>3 DEF HonestInv
  <2>2. Paid \in Nat /\ Paid <= Len(chain)
    BY <1>1 DEF Paid, Walking
  <2>2a. PICK n \in Nat : n = Cardinality(Replayed)
    BY <1>1, ReplayedAreFew
  <2>2b. n * Replay \in Nat /\ Paid * MaxKeys \in Nat
    BY <2>2, <2>2a, ReplayIsNat, Products
  <2>3. ASSUME NEW extra \in Nat, spent' <= spent + extra
        PROVE  spent' <= Cardinality(Replayed) * Replay + Paid * MaxKeys + extra
    <3> DEFINE a == n * Replay
               b == Paid * MaxKeys
    <3>1. a \in Nat /\ b \in Nat /\ spent <= a + b
      BY <2>1, <2>2a, <2>2b
    <3> HIDE DEF a, b
    <3>2. spent' <= a + b + extra
      BY <1>0, <2>3, <3>1
    <3> QED BY <2>2a, <3>2 DEF a, b
  <2>4. CASE Free
    <3>1. UNCHANGED <<memo, spent>>
      BY <2>4, FreeIsFree
    <3>2. spent' <= Cardinality(Replayed) * Replay + Paid * MaxKeys
      BY <2>1, <3>1
    <3>3. pc' = "done" \/ (Paid' \in Nat /\ Paid <= Paid')
      BY <1>1, <1>3, <2>4
      DEF Free, CheckShape, CheckPair, NarrowAud, AdmitVerifier, CheckWindow, RecallIssuer,
          ViewThrows, NotRevoked, AskRevocations, SkipIrrelevant, PublishRevocation, vars,
          NextLink, AtCandidate, Return, GoTo, Skip, Paid, Walking
    <3>4. CASE pc' = "done"
      <4>1. Paid' = 0
        BY <3>4 DEF Paid, Walking
      <4>2. spent' <= Cardinality(Replayed) * Replay + Paid * MaxKeys + MaxKeys
        BY <2>3, <3>1, <1>0, ReplayIsNat
      <4> QED BY <1>0, <1>1, <2>2, <3>1, <3>4, <4>1, <4>2, HonestGoesOn
    <3>5. CASE Paid' \in Nat /\ Paid <= Paid'
      BY <1>0, <1>1, <2>2, <3>1, <3>2, <3>5, HonestGoesOn
    <3> QED BY <3>3, <3>4, <3>5
  <2>5. CASE JudgeLink
    <3>1. PICK cost \in 0 .. MaxKeys : Pays(cost)
      BY <2>5, JudgeLinkPays
    <3>2. spent' <= spent + MaxKeys
      BY <1>0, <3>1, ReplayIsNat DEF Pays, Affords, Charge, Exhaust, Balanced
    <3>3. spent' <= Cardinality(Replayed) * Replay + Paid * MaxKeys + MaxKeys
      BY <2>3, <3>2, ReplayIsNat
    <3>4. UNCHANGED <<chain, view, memo>> /\ Paid = index - 1
      BY <1>0, <2>5, JudgeLinkPays DEF Paid, Walking
    <3>5. CASE pc' = "done"
      <4>1. Paid' = 0
        BY <3>5 DEF Paid, Walking
      <4> QED BY <1>0, <1>1, <2>2, <3>3, <3>4, <3>5, <4>1, HonestGoesOn
    <3>6. CASE pc' # "done"
      <4>1. Paid' = Paid + 1 /\ Paid + 1 \in Nat /\ Paid + 1 <= Len(chain)
        BY <1>1, <2>5, <3>4, <3>6, JudgeLinkPays DEF NextLink, GoTo, Return, Paid, Walking
      <4>2. spent' <= Cardinality(Replayed) * Replay + (Paid + 1) * MaxKeys
        <5>1. (Paid + 1) * MaxKeys = Paid * MaxKeys + MaxKeys
          BY <2>2, ReplayIsNat, Products
        <5> DEFINE a == n * Replay
                   b == Paid * MaxKeys
                   c == (Paid + 1) * MaxKeys
        <5>2. a \in Nat /\ b \in Nat /\ c = b + MaxKeys /\ spent' <= a + b + MaxKeys
          BY <2>2a, <2>2b, <3>3, <5>1
        <5> HIDE DEF a, b, c
        <5>3. spent' <= a + c
          BY <5>2, ReplayIsNat
        <5> QED BY <2>2a, <5>3 DEF a, c
      <4> DEFINE next == Paid + 1
      <4>3. next \in Nat /\ next <= Len(chain) /\ Paid' = next /\ next <= next
            /\ spent' <= Cardinality(Replayed) * Replay + next * MaxKeys
        BY <4>1, <4>2
      <4> HIDE DEF next
      <4> QED BY <1>0, <1>1, <3>4, <4>3, HonestGoesOn
    <3> QED BY <3>5, <3>6
  <2>6. CASE JudgeCandidate
    <3>1. PICK cost \in 0 .. MaxKeys : spent' = spent + cost /\ UNCHANGED memo
      BY <2>6, JudgeCandidatePays
    <3>2. spent' <= spent + MaxKeys
      BY <1>0, <3>1, ReplayIsNat
    <3>3. spent' <= Cardinality(Replayed) * Replay + Paid * MaxKeys + MaxKeys
      BY <2>3, <3>2, ReplayIsNat
    <3>4. SignedAtAnchor(Candidate)
      BY <1>0, <2>6, HonestCandidateCounts DEF JudgeCandidate, AtCandidate
    <3>5. pc' = "done"
      BY <2>6, <3>4 DEF JudgeCandidate, SignedAtAnchor, Unaffordable, Return
    <3>6. Paid' = 0
      BY <3>5 DEF Paid, Walking
    <3> QED BY <1>0, <1>1, <2>2, <3>1, <3>3, <3>5, <3>6, HonestGoesOn
  <2>7. ASSUME NEW answer, ResolveIssuer(answer) PROVE HonestInv'
    <3> DEFINE p == chain[index].issuer
    <3>1. /\ Pays(ReplayCost(answer)) /\ ReplayCost(answer) \in Nat /\ ReplayCost(answer) <= Replay
          /\ p \in Participant /\ memo[p] = Unasked /\ pc = "issuer"
      BY <2>7, ResolveIssuerPays
    <3>2. spent' <= spent + Replay
      BY <1>0, <3>1, ReplayIsNat DEF Pays, Affords, Charge, Exhaust, Balanced
    <3>3. spent' <= Cardinality(Replayed) * Replay + Paid * MaxKeys + Replay
      BY <2>3, <3>2, ReplayIsNat
    <3>4. p \in Issuers \ Replayed
      BY <1>1, <3>1 DEF Issuers, Replayed, Walking
    <3>5. \/ pc' = "done" /\ memo' = memo
          \/ pc' = "judge" /\ index' = index /\ answer > 0 /\ memo' = [memo EXCEPT ![p] = answer]
      BY <2>7, ResolveIssuerPays DEF Remember
    <3>6. answer > 0 => answer \in Nat \ {0}
      BY <1>0, <2>7, <3>1, ReplayIsNat DEF ResolveIssuer, LogAnswers
    <3>7. pc' = "judge" /\ index' = index => Paid' = Paid
      BY <3>1 DEF Paid, Walking
    <3> HIDE DEF p
    <3> QED BY <1>0, <1>1, <2>2, <3>1, <3>3, <3>4, <3>5, <3>6, <3>7, HonestReplays
  <2>8. ASSUME NEW answer, ResolveRevoker(answer) PROVE HonestInv'
    <3> DEFINE p == Candidate.issuer
    <3>1. /\ Pays(ReplayCost(answer)) /\ ReplayCost(answer) \in Nat /\ ReplayCost(answer) <= Replay
          /\ p \in Participant /\ memo[p] = Unasked /\ AtCandidate /\ Relevant
          /\ answer \in LogAnswers(p)
      BY <2>8, ResolveRevokerPays
    <3>2. spent' <= spent + Replay
      BY <1>0, <3>1, ReplayIsNat DEF Pays, Affords, Charge, Exhaust, Balanced
    <3>3. spent' <= Cardinality(Replayed) * Replay + Paid * MaxKeys + Replay
      BY <2>3, <3>2, ReplayIsNat
    <3>4. p \in Issuers \ Replayed
      BY <1>1, <3>1, IssuersAreFew DEF Replayed, Walking, AtCandidate, Relevant
    <3>5. answer \in Nat \ {0} /\ answer > 0
      BY <1>0, <3>1, ReplayIsNat DEF LogAnswers
    <3>6. \/ pc' = "done" /\ memo' = memo
          \/ pc' = "candidates" /\ index' = index /\ memo' = [memo EXCEPT ![p] = answer]
      BY <2>8, <3>5, ResolveRevokerPays DEF Remember
    <3>7. pc' = "candidates" /\ index' = index => Paid' = Paid
      BY <3>1 DEF Paid, Walking, AtCandidate
    <3> HIDE DEF p
    <3> QED BY <1>0, <1>1, <2>2, <3>1, <3>3, <3>4, <3>5, <3>6, <3>7, HonestReplays
  <2> QED BY <2>4, <2>5, <2>6, <2>7, <2>8, StepsAreFreeOrPay
<1> QED BY <1>2, <1>3

-------------------------------------------------------------------------------
(* The costs of the links are those of the call. *)
LEMMA AddsStays ==
    ASSUME chain' = chain, NEW costs, Adds(costs)
    PROVE  Adds(costs)'
<1>1. ASSUME NEW n PROVE LinkCost(n)' = LinkCost(n)
  BY DEF LinkCost, MostReplays, Asked, LookupCost, Least, CandidateAllowance, Unreplayed,
         AuthorizedRevokers
<1> QED BY <1>1 DEF Adds

(* What is spent at a link is within its cost, whether the walk goes on or     *)
(* returns.                                                                    *)
LEMMA LinkAffordsWalk ==
    ASSUME chain \in Chains, NEW costs, Adds(costs), NEW i \in 1 .. Len(chain),
           NEW x \in Nat, x <= costs[i - 1] + Replay + MaxKeys
    PROVE  x <= costs[i]
<1>1. costs[i] = costs[i - 1] + LinkCost(i)
  BY DEF Adds
<1>2. i - 1 \in 0 .. Len(chain) /\ Len(chain) \in Nat
  BY ChainIsSequence
<1>3. costs[i - 1] \in Nat
  BY <1>2, CostsGrow
<1>4. LinkCost(i) >= Replay + MaxKeys
  BY LinkCostIs, ReplayIsNat
<1>5. LinkCost(i) \in Nat
  BY LinkCostIs
<1> QED BY <1>1, <1>3, <1>4, <1>5, ReplayIsNat

(* The cost of a link covers the replays and the walks of its lookup.          *)
LEMMA LinkAffordsLookup ==
    ASSUME chain \in Chains, NEW costs, Adds(costs), NEW i \in 1 .. Len(chain),
           NEW replays \in Nat, replays <= MostReplays(i),
           NEW drawn \in Nat, drawn <= LookupCost(i),
           NEW x \in Nat,
           x <= costs[i - 1] + Replay + MaxKeys + replays * Replay + drawn
    PROVE  x <= costs[i]
<1>1. costs[i] = costs[i - 1] + LinkCost(i)
  BY DEF Adds
<1>2. i - 1 \in 0 .. Len(chain) /\ Len(chain) \in Nat
  BY ChainIsSequence
<1>3. costs[i - 1] \in Nat
  BY <1>2, CostsGrow
<1>4. /\ LinkCost(i) = Replay + MostReplays(i) * Replay + MaxKeys + LookupCost(i)
      /\ LinkCost(i) \in Nat /\ LookupCost(i) \in Nat
      /\ MostReplays(i) \in Nat /\ MostReplays(i) * Replay \in Nat
  BY LinkCostIs
<1>5. replays * Replay \in Nat /\ replays * Replay <= MostReplays(i) * Replay
  BY <1>4, ReplayIsNat, Products
<1> DEFINE a == replays * Replay
           b == MostReplays(i) * Replay
           c == LookupCost(i)
           d == LinkCost(i)
           e == costs[i - 1]
           f == costs[i]
<1>6. /\ a \in Nat /\ b \in Nat /\ c \in Nat /\ d \in Nat /\ e \in Nat
      /\ a <= b /\ drawn <= c /\ d = Replay + b + MaxKeys + c /\ f = e + d
      /\ x <= e + Replay + MaxKeys + a + drawn
  BY <1>1, <1>3, <1>4, <1>5
<1> HIDE DEF a, b, c, d, e, f
<1>7. x <= f
  BY <1>6, ReplayIsNat
<1> QED BY <1>7 DEF f

(* Where the walk goes after a link, or stops at it, it has spent within costs. *)
LEMMA LeavesLinkUnder ==
    ASSUME chain \in Chains, chain' = chain, NEW costs, Adds(costs), NEW i \in 1 .. Len(chain),
           spent' \in Nat, spent' <= costs[i],
           pc' = "done" \/ (pc' = "window" /\ index' = i + 1)
    PROVE  Under(costs)'
<1>1. Len(chain) \in Nat /\ i \in 0 .. Len(chain)
  BY ChainIsSequence
<1>2. costs[i] \in Nat /\ costs[i] <= costs[Len(chain)] /\ costs[Len(chain)] \in Nat
  BY <1>1, CostsGrow
<1>3. spent' <= costs[Len(chain)]
  BY <1>2
<1>4. (i + 1) - 1 = i
  BY <1>1
<1> QED BY <1>3, <1>4 DEF Under, Walking

(* Before the walk nothing is spent. *)
LEMMA BeforeTheWalkUnder ==
    ASSUME chain \in Chains, chain' = chain, NEW costs, Adds(costs), spent' = 0,
           pc' \notin {"issuer", "judge", "lookup", "candidates"}, pc' = "window" => index' = 1
    PROVE  Under(costs)'
<1>1. costs[0] = 0 /\ 1 - 1 = 0
  BY DEF Adds
<1>2. Len(chain) \in Nat
  BY ChainIsSequence
<1>3. Len(chain) \in 0 .. Len(chain)
  BY <1>2
<1>4. costs[Len(chain)] \in Nat
  BY <1>3, CostsGrow
<1> QED BY <1>1, <1>4 DEF Under, Walking

(* What a lookup has replayed and drawn, as numbers. *)
LEMMA LookupCounts ==
    ASSUME IInv, RecordsInv, Balanced, DrawnPerCandidate, pc = "candidates"
    PROVE  /\ LookedAt \in Nat /\ LookedAt = Asked(index) - Len(pending)
           /\ InHand \in 0 .. 1 /\ (pending = << >> => InHand = 0)
           /\ LookupReplays \in Nat /\ LookupReplays <= MostReplays(index)
           /\ Drawn \in Nat /\ Drawn <= LookupCost(index)
<1>1. /\ chain \in Chains /\ index \in 1 .. Len(chain)
      /\ Asked(index) \in Nat /\ Len(pending) \in Nat /\ Len(pending) <= Asked(index)
      /\ (pending # << >> => Len(pending) > 0)
      /\ Drawn \in 0 .. LookedAt * MaxKeys
  BY AtLookup DEF DrawnPerCandidate
<1>2. LookedAt \in Nat /\ LookedAt = Asked(index) - Len(pending)
  BY <1>1 DEF LookedAt
<1>3. InHand \in 0 .. 1 /\ (pending = << >> => InHand = 0)
  BY DEF InHand, AtCandidate
<1>4. LookedAt + InHand <= Asked(index)
  BY <1>1, <1>2, <1>3
<1>5. LookupReplays \in Nat /\ LookupReplays <= MostReplays(index)
  BY <1>1, <1>2, <1>3, <1>4 DEF LookupReplays, MostReplays
<1>6. LookedAt * MaxKeys \in Nat /\ LookedAt * MaxKeys <= Asked(index) * MaxKeys
      /\ Asked(index) * MaxKeys \in Nat
  BY <1>1, <1>2, ReplayIsNat, Products
<1>7. Drawn <= MaxKeys + MaxKeys
  BY ReplayIsNat DEF Drawn, Balanced
<1>8. Drawn <= Asked(index) * MaxKeys /\ Drawn \in Nat
  <2> DEFINE a == LookedAt * MaxKeys
             b == Asked(index) * MaxKeys
  <2>1. a \in Nat /\ b \in Nat /\ a <= b /\ Drawn \in 0 .. a
    BY <1>1, <1>6
  <2> HIDE DEF a, b
  <2>2. Drawn <= b /\ Drawn \in Nat
    BY <2>1
  <2> QED BY <2>2 DEF b
<1>9. Drawn <= LookupCost(index)
  BY <1>1, <1>7, <1>8, LinkCostIs DEF Least
<1> QED BY <1>2, <1>3, <1>5, <1>8, <1>9

(* A lookup goes on under the costs while each replay is that of a candidate   *)
(* which is in hand and each walk is drawn from its allowance.                 *)
LEMMA LookupGoesOnUnder ==
    ASSUME chain \in Chains, chain' = chain, index' = index, index \in 1 .. Len(chain),
           NEW costs, Adds(costs), pc' = "candidates", spent' \in Nat,
           NEW replays \in Nat, LookupReplays' \in Nat, replays <= LookupReplays',
           Drawn' \in Nat,
           spent' <= costs[index - 1] + Replay + MaxKeys + replays * Replay + Drawn'
    PROVE  Under(costs)'
<1>1. PICK after \in Nat : after = LookupReplays'
  OBVIOUS
<1>2. PICK drawn \in Nat : drawn = Drawn'
  OBVIOUS
<1>3. replays * Replay \in Nat /\ after * Replay \in Nat /\ replays * Replay <= after * Replay
  BY <1>1, ReplayIsNat, Products
<1>4. Len(chain) \in Nat /\ index - 1 \in 0 .. Len(chain)
  BY ChainIsSequence
<1>5. costs[index - 1] \in Nat
  BY <1>4, CostsGrow
<1>6. spent' <= costs[index - 1] + Replay + MaxKeys + after * Replay + drawn
  <2> DEFINE a == replays * Replay
             b == after * Replay
             c == costs[index - 1]
  <2>1. a \in Nat /\ b \in Nat /\ a <= b /\ c \in Nat
        /\ spent' <= c + Replay + MaxKeys + a + drawn
    BY <1>2, <1>3, <1>5
  <2> HIDE DEF a, b, c
  <2>2. spent' <= c + Replay + MaxKeys + b + drawn
    BY <2>1, ReplayIsNat
  <2> QED BY <2>2 DEF b, c
<1>7. Replay' = Replay
  BY DEF Replay
<1> QED BY <1>1, <1>2, <1>6, <1>7 DEF Under, Walking

-------------------------------------------------------------------------------
(* What is known of a lookup before a step is known after it. *)
LEMMA LookupCountsAlways ==
    IInv /\ RecordsInv /\ Balanced /\ DrawnPerCandidate /\ pc = "candidates"
    => LookupReplays \in Nat /\ Drawn \in Nat
BY LookupCounts

(* A candidate that is dropped leaves as many replays accounted for. *)
LEMMA DroppedCandidateCounts ==
    ASSUME IInv, RecordsInv, Balanced, DrawnPerCandidate, pc = "candidates",
           pending # << >>, pending' = Tail(pending), UNCHANGED <<chain, index>>
    PROVE  /\ LookedAt' = LookedAt + 1
           /\ LookupReplays <= LookupReplays'
           /\ Unreplayed(index) # {} => LookedAt + 1 <= LookupReplays'
<1>1. /\ Asked(index) \in Nat /\ Len(pending) \in Nat /\ Len(pending') = Len(pending) - 1
  BY AtLookup
<1>2. LookedAt \in Nat /\ LookedAt = Asked(index) - Len(pending) /\ InHand \in 0 .. 1
  BY LookupCounts
<1>3. LookedAt' = LookedAt + 1 /\ Unreplayed(index)' = Unreplayed(index)
  BY <1>1, <1>2, SameLinkAsks DEF LookedAt
<1>4. InHand' \in 0 .. 1
  BY DEF InHand
<1>5. LookupReplays' = IF Unreplayed(index) = {} THEN 0 ELSE LookedAt' + InHand'
  BY <1>3 DEF LookupReplays
<1> QED BY <1>2, <1>3, <1>4, <1>5 DEF LookupReplays

(* One action at a time: what is spent stays within the costs.                 *)
LEMMA AskKeepsUnder ==
    ASSUME NEW costs, Adds(costs), Under(costs), IInv, RecordsInv, Balanced,
           LookupReplays' \in Nat \/ pc' # "candidates", AskRevocations
    PROVE  Under(costs)'
<1>1. /\ chain' = chain /\ spent' = spent /\ pc = "lookup" /\ spent \in Nat
  BY DEF AskRevocations, World, call, Balanced
<1>2. /\ chain \in Chains /\ index \in 1 .. Len(chain) /\ Len(chain) \in Nat
  BY <1>1, AtLookup
<1>3. spent <= costs[index - 1] + Replay + MaxKeys
  BY <1>1 DEF Under
<1>4. CASE pc' = "done"
  BY <1>1, <1>2, <1>3, <1>4, LinkAffordsWalk, LeavesLinkUnder
<1>5. CASE pc' # "done"
  <2>1. pc' = "candidates" /\ index' = index /\ allowance' = CandidateAllowance
    BY <1>5 DEF AskRevocations, Return, GoTo
  <2>2. Drawn' = 0
    BY <2>1, ReplayIsNat DEF Drawn, CandidateAllowance
  <2>3. index - 1 \in 0 .. Len(chain)
    BY <1>2
  <2>4. costs[index - 1] \in Nat /\ 0 * Replay = 0 /\ 0 \in Nat
    BY <1>2, <2>3, CostsGrow, ReplayIsNat
  <2>5. spent' <= costs[index - 1] + Replay + MaxKeys + 0 * Replay + Drawn'
    BY <1>1, <1>3, <2>2, <2>4, ReplayIsNat
  <2>6. LookupReplays' \in Nat /\ 0 <= LookupReplays' /\ Drawn' \in Nat
    BY <2>1, <2>2
  <2> QED BY <1>1, <1>2, <2>1, <2>4, <2>5, <2>6, LookupGoesOnUnder
<1> QED BY <1>4, <1>5

LEMMA SkipKeepsUnder ==
    ASSUME NEW costs, Adds(costs), Under(costs), IInv, RecordsInv, Balanced, DrawnPerCandidate,
           LookupReplays' \in Nat \/ pc' # "candidates", SkipIrrelevant
    PROVE  Under(costs)'
<1>1. /\ chain' = chain /\ spent' = spent /\ pc = "candidates" /\ pc' = "candidates"
      /\ index' = index /\ allowance' = allowance /\ spent \in Nat
      /\ pending # << >> /\ pending' = Tail(pending)
  BY DEF SkipIrrelevant, AtCandidate, Skip, GoTo, Unmetered, World, call, Balanced
<1>2. chain \in Chains /\ index \in 1 .. Len(chain)
  BY <1>1, AtLookup
<1>3. LookupReplays <= LookupReplays'
  BY <1>1, DroppedCandidateCounts
<1>4. LookupReplays \in Nat /\ Drawn \in Nat /\ Drawn' = Drawn
  BY <1>1, LookupCounts DEF Drawn, CandidateAllowance
<1>5. spent' <= costs[index - 1] + Replay + MaxKeys + LookupReplays * Replay + Drawn'
  BY <1>1, <1>4 DEF Under
<1> QED BY <1>1, <1>2, <1>3, <1>4, <1>5, LookupGoesOnUnder

LEMMA JudgeCandidateKeepsUnder ==
    ASSUME NEW costs, Adds(costs), Under(costs), IInv, RecordsInv, Balanced, DrawnPerCandidate,
           LookupReplays' \in Nat \/ pc' # "candidates", JudgeCandidate
    PROVE  Under(costs)'
<1>1. PICK cost \in 0 .. MaxKeys :
         /\ cost <= allowance /\ spent' = spent + cost /\ allowance' = allowance - cost
         /\ UNCHANGED <<call, memo>> /\ AtCandidate
         /\ \/ pc' = "done" /\ pending' = pending
            \/ pc' = "candidates" /\ index' = index /\ pending' = Tail(pending)
  BY JudgeCandidatePays
<1>2. /\ chain \in Chains /\ index \in 1 .. Len(chain) /\ Len(chain) \in Nat /\ chain' = chain
      /\ pc = "candidates" /\ pending # << >> /\ Len(pending) > 0 /\ Len(pending) \in Nat
      /\ Asked(index) \in Nat /\ Len(pending) <= Asked(index)
  BY <1>1, AtLookup DEF AtCandidate, call, DrawnPerCandidate
<1>3. LookupReplays \in Nat /\ LookupReplays <= MostReplays(index) /\ Drawn \in Nat
      /\ LookedAt \in Nat /\ LookedAt = Asked(index) - Len(pending)
      /\ Drawn \in 0 .. LookedAt * MaxKeys
  BY <1>2, LookupCounts DEF DrawnPerCandidate
<1>4. Drawn' = Drawn + cost /\ Drawn' \in Nat /\ spent' \in Nat /\ allowance' \in Nat
  BY <1>1, <1>3, ReplayIsNat DEF Drawn, CandidateAllowance, Balanced
<1> DEFINE a == LookupReplays * Replay
           c == costs[index - 1]
<1>5. spent' <= c + Replay + MaxKeys + a + Drawn'
  <2>1. a \in Nat
    BY <1>3, ReplayIsNat, Products
  <2>2. index - 1 \in 0 .. Len(chain)
    BY <1>2
  <2>3. c \in Nat
    BY <1>2, <2>2, CostsGrow
  <2>4. spent <= c + Replay + MaxKeys + a + Drawn
    BY <1>2 DEF Under
  <2> HIDE DEF a, c
  <2> QED BY <1>1, <1>3, <1>4, <2>1, <2>3, <2>4, ReplayIsNat DEF Balanced
<1>6. CASE pc' = "done"
  <2>1. Drawn' <= LookupCost(index)
    <3>1. Drawn' <= MaxKeys + MaxKeys
      <4>1. Drawn = (MaxKeys + MaxKeys) - allowance /\ allowance \in Nat
        BY ReplayIsNat DEF Drawn, Balanced
      <4> QED BY <1>1, <1>4, <4>1, ReplayIsNat
    <3>2. Drawn + cost \in 0 .. (LookedAt + 1) * MaxKeys
      BY <1>3, OneCandidateLess
    <3>3. LookedAt + 1 \in Nat /\ LookedAt + 1 <= Asked(index)
      BY <1>2, <1>3
    <3>4. /\ (LookedAt + 1) * MaxKeys <= Asked(index) * MaxKeys
          /\ (LookedAt + 1) * MaxKeys \in Nat /\ Asked(index) * MaxKeys \in Nat
      BY <1>2, <3>3, ReplayIsNat, Products
    <3>5. Drawn' <= Asked(index) * MaxKeys
      <4> DEFINE x == (LookedAt + 1) * MaxKeys
                 y == Asked(index) * MaxKeys
      <4>1. x \in Nat /\ y \in Nat /\ x <= y /\ Drawn' \in 0 .. x
        BY <1>4, <3>2, <3>4
      <4> HIDE DEF x, y
      <4>2. Drawn' <= y
        BY <4>1
      <4> QED BY <4>2 DEF y
    <3> QED BY <1>2, <3>1, <3>5, LinkCostIs DEF Least
  <2>2. PICK drawn \in Nat, x \in Nat : drawn = Drawn' /\ x = spent'
    BY <1>4
  <2>3. x <= costs[index]
    BY <1>2, <1>3, <1>5, <2>1, <2>2, LinkAffordsLookup
  <2> QED BY <1>2, <1>4, <1>6, <2>2, <2>3, LeavesLinkUnder
<1>7. CASE pc' # "done"
  <2>1. pc' = "candidates" /\ index' = index /\ pending' = Tail(pending)
    BY <1>1, <1>7
  <2>2. LookupReplays <= LookupReplays'
    BY <1>2, <2>1, DroppedCandidateCounts
  <2> QED BY <1>2, <1>3, <1>4, <1>5, <2>1, <2>2, LookupGoesOnUnder
<1> QED BY <1>6, <1>7

LEMMA ResolveRevokerKeepsUnder ==
    ASSUME NEW costs, Adds(costs), Under(costs), IInv, RecordsInv, Balanced, DrawnPerCandidate,
           MemoCoversLinks, Balanced',
           LookupReplays' \in Nat \/ pc' # "candidates",
           NEW answer, ResolveRevoker(answer)
    PROVE  Under(costs)'
<1> DEFINE p == Candidate.issuer
<1>1. /\ Pays(ReplayCost(answer)) /\ UNCHANGED <<call, allowance>>
      /\ ReplayCost(answer) \in Nat /\ ReplayCost(answer) <= Replay
      /\ AtCandidate /\ Relevant /\ memo[p] = Unasked /\ p \in Participant
      /\ \/ pc' = "done" /\ memo' = memo /\ pending' = pending
         \/ /\ pc' = "candidates" /\ index' = index /\ pending' = pending
            /\ answer > 0 /\ Remember(p, answer)
         \/ /\ pc' = "candidates" /\ index' = index /\ pending' = Tail(pending)
  BY ResolveRevokerPays
<1>2. /\ chain \in Chains /\ index \in 1 .. Len(chain) /\ Len(chain) \in Nat /\ chain' = chain
      /\ pc = "candidates" /\ pending # << >> /\ Len(pending) > 0 /\ Len(pending) \in Nat
      /\ Asked(index) \in Nat /\ Len(pending) <= Asked(index)
  BY <1>1, AtLookup DEF AtCandidate, call, DrawnPerCandidate
<1>3. /\ LookedAt \in Nat /\ LookedAt = Asked(index) - Len(pending)
      /\ Drawn \in Nat /\ Drawn <= LookupCost(index) /\ Drawn' = Drawn
  BY <1>1, <1>2, LookupCounts DEF Drawn, CandidateAllowance
<1>4. Unreplayed(index) # {}
  <2>1. Recalled = index
    BY <1>2 DEF Recalled
  <2>2. p \notin {chain[j].issuer : j \in 1 .. index}
    BY <1>1, <2>1 DEF MemoCoversLinks
  <2> QED BY <1>1, <2>2 DEF Relevant, Unreplayed
<1>5. LookupReplays = LookedAt /\ InHand = 0
  BY <1>1, <1>3, <1>4 DEF LookupReplays, InHand
<1>6. spent' <= spent + Replay /\ spent' \in Nat
  BY <1>1, ReplayIsNat DEF Pays, Affords, Charge, Exhaust, Balanced
<1> DEFINE n == LookedAt + 1
<1>7. spent' <= costs[index - 1] + Replay + MaxKeys + n * Replay + Drawn
  <2> DEFINE a == LookedAt * Replay
             b == n * Replay
             c == costs[index - 1]
  <2>1. a \in Nat /\ b = a + Replay
    BY <1>3, ReplayIsNat, Products
  <2>2. index - 1 \in 0 .. Len(chain)
    BY <1>2
  <2>3. c \in Nat
    BY <1>2, <2>2, CostsGrow
  <2>4. spent <= c + Replay + MaxKeys + a + Drawn
    BY <1>2, <1>5 DEF Under
  <2> HIDE DEF a, b, c
  <2>5. spent' <= c + Replay + MaxKeys + b + Drawn
    BY <1>3, <1>6, <2>1, <2>3, <2>4, ReplayIsNat DEF Balanced
  <2> QED BY <2>5 DEF b, c
<1>8. n \in Nat /\ n <= MostReplays(index)
  BY <1>2, <1>3, <1>4 DEF MostReplays
<1> HIDE DEF n
<1>9. CASE pc' = "done"
  <2>1. PICK x \in Nat : x = spent'
    BY <1>6
  <2>2. x <= costs[index]
    BY <1>2, <1>3, <1>7, <1>8, <2>1, LinkAffordsLookup
  <2> QED BY <1>2, <1>6, <1>9, <2>1, <2>2, LeavesLinkUnder
<1>10. CASE pc' # "done"
  <2>1. n <= LookupReplays'
    <3>1. CASE pending' = Tail(pending)
      <4>1. LookedAt + 1 <= LookupReplays'
        BY <1>1, <1>2, <1>4, <1>10, <3>1, DroppedCandidateCounts
      <4> QED BY <4>1 DEF n
    <3>2. CASE pending' = pending /\ answer > 0 /\ Remember(p, answer) /\ pc' = "candidates" /\ index' = index
      <4>1. memo'[p] = answer /\ answer # Unasked
        BY <1>1, <3>2 DEF Remember, RecordsInv, Unasked
      <4>2. Candidate' = Candidate /\ AtCandidate' /\ Relevant'
        BY <1>1, <1>2, <3>2 DEF Candidate, AtCandidate, Relevant, AuthorizedRevokers, Digest
      <4>3. InHand' = 1
        BY <4>1, <4>2 DEF InHand
      <4>4. LookedAt' = LookedAt /\ Unreplayed(index)' # {}
        BY <1>2, <1>4, <3>2, SameLinkAsks DEF LookedAt
      <4> QED BY <1>3, <4>3, <4>4 DEF LookupReplays, n
    <3> QED BY <1>1, <1>10, <3>1, <3>2
  <2> QED BY <1>1, <1>2, <1>3, <1>6, <1>7, <1>8, <1>10, <2>1, LookupGoesOnUnder
<1> QED BY <1>9, <1>10

-------------------------------------------------------------------------------
(* The place in the walk and what is spent when the call is at a link. *)
LEMMA AtLink ==
    ASSUME IInv, Balanced, NEW costs, Adds(costs), Walking
    PROVE  /\ chain \in Chains /\ index \in 1 .. Len(chain) /\ Len(chain) \in Nat
           /\ costs[index - 1] \in Nat /\ spent \in Nat
<1>1. chain \in Chains /\ index \in 1 .. Len(chain) /\ Len(chain) \in Nat
  BY ChainIsSequence DEF IInv, ShapeInv, WalkInv
<1>2. index - 1 \in 0 .. Len(chain)
  BY <1>1
<1> QED BY <1>1, <1>2, CostsGrow DEF Balanced

LEMMA ShapeKeepsUnder ==
    ASSUME NEW costs, Adds(costs), Under(costs), IInv,
           CheckShape \/ CheckPair \/ NarrowAud \/ AdmitVerifier
    PROVE  Under(costs)'
<1>1. chain' = chain /\ spent' = spent /\ pc \in {"shape", "pairs", "aud"}
  BY DEF CheckShape, CheckPair, NarrowAud, AdmitVerifier, World, Unmetered, call
<1>2. chain \in Chains
  BY DEF IInv, ShapeInv
<1>3. spent' = 0
  BY <1>1 DEF Under, Walking
<1>4. /\ pc' \notin {"issuer", "judge", "lookup", "candidates"}
      /\ pc' = "window" => index' = 1
  BY DEF CheckShape, CheckPair, NarrowAud, AdmitVerifier, Return, GoTo
<1> QED BY <1>1, <1>2, <1>3, <1>4, BeforeTheWalkUnder

LEMMA WindowKeepsUnder ==
    ASSUME NEW costs, Adds(costs), Under(costs), IInv, Balanced, CheckWindow \/ RecallIssuer
    PROVE  Under(costs)'
<1>1. chain' = chain /\ spent' = spent /\ pc \in {"window", "issuer"}
  BY DEF CheckWindow, RecallIssuer, World, Unmetered, call
<1>2. /\ chain \in Chains /\ index \in 1 .. Len(chain) /\ Len(chain) \in Nat
      /\ costs[index - 1] \in Nat /\ spent \in Nat
  BY <1>1, AtLink DEF Walking
<1>3. spent <= costs[index - 1]
  BY <1>1 DEF Under
<1>4. CASE pc' = "done"
  BY <1>1, <1>2, <1>3, <1>4, ReplayIsNat, LinkAffordsWalk, LeavesLinkUnder
<1>5. CASE pc' # "done"
  <2>1. pc' \in {"issuer", "judge"} /\ index' = index
    BY <1>5 DEF CheckWindow, RecallIssuer, Return, GoTo
  <2>2. Replay' = Replay
    BY DEF Replay
  <2>3. spent <= costs[index - 1] + Replay
    BY <1>2, <1>3, ReplayIsNat
  <2> QED BY <1>1, <1>3, <2>1, <2>2, <2>3 DEF Under, Walking
<1> QED BY <1>4, <1>5

LEMMA ResolveIssuerKeepsUnder ==
    ASSUME NEW costs, Adds(costs), Under(costs), IInv, Balanced, Balanced',
           NEW answer, ResolveIssuer(answer)
    PROVE  Under(costs)'
<1>1. /\ Pays(ReplayCost(answer)) /\ chain' = chain /\ pc = "issuer"
      /\ ReplayCost(answer) \in Nat /\ ReplayCost(answer) <= Replay
      /\ pc' = "done" \/ (pc' = "judge" /\ index' = index)
  BY ResolveIssuerPays DEF call
<1>2. /\ chain \in Chains /\ index \in 1 .. Len(chain) /\ Len(chain) \in Nat
      /\ costs[index - 1] \in Nat /\ spent \in Nat
  BY <1>1, AtLink DEF Walking
<1>3. spent' <= spent + Replay /\ spent' \in Nat
  BY <1>1, ReplayIsNat DEF Pays, Affords, Charge, Exhaust, Balanced
<1>4. spent <= costs[index - 1]
  BY <1>1 DEF Under
<1>5. spent' <= costs[index - 1] + Replay /\ spent' <= costs[index - 1] + Replay + MaxKeys
  BY <1>2, <1>3, <1>4, ReplayIsNat
<1>6. CASE pc' = "done"
  <2>1. PICK x \in Nat : x = spent'
    BY <1>3
  <2>2. x <= costs[index]
    BY <1>2, <1>5, <2>1, LinkAffordsWalk
  <2> QED BY <1>1, <1>2, <1>3, <1>6, <2>1, <2>2, LeavesLinkUnder
<1>7. CASE pc' = "judge" /\ index' = index
  <2>1. Replay' = Replay
    BY DEF Replay
  <2> QED BY <1>5, <1>7, <2>1 DEF Under, Walking
<1> QED BY <1>1, <1>6, <1>7

LEMMA JudgeLinkKeepsUnder ==
    ASSUME NEW costs, Adds(costs), Under(costs), IInv, Balanced, Balanced', JudgeLink
    PROVE  Under(costs)'
<1>1. PICK cost \in 0 .. MaxKeys : Pays(cost)
  BY JudgeLinkPays
<1>2. /\ chain' = chain /\ pc = "judge"
      /\ \/ pc' = "done"
         \/ pc' = "lookup" /\ index' = index
         \/ pc' = "window" /\ index' = index + 1
  BY JudgeLinkPays DEF call, NextLink, GoTo, Return
<1>3. /\ chain \in Chains /\ index \in 1 .. Len(chain) /\ Len(chain) \in Nat
      /\ costs[index - 1] \in Nat /\ spent \in Nat
  BY <1>2, AtLink DEF Walking
<1>4. spent' <= spent + MaxKeys /\ spent' \in Nat
  BY <1>1, ReplayIsNat DEF Pays, Affords, Charge, Exhaust, Balanced
<1>5. spent <= costs[index - 1] + Replay
  BY <1>2 DEF Under
<1>6. spent' <= costs[index - 1] + Replay + MaxKeys
  BY <1>3, <1>4, <1>5, ReplayIsNat
<1>7. CASE pc' = "lookup" /\ index' = index
  <2>1. Replay' = Replay
    BY DEF Replay
  <2> QED BY <1>6, <1>7, <2>1 DEF Under, Walking
<1>8. CASE pc' = "done" \/ (pc' = "window" /\ index' = index + 1)
  <2>1. PICK x \in Nat : x = spent'
    BY <1>4
  <2>2. x <= costs[index]
    BY <1>3, <1>6, <2>1, LinkAffordsWalk
  <2> QED BY <1>2, <1>3, <1>4, <1>8, <2>1, <2>2, LeavesLinkUnder
<1> QED BY <1>2, <1>7, <1>8

(* What is spent anywhere in the walk is within the cost of the link. *)
LEMMA LinkIsAfforded ==
    ASSUME NEW costs, Adds(costs), Under(costs), IInv, RecordsInv, Balanced, DrawnPerCandidate,
           Walking
    PROVE  spent <= costs[index]
<1>1. /\ chain \in Chains /\ index \in 1 .. Len(chain) /\ Len(chain) \in Nat
      /\ costs[index - 1] \in Nat /\ spent \in Nat
  BY AtLink
<1>2. CASE pc = "candidates"
  <2>1. /\ LookupReplays \in Nat /\ LookupReplays <= MostReplays(index)
        /\ Drawn \in Nat /\ Drawn <= LookupCost(index)
    BY <1>2, LookupCounts
  <2>2. spent <= costs[index - 1] + Replay + MaxKeys + LookupReplays * Replay + Drawn
    BY <1>2 DEF Under
  <2> QED BY <1>1, <2>1, <2>2, LinkAffordsLookup
<1>3. CASE pc # "candidates"
  <2>1. \/ spent <= costs[index - 1]
        \/ spent <= costs[index - 1] + Replay
        \/ spent <= costs[index - 1] + Replay + MaxKeys
    BY <1>3 DEF Under, Walking
  <2>2. spent <= costs[index - 1] + Replay + MaxKeys
    BY <1>1, <2>1, ReplayIsNat
  <2> QED BY <1>1, <2>2, LinkAffordsWalk
<1> QED BY <1>2, <1>3

LEMMA LeavingKeepsUnder ==
    ASSUME NEW costs, Adds(costs), Under(costs), IInv, RecordsInv, Balanced, DrawnPerCandidate,
           ViewThrows \/ NotRevoked
    PROVE  Under(costs)'
<1>1. /\ chain' = chain /\ spent' = spent
      /\ pc \in {"issuer", "lookup", "candidates"}
      /\ pc' = "done" \/ (pc' = "window" /\ index' = index + 1)
  BY DEF ViewThrows, NotRevoked, AtView, AtCandidate, NextLink, GoTo, Return, World, Unmetered,
         call
<1>2. /\ chain \in Chains /\ index \in 1 .. Len(chain) /\ spent \in Nat
  BY <1>1, AtLink DEF Walking
<1>3. spent <= costs[index]
  BY <1>1, LinkIsAfforded DEF Walking
<1> QED BY <1>1, <1>2, <1>3, LeavesLinkUnder

(* Nothing of the call changes while somebody publishes a revocation. *)
LEMMA StandingStillKeepsUnder ==
    ASSUME NEW costs, Under(costs),
           UNCHANGED <<chain, options, pc, index, memo, allowance, pending, spent>>
    PROVE  Under(costs)'
<1>1. Unreplayed(index)' = Unreplayed(index) /\ LookedAt' = LookedAt /\ Drawn' = Drawn
  BY DEF Unreplayed, AuthorizedRevokers, LookedAt, Asked, Drawn, CandidateAllowance
<1>2. InHand' = InHand
  BY DEF InHand, AtCandidate, Relevant, Candidate, Digest, AuthorizedRevokers
<1>3. LookupReplays' = LookupReplays /\ Replay' = Replay
  BY <1>1, <1>2 DEF LookupReplays, Replay
<1> QED BY <1>1, <1>3 DEF Under, Walking

(* A call that has returned spends no more.                                    *)
LEMMA DoneKeepsUnder ==
    ASSUME NEW costs, Under(costs), pc = "done", [Next]_vars
    PROVE  Under(costs)'
<1>1. UNCHANGED <<chain, options, view, pc, index, memo, local, spent>>
  BY DoneStays
<1>2. Len(chain)' = Len(chain)
  BY <1>1
<1> QED BY <1>1, <1>2 DEF Under, Walking

(* Every step keeps what is spent under the costs of the links so far. *)
LEMMA StepKeepsUnder ==
    ASSUME NEW costs, Adds(costs), Under(costs), IInv, RecordsInv, Balanced, MemoCoversLinks,
           DrawnPerCandidate, Balanced', LookupReplays' \in Nat \/ pc' # "candidates",
           [Next]_vars
    PROVE  Under(costs)'
<1>1. CASE CheckShape \/ CheckPair \/ NarrowAud \/ AdmitVerifier
  BY <1>1, ShapeKeepsUnder
<1>2. CASE CheckWindow \/ RecallIssuer
  BY <1>2, WindowKeepsUnder
<1>3. CASE JudgeLink
  BY <1>3, JudgeLinkKeepsUnder
<1>4. ASSUME NEW answer \in LogAnswer, ResolveIssuer(answer) PROVE Under(costs)'
  BY <1>4, ResolveIssuerKeepsUnder
<1>5. ASSUME NEW answer \in LogAnswer, ResolveRevoker(answer) PROVE Under(costs)'
  BY <1>5, ResolveRevokerKeepsUnder
<1>6. CASE AskRevocations
  BY <1>6, AskKeepsUnder
<1>7. CASE ViewThrows \/ NotRevoked
  BY <1>7, LeavingKeepsUnder
<1>8. CASE SkipIrrelevant
  BY <1>8, SkipKeepsUnder
<1>9. CASE JudgeCandidate
  BY <1>9, JudgeCandidateKeepsUnder
<1>10. CASE PublishRevocation \/ UNCHANGED vars
  BY <1>10, StandingStillKeepsUnder DEF PublishRevocation, vars, call
<1> QED BY <1>1, <1>2, <1>3, <1>4, <1>5, <1>6, <1>7, <1>8, <1>9, <1>10 DEF Next, Step

-----------------------------------------------------------------------------
(* The costs of the links of this call, and what is spent under them. *)
CostsInv == \E costs : Adds(costs) /\ Under(costs)

(* The inductive invariants of the meters: first the counts, then the costs,   *)
(* whose step needs the counts after it.                                       *)
Metered == IInv /\ RecordsInv /\ Balanced /\ MemoCoversLinks /\ DrawnPerCandidate /\ HonestInv

(* The counts of a lookup are numbers.                                         *)
LookupIsCounted == pc = "candidates" => LookupReplays \in Nat /\ Drawn \in Nat

(* At the start nothing is spent, of costs that exist.                         *)
LEMMA InitEstablishesWork == Init => Metered /\ CostsInv
<1> SUFFICES ASSUME Init PROVE Metered /\ CostsInv
    OBVIOUS
<1>1. IInv /\ RecordsInv
  BY InitEstablishes, InitEstablishesRecords
<1>2. /\ pc = "shape" /\ spent = 0 /\ local = options.limit /\ options.limit \in Nat
      /\ allowance = 0 /\ memo = [p \in Participant |-> Unasked] /\ chain \in Chains
  BY GrantChainAssumption DEF Init, Chains, GrantChainAssumption
<1>3. Balanced /\ DrawnPerCandidate
  BY <1>2 DEF Balanced, DrawnPerCandidate
<1>4. MemoCoversLinks
  BY <1>2 DEF MemoCoversLinks, Recalled, Walking
<1>5. HonestInv
  <2>1. Replayed = {} /\ Paid = 0
    BY <1>2 DEF Replayed, Paid, Walking, Unasked
  <2>2. Cardinality(Replayed) = 0
    BY <2>1, FS_EmptySet
  <2> QED BY <1>2, <2>1, <2>2, ReplayIsNat DEF HonestInv
<1>6. CostsInv
  <2>1. PICK costs : Adds(costs)
    BY <1>2, CostsExist
  <2>2. Under(costs)
    BY <1>2 DEF Under, Walking
  <2> QED BY <2>1, <2>2 DEF CostsInv
<1> QED BY <1>1, <1>3, <1>4, <1>5, <1>6 DEF Metered

(* The counts are inductive.                                                   *)
LEMMA MeteredHolds == Spec => [](Metered /\ LookupIsCounted)
<1>1. Init => Metered
  BY InitEstablishesWork
<1>2. Metered /\ [Next]_vars => Metered'
  <2>1. Metered /\ [Next]_vars => IInv' /\ RecordsInv' /\ Balanced' /\ MemoCoversLinks'
                                /\ DrawnPerCandidate'
    BY StepKeepsInv, StepKeepsRecords, StepKeepsBalance, StepKeepsMemoCover, StepKeepsDraw
    DEF Metered
  <2> QED BY <2>1, StepKeepsHonest DEF Metered
<1>3. Metered => LookupIsCounted
  BY LookupCountsAlways DEF Metered, LookupIsCounted
<1> QED BY <1>1, <1>2, <1>3, PTL DEF Spec

(* So are the costs, given the counts before and after a step.                 *)
LEMMA CostsHold == Spec => []CostsInv
<1>1. Init => CostsInv
  BY InitEstablishesWork
<1>2. /\ Metered /\ CostsInv /\ (Metered /\ LookupIsCounted)' /\ [Next]_vars
      => CostsInv'
  <2> SUFFICES ASSUME Metered, CostsInv, (Metered /\ LookupIsCounted)', [Next]_vars
               PROVE  CostsInv'
      OBVIOUS
  <2>1. PICK costs : Adds(costs) /\ Under(costs)
    BY DEF CostsInv
  <2>2. chain' = chain
    BY DEF Next, Step, CheckShape, CheckPair, NarrowAud, AdmitVerifier, CheckWindow,
           RecallIssuer, ViewThrows, NotRevoked, AskRevocations, SkipIrrelevant,
           PublishRevocation, vars, call, World, JudgeLink, JudgeCandidate, ResolveIssuer,
           ResolveRevoker
  <2>3. Adds(costs)'
    BY <2>1, <2>2, AddsStays
  <2>4. CASE pc = "done"
    <3>1. Under(costs)'
      BY <2>1, <2>4, DoneKeepsUnder
    <3> QED BY <2>3, <3>1 DEF CostsInv
  <2>5. CASE pc # "done"
    <3>1. Balanced' /\ (LookupReplays' \in Nat \/ pc' # "candidates")
      BY DEF Metered, LookupIsCounted
    <3>2. Under(costs)'
      BY <2>1, <3>1, StepKeepsUnder DEF Metered
    <3> QED BY <2>3, <3>2 DEF CostsInv
  <2> QED BY <2>4, <2>5
<1> QED BY <1>1, <1>2, MeteredHolds, PTL DEF Spec

(* Where a call is, it has not spent more than all of its links may cost. *)
LEMMA WithinAllLinks ==
    ASSUME Metered, CostsInv
    PROVE  spent <= OneReplayPerCandidate
<1>1. PICK costs : Adds(costs) /\ Under(costs)
  BY DEF CostsInv
<1>2. chain \in Chains /\ Len(chain) \in Nat /\ spent \in Nat
  BY ChainIsSequence DEF Metered, IInv, ShapeInv, Balanced
<1>3. Len(chain) \in 0 .. Len(chain)
  BY <1>2
<1>4. costs[Len(chain)] \in Nat
  BY <1>1, <1>2, <1>3, CostsGrow
<1>5. spent <= costs[Len(chain)]
  <2>1. CASE pc = "done"
    BY <1>1, <2>1 DEF Under
  <2>2. CASE Walking
    <3>1. index \in 1 .. Len(chain)
      BY <2>2 DEF Metered, IInv, WalkInv
    <3>2. index \in 0 .. Len(chain)
      BY <1>2, <3>1
    <3>3. spent <= costs[index]
      BY <1>1, <2>2, LinkIsAfforded DEF Metered
    <3>4. costs[index] \in Nat /\ costs[index] <= costs[Len(chain)]
      BY <1>1, <1>2, <3>2, CostsGrow
    <3> QED BY <1>2, <1>4, <3>3, <3>4
  <2>3. CASE ~Walking /\ pc # "done"
    <3>1. spent = 0
      BY <1>1, <2>3 DEF Under
    <3> QED BY <1>4, <3>1
  <2> QED BY <2>1, <2>2, <2>3
<1> QED BY <1>1, <1>2, <1>5, CeilingIsSum

(* With an honest view it has not spent more than the ceiling the comment on    *)
(* verifyGrantChain adds up.                                                   *)
LEMMA WithinHonestCeiling ==
    ASSUME Metered, view = "honest"
    PROVE  spent <= HonestCeiling
<1>1. /\ chain \in Chains /\ Len(chain) \in Nat /\ spent \in Nat
      /\ Replayed \subseteq Issuers
  BY ChainIsSequence DEF Metered, IInv, ShapeInv, Balanced, HonestInv
<1>2. CASE pc = "done"
  BY <1>2 DEF Metered, HonestInv
<1>3. CASE pc # "done"
  <2>1. Paid \in 0 .. Len(chain)
    BY <1>1 DEF Paid, Walking, Metered, IInv, WalkInv
  <2>2. Cardinality(Replayed) \in 0 .. Len(chain)
    BY <1>1, ReplayedAreFew
  <2> DEFINE r == Cardinality(Replayed)
             w == Paid
  <2>3. spent <= r * Replay + w * MaxKeys
    BY <1>3 DEF Metered, HonestInv
  <2>4. r \in 0 .. Len(chain) /\ w \in 0 .. Len(chain)
    BY <2>1, <2>2
  <2> HIDE DEF r, w
  <2>5. r * Replay \in Nat /\ w * MaxKeys \in Nat
    BY <1>1, <2>4, ReplayIsNat, Products
  <2>6. spent <= r * Replay + w * MaxKeys + MaxKeys
    <3> DEFINE a == r * Replay
               b == w * MaxKeys
    <3>1. a \in Nat /\ b \in Nat /\ spent <= a + b
      BY <2>3, <2>5
    <3> HIDE DEF a, b
    <3>2. spent <= a + b + MaxKeys
      BY <1>1, <3>1, ReplayIsNat
    <3> QED BY <3>2 DEF a, b
  <2> QED BY <1>1, <2>4, <2>6, UnderHonestCeiling
<1> QED BY <1>2, <1>3

(* verifyGrantChain: for every chain and every view the verifications performed *)
(* are what came off the allowance, and are bounded by the chain: by a replay   *)
(* and a walk for each link when the view answers what is published, and by a   *)
(* replay for each candidate it may send when it does not.                     *)
THEOREM WorkIsBounded == Spec => []WorkBounded
<1>1. Metered /\ CostsInv => WorkBounded
  BY WithinAllLinks, WithinHonestCeiling DEF Metered, Balanced, WorkBounded
<1> QED BY <1>1, MeteredHolds, CostsHold, PTL
===============================================================================
