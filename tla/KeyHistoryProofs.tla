--------------------------- MODULE KeyHistoryProofs ---------------------------
(***************************************************************************)
(* Proofs about the key history and what rests on it: who may continue a   *)
(* log and what forks reveal (KeyLogSuccession), the directory and its     *)
(* clients (Directory), and records judged against an anchored key state   *)
(* (RecordIssuing, RecordUnit).                                            *)
(*                                                                         *)
(* The lemmas of the first sections are about logs as values: none of them *)
(* mentions a variable but identity.id.  The invariant of the holder says  *)
(* that what it keeps is always the next link of a log that replays; every *)
(* theorem below uses it.                                                  *)
(***************************************************************************)
EXTENDS Directory, RecordUnit, SequenceTheorems, FiniteSetTheorems, WellFoundedInduction, TLAPS

-------------------------------------------------------------------------------
(* Sequences whose elements come from no set that could be named. *)
IsSequence(s) == Len(s) \in Nat /\ s = [i \in 1 .. Len(s) |-> s[i]]

LEMMA SequenceFacts ==
  ASSUME NEW s, IsSequence(s)
  PROVE  s \in Seq(ToSet(s)) /\ DOMAIN s = 1 .. Len(s) /\ Len(s) \in Nat
<1>1. DOMAIN s = 1 .. Len(s) /\ Len(s) \in Nat
  BY DEF IsSequence
<1>2. s \in [1 .. Len(s) -> ToSet(s)]
  BY <1>1 DEF IsSequence, ToSet
<1> QED
  BY <1>1, <1>2, SeqDef

LEMMA MembersOfSeq ==
  ASSUME NEW S, NEW s \in Seq(S)
  PROVE  IsSequence(s)
  BY LenProperties DEF IsSequence

LEMMA AppendFacts ==
  ASSUME NEW s, IsSequence(s), NEW e
  PROVE  /\ IsSequence(Append(s, e))
         /\ Len(Append(s, e)) = Len(s) + 1
         /\ \A i \in 1 .. Len(s) : Append(s, e)[i] = s[i]
         /\ Append(s, e)[Len(s) + 1] = e
<1> DEFINE S == ToSet(s) \cup {e}
<1>1. s \in Seq(ToSet(s)) /\ Len(s) \in Nat
  BY SequenceFacts
<1>2. s \in Seq(S)
  BY <1>1, SeqMonotonic
<1> HIDE DEF S
<1>3. e \in S
  BY DEF S
<1>4. Append(s, e) \in Seq(S)
  BY <1>2, <1>3, AppendProperties
<1>5. IsSequence(Append(s, e))
  BY <1>4, MembersOfSeq
<1>6. Len(Append(s, e)) = Len(s) + 1 /\ Append(s, e)[Len(s) + 1] = e
  BY <1>2, <1>3, AppendProperties
<1>7. \A i \in 1 .. Len(s) : Append(s, e)[i] = s[i]
  BY <1>2, <1>3, AppendProperties
<1> QED
  BY <1>5, <1>6, <1>7

LEMMA SubSeqFacts ==
  ASSUME NEW s, IsSequence(s), NEW n \in 0 .. Len(s)
  PROVE  /\ IsSequence(SubSeq(s, 1, n))
         /\ Len(SubSeq(s, 1, n)) = n
         /\ \A i \in 1 .. n : SubSeq(s, 1, n)[i] = s[i]
<1>1. Len(s) \in Nat /\ n \in Int /\ 1 \in Int /\ DOMAIN s = 1 .. Len(s)
  BY SequenceFacts
<1>2. \A i \in 1 .. n : s[i] \in ToSet(s)
  BY <1>1 DEF ToSet
<1>3. /\ SubSeq(s, 1, n) \in Seq(ToSet(s))
      /\ Len(SubSeq(s, 1, n)) = IF 1 <= n THEN n - 1 + 1 ELSE 0
      /\ \A i \in 1 .. n - 1 + 1 : SubSeq(s, 1, n)[i] = s[1 + i - 1]
  BY ONLY <1>1, <1>2, SubSeqProperties
<1>4. IsSequence(SubSeq(s, 1, n))
  BY <1>3, MembersOfSeq
<1>5. n - 1 + 1 = n /\ (~(1 <= n) => n = 0) /\ \A i \in 1 .. n : 1 + i - 1 = i
  BY <1>1
<1>6. Len(SubSeq(s, 1, n)) = n
  BY <1>3, <1>5
<1>7. \A i \in 1 .. n : SubSeq(s, 1, n)[i] = s[i]
  BY <1>3, <1>5
<1> QED
  BY <1>4, <1>6, <1>7

LEMMA SameSequence ==
  ASSUME NEW s, NEW t, IsSequence(s), IsSequence(t), Len(s) = Len(t),
         \A i \in 1 .. Len(s) : s[i] = t[i]
  PROVE  s = t
  BY DEF IsSequence

LEMMA PrefixFacts ==
  ASSUME NEW s, NEW t, IsSequence(s), IsSequence(t)
  PROVE  IsPrefix(s, t) <=> Len(s) <= Len(t) /\ \A i \in 1 .. Len(s) : s[i] = t[i]
<1>1. Len(s) \in Nat /\ Len(t) \in Nat
  BY DEF IsSequence
<1>2. /\ IsSequence(SubSeq(s, 1, Len(s))) /\ Len(SubSeq(s, 1, Len(s))) = Len(s)
      /\ \A i \in 1 .. Len(s) : SubSeq(s, 1, Len(s))[i] = s[i]
  BY <1>1, SubSeqFacts
<1>3. CASE Len(s) <= Len(t)
  <2>1. /\ IsSequence(SubSeq(t, 1, Len(s))) /\ Len(SubSeq(t, 1, Len(s))) = Len(s)
        /\ \A i \in 1 .. Len(s) : SubSeq(t, 1, Len(s))[i] = t[i]
    BY <1>1, <1>3, SubSeqFacts
  <2>2. SubSeq(s, 1, Len(s)) = SubSeq(t, 1, Len(s)) <=> \A i \in 1 .. Len(s) : s[i] = t[i]
    BY <1>2, <2>1, SameSequence
  <2> QED
    BY <1>3, <2>2 DEF IsPrefix
<1>4. CASE ~(Len(s) <= Len(t))
  BY <1>4 DEF IsPrefix
<1> QED
  BY <1>3, <1>4

-------------------------------------------------------------------------------
(* Digests and commitments name what they digest. *)
LEMMA CommitmentNamesState ==
  ASSUME NEW keys, NEW text, NEW others, NEW other,
         CommitToKeyState(keys, text) = CommitToKeyState(others, other)
  PROVE  keys = others /\ text = other
  BY DEF CommitToKeyState

LEMMA DigestNamesEvent ==
  ASSUME NEW event, NEW other, EventDigest(event) = EventDigest(other)
  PROVE  event = other
  BY DEF EventDigest

LEMMA IdNamesState ==
  ASSUME NEW event, NEW other,
         DeriveParticipantId(EstablishmentData(event)) = DeriveParticipantId(EstablishmentData(other))
  PROVE  event.keys = other.keys /\ event.threshold = other.threshold /\ event.next = other.next
<1>1. EstablishmentData(event) = EstablishmentData(other)
  BY DEF DeriveParticipantId
<1>2. /\ EstablishmentData(event).keys = event.keys
      /\ EstablishmentData(event).threshold = event.threshold
      /\ EstablishmentData(event).next = event.next
  BY DEF EstablishmentData
<1>3. /\ EstablishmentData(other).keys = other.keys
      /\ EstablishmentData(other).threshold = other.threshold
      /\ EstablishmentData(other).next = other.next
  BY DEF EstablishmentData
<1> QED
  BY <1>1, <1>2, <1>3

-------------------------------------------------------------------------------
(* Key states and the signatures under them. *)
Distinct(keys) == \A i, j \in 1 .. Len(keys) : keys[i] = keys[j] => i = j

LEMMA SoundState ==
  ASSUME NEW keys, IsSequence(keys), NEW text
  PROVE  CheckKeyState(keys, text) = "ok" <=>
            Distinct(keys) /\ text \in 1 .. Len(keys) /\ ParseThreshold(text) = text
<1>1. DOMAIN keys = 1 .. Len(keys) /\ Len(keys) \in Nat
  BY SequenceFacts
<1>2. RepeatsKey(keys) <=> ~Distinct(keys)
  BY <1>1 DEF RepeatsKey, Distinct
<1>3. CASE text \in Nat \ {0}
  <2>1. ParseThreshold(text) = text /\ text # NoThreshold
    BY <1>3 DEF ParseThreshold, NoThreshold
  <2> QED
    BY <1>1, <1>2, <1>3, <2>1 DEF CheckKeyState
<1>4. CASE text \notin Nat \ {0}
  <2>1. ParseThreshold(text) = NoThreshold /\ text \notin 1 .. Len(keys)
    BY <1>1, <1>4 DEF ParseThreshold
  <2> QED
    BY <2>1 DEF CheckKeyState
<1> QED
  BY <1>3, <1>4

(* What it means for signatures to be judged good: threshold-many distinct     *)
(* keys of the state, one per signature, in the order of the keys.             *)
MadeUnder(keys, signers) ==
    [i \in DOMAIN signers |-> {j \in DOMAIN keys : keys[j] = signers[i]}]

LEMMA JudgedGood ==
  ASSUME NEW keys, IsSequence(keys), NEW text, NEW signers, IsSequence(signers)
  PROVE  Judgement(keys, text, Len(signers), MadeUnder(keys, signers)) = "ok" <=>
            /\ CheckKeyState(keys, text) = "ok"
            /\ Len(signers) = text
            /\ \E choice \in [1 .. text -> 1 .. Len(keys)] :
                  /\ Increasing(choice)
                  /\ \A i \in 1 .. text : keys[choice[i]] = signers[i]
<1>1. /\ DOMAIN keys = 1 .. Len(keys) /\ Len(keys) \in Nat
      /\ DOMAIN signers = 1 .. Len(signers) /\ Len(signers) \in Nat
  BY SequenceFacts
<1>2. CASE CheckKeyState(keys, text) = "ok" /\ Len(signers) = text
  <2>1. CheckStructure(keys, text, Len(signers)) = "ok"
    BY <1>2, SoundState DEF CheckStructure, CheckMemberCount
  <2>2. \A choice \in [1 .. text -> 1 .. Len(keys)] :
           (\A i \in 1 .. text : choice[i] \in MadeUnder(keys, signers)[i])
           <=> \A i \in 1 .. text : keys[choice[i]] = signers[i]
    BY <1>1, <1>2 DEF MadeUnder
  <2>3. Conforms(Len(signers), Len(keys), MadeUnder(keys, signers)) <=>
           \E choice \in [1 .. text -> 1 .. Len(keys)] :
              /\ Increasing(choice)
              /\ \A i \in 1 .. text : keys[choice[i]] = signers[i]
    BY <1>2, <2>2 DEF Conforms, ConformingAssignment
  <2> QED
    BY <1>2, <2>1, <2>3 DEF Judgement
<1>3. CASE CheckKeyState(keys, text) # "ok"
  BY <1>3 DEF Judgement, CheckStructure
<1>4. CASE CheckKeyState(keys, text) = "ok" /\ Len(signers) # text
  <2>1. CheckStructure(keys, text, Len(signers)) = "signature_count_not_threshold"
    BY <1>4, SoundState DEF CheckStructure, CheckMemberCount
  <2> QED
    BY <1>4, <2>1 DEF Judgement
<1> QED
  BY <1>2, <1>3, <1>4

LEMMA EventSignatures ==
  ASSUME NEW event
  PROVE  SignedBy(event) = MadeUnder(event.keys, event.signers)
  BY DEF SignedBy, MadeUnder

LEMMA RecordSignatures ==
  ASSUME NEW state, NEW signers
  PROVE  MadeBy(state, signers) = MadeUnder(state.keys, signers)
  BY DEF MadeBy, MadeUnder

-------------------------------------------------------------------------------
(* A chain of events that replay, however long.  Every event holds sequences. *)
WholeEvent(event) ==
    /\ IsSequence(event.keys)
    /\ IsSequence(event.signers)

Chain(log) ==
    /\ IsSequence(log)
    /\ Len(log) >= 1
    /\ \A i \in 1 .. Len(log) : WholeEvent(log[i])
    /\ InceptionReplays(log[1])
    /\ \A i \in 2 .. Len(log) : RotationReplays(log[i - 1], log[i], log[1].id)

(* Two chains of one identity that agree up to an event reveal the same state  *)
(* there: at the start by the id, later by the commitment.                     *)
LEMMA SameCommitmentSameState ==
  ASSUME NEW log, NEW other, Chain(log), Chain(other), log[1].id = other[1].id,
         NEW i \in 1 .. Len(log), i <= Len(other),
         \A j \in 1 .. i - 1 : log[j] = other[j]
  PROVE  log[i].keys = other[i].keys /\ log[i].threshold = other[i].threshold
<1>1. Len(log) \in Nat /\ Len(other) \in Nat
  BY DEF Chain, IsSequence
<1>2. CASE i = 1
  <2>1. /\ log[1].id = DeriveParticipantId(EstablishmentData(log[1]))
        /\ other[1].id = DeriveParticipantId(EstablishmentData(other[1]))
    BY DEF Chain, InceptionReplays
  <2> DEFINE first == log[1]
             second == other[1]
  <2>2. DeriveParticipantId(EstablishmentData(first)) = DeriveParticipantId(EstablishmentData(second))
    BY <2>1
  <2> HIDE DEF first, second
  <2>3. first.keys = second.keys /\ first.threshold = second.threshold
    BY <2>2, IdNamesState
  <2> QED
    BY <1>2, <2>3 DEF first, second
<1>3. CASE i # 1
  <2>1. i \in 2 .. Len(log) /\ i \in 2 .. Len(other) /\ i - 1 \in 1 .. i - 1
    BY <1>1, <1>3
  <2>2. log[i - 1] = other[i - 1]
    BY <2>1
  <2>3. /\ CommitToKeyState(log[i].keys, log[i].threshold) = log[i - 1].next
        /\ CommitToKeyState(other[i].keys, other[i].threshold) = other[i - 1].next
    BY <2>1 DEF Chain, RotationReplays
  <2> QED
    BY <2>2, <2>3, CommitmentNamesState
<1> QED
  BY <1>2, <1>3

LEMMA ChainReplays ==
  ASSUME NEW log, Chain(log), Len(log) <= MaxEvents
  PROVE  Replays(log)
  BY KeyLogAssumption DEF Chain, Replays, IsSequence

(* A chain goes on with any event that replays on its last. *)
LEMMA ChainGoesOn ==
  ASSUME NEW log, Chain(log), NEW event, WholeEvent(event),
         RotationReplays(Last(log), event, log[1].id)
  PROVE  Chain(Append(log, event))
<1>1. Len(log) \in Nat /\ Len(log) >= 1 /\ IsSequence(log)
  BY DEF Chain, IsSequence
<1> DEFINE longer == Append(log, event)
<1>2. /\ IsSequence(longer)
      /\ Len(longer) = Len(log) + 1
      /\ \A i \in 1 .. Len(log) : longer[i] = log[i]
      /\ longer[Len(log) + 1] = event
  BY <1>1, AppendFacts
<1> HIDE DEF longer
<1>3. \A i \in 1 .. Len(longer) : WholeEvent(longer[i])
  <2> SUFFICES ASSUME NEW i \in 1 .. Len(longer) PROVE WholeEvent(longer[i])
    OBVIOUS
  <2>1. CASE i = Len(log) + 1
    BY <1>2, <2>1
  <2>2. CASE i \in 1 .. Len(log)
    BY <1>2, <2>2 DEF Chain
  <2> QED
    BY <1>1, <1>2, <2>1, <2>2
<1>4. longer[1] = log[1]
  BY <1>1, <1>2
<1>5. ASSUME NEW i \in 2 .. Len(longer)
      PROVE  RotationReplays(longer[i - 1], longer[i], longer[1].id)
  <2>1. i - 1 \in 1 .. Len(log)
    BY <1>1, <1>2
  <2>2. longer[i - 1] = log[i - 1]
    BY <1>2, <2>1
  <2>3. CASE i = Len(log) + 1
    <3>1. log[i - 1] = Last(log)
      BY <1>1, <2>3 DEF Last
    <3>2. longer[i] = event
      BY <1>2, <2>3
    <3> QED
      BY <1>4, <2>2, <3>1, <3>2
  <2>4. CASE i \in 2 .. Len(log)
    <3>1. RotationReplays(log[i - 1], log[i], log[1].id)
      BY <2>4 DEF Chain
    <3>2. longer[i] = log[i]
      BY <1>2, <2>4
    <3> QED
      BY <1>4, <2>2, <3>1, <3>2
  <2> QED
    BY <1>1, <1>2, <2>3, <2>4
<1>6. Len(longer) >= 1 /\ InceptionReplays(longer[1])
  BY <1>1, <1>2, <1>4 DEF Chain
<1>7. Chain(longer)
  BY <1>2, <1>3, <1>5, <1>6 DEF Chain
<1> QED
  BY <1>7 DEF longer

-------------------------------------------------------------------------------
(* What a holder keeps, in memory or in its file: a chain that starts with the *)
(* inception, the keys of its last event or none, and either the staged keys   *)
(* that event committed, or none and no threshold.                             *)
Staged(log, keys, text) ==
    /\ IsSequence(keys)
    /\ keys # << >>
    /\ Committable(keys, text)
    /\ Last(log).next = CommitToKeyState(keys, text)

SoundHolder(h) ==
    /\ h = [id |-> h.id, log |-> h.log, currentKeys |-> h.currentKeys,
            nextKeys |-> h.nextKeys, nextThreshold |-> h.nextThreshold]
    /\ h.id = InceptionEvent.id
    /\ Chain(h.log)
    /\ h.log[1] = InceptionEvent
    /\ h.currentKeys \in {<< >>, Last(h.log).keys}
    /\ \/ h.nextKeys = << >> /\ h.nextThreshold = NoThreshold
       \/ Staged(h.log, h.nextKeys, h.nextThreshold)

(* Keys of the first n pairs that holders generated. *)
Among(keys, n) == \A i \in 1 .. Len(keys) : keys[i] \in 1 .. n

OwnKeys(h, n) ==
    /\ \A i \in 1 .. Len(h.log) : Among(h.log[i].keys, n)
    /\ Among(h.nextKeys, n)

HeirIsCommitted ==
    \/ heir = NoHeir
    \/ /\ heir # NoHeir
       /\ identity.nextKeys = << >>
       /\ Staged(identity.log, heir.keys, heir.threshold)
       /\ Among(heir.keys, minted)

HolderInvariant ==
    /\ minted \in 0 .. MaxMinted
    /\ SoundHolder(identity)
    /\ OwnKeys(identity, minted)
    /\ HeirIsCommitted

(* Freshly generated keys may be committed at any threshold they can meet.     *)
LEMMA FreshKeysFacts ==
  ASSUME NEW from \in Nat, NEW count \in Nat
  PROVE  /\ IsSequence(FreshKeys(from, count))
         /\ Len(FreshKeys(from, count)) = count
         /\ Distinct(FreshKeys(from, count))
         /\ Among(FreshKeys(from, count), from + count)
<1> DEFINE keys == FreshKeys(from, count)
<1>1. keys \in [1 .. count -> Nat] /\ \A i \in 1 .. count : keys[i] = from + i
  BY DEF FreshKeys
<1> HIDE DEF keys
<1>2. keys \in Seq(Nat)
  BY <1>1, SeqDef
<1>3. Len(keys) = count
  BY <1>1, <1>2, LenProperties
<1>4. IsSequence(keys)
  BY <1>2, MembersOfSeq
<1>5. Distinct(keys) /\ Among(keys, from + count)
  BY <1>1, <1>3 DEF Distinct, Among
<1> QED
  BY <1>3, <1>4, <1>5 DEF keys

LEMMA InceptionIsAChain ==
  /\ Chain(<<InceptionEvent>>)
  /\ Staged(<<InceptionEvent>>, <<2>>, 1)
<1> DEFINE e == InceptionEvent
           log == <<e>>
<1>1. /\ e.keys = <<1>> /\ e.threshold = 1 /\ e.signers = <<1>> /\ e.seq = 0
      /\ e.kind = "icp" /\ e.prior = NoPrior
      /\ e.next = CommitToKeyState(<<2>>, 1)
      /\ e.id = DeriveParticipantId(EstablishmentData(e))
  BY DEF InceptionEvent, Inception, EstablishmentData
<1>2. \A k \in Nat : IsSequence(<<k>>) /\ Len(<<k>>) = 1 /\ <<k>>[1] = k /\ Distinct(<<k>>)
  BY DEF IsSequence, Distinct
<1> HIDE DEF e
<1>3. IsSequence(log) /\ Len(log) = 1 /\ log[1] = e /\ Last(log) = e
  BY DEF IsSequence, Last
<1>4. ASSUME NEW k \in Nat
      PROVE  CheckKeyState(<<k>>, 1) = "ok" /\ Committable(<<k>>, 1)
  <2> DEFINE keys == <<k>>
  <2>1. IsSequence(keys) /\ Len(keys) = 1 /\ Distinct(keys)
    BY <1>2
  <2> HIDE DEF keys
  <2>2. 1 \in 1 .. Len(keys) /\ ParseThreshold(1) = 1
    BY <2>1 DEF ParseThreshold
  <2>3. CheckKeyState(keys, 1) = "ok"
    BY <2>1, <2>2, SoundState
  <2>4. Committable(keys, 1)
    BY <2>1, <2>3, KeyLogAssumption DEF Committable
  <2> QED
    BY <2>3, <2>4 DEF keys
<1>5. SignaturesVerify(e)
  <2> DEFINE keys == <<1>>
             choice == [i \in 1 .. 1 |-> 1]
  <2>1. IsSequence(keys) /\ Len(keys) = 1 /\ CheckKeyState(keys, 1) = "ok" /\ keys[1] = 1
    BY <1>2, <1>4
  <2>2. choice \in [1 .. 1 -> 1 .. Len(keys)] /\ Increasing(choice)
        /\ \A i \in 1 .. 1 : keys[choice[i]] = keys[i]
    BY <2>1 DEF Increasing
  <2> HIDE DEF keys, choice
  <2>3. Judgement(keys, 1, Len(keys), MadeUnder(keys, keys)) = "ok"
    <3>1. \E c \in [1 .. 1 -> 1 .. Len(keys)] :
             Increasing(c) /\ \A i \in 1 .. 1 : keys[c[i]] = keys[i]
      BY <2>2
    <3> QED
      BY <2>1, <3>1, JudgedGood
  <2>4. e.keys = keys /\ e.signers = keys /\ e.threshold = 1
    BY <1>1 DEF keys
  <2>5. SignedBy(e) = MadeUnder(keys, keys)
    BY <2>4, EventSignatures
  <2>6. Judgement(e.keys, e.threshold, Len(e.signers), SignedBy(e)) = "ok"
    BY <2>3, <2>4, <2>5
  <2>7. Len(e.signers) <= Len(e.keys)
    BY <2>1, <2>4
  <2> QED
    BY <2>6, <2>7 DEF SignaturesVerify
<1>6. InceptionReplays(e)
  BY <1>1, <1>2, <1>5, KeyLogAssumption DEF InceptionReplays
<1>7. WholeEvent(e)
  BY <1>1, <1>2 DEF WholeEvent
<1>8. Chain(log)
  BY <1>3, <1>6, <1>7 DEF Chain
<1>9. Staged(log, <<2>>, 1)
  BY <1>1, <1>2, <1>3, <1>4 DEF Staged
<1> QED
  BY <1>8, <1>9 DEF e

(* The event rotateIdentity mints replays on the log it is minted for: it      *)
(* reveals the staged keys, signed by the first threshold-many of them.        *)
LEMMA MintedEventReplays ==
  ASSUME HolderInvariant, CanRotate, NEW next
  PROVE  /\ WholeEvent(RotationEvent(next))
         /\ RotationReplays(Last(identity.log), RotationEvent(next), identity.log[1].id)
         /\ RotationEvent(next).keys = identity.nextKeys
         /\ RotationEvent(next).next = next
         /\ Chain(Append(identity.log, RotationEvent(next)))
<1> DEFINE event == RotationEvent(next)
           keys == identity.nextKeys
           text == identity.nextThreshold
           signers == SubSeq(keys, 1, ParseThreshold(text))
<1>1. /\ event.id = identity.id /\ event.seq = Last(identity.log).seq + 1
      /\ event.prior = EventDigest(Last(identity.log)) /\ event.kind = "rot"
      /\ event.keys = keys /\ event.threshold = text /\ event.next = next
      /\ event.signers = signers
  BY DEF RotationEvent
<1>2. /\ SoundHolder(identity) /\ Staged(identity.log, keys, text)
      /\ Chain(identity.log) /\ identity.id = identity.log[1].id
  BY DEF HolderInvariant, SoundHolder, CanRotate
<1> HIDE DEF event
<1>3. /\ IsSequence(keys) /\ Committable(keys, text) /\ CheckKeyState(keys, text) = "ok"
      /\ Last(identity.log).next = CommitToKeyState(keys, text)
  BY <1>2 DEF Staged, Committable
<1>4. text \in 1 .. Len(keys) /\ ParseThreshold(text) = text /\ Len(keys) \in Nat
  BY <1>3, SoundState DEF IsSequence
<1>5. /\ IsSequence(signers) /\ Len(signers) = text
      /\ \A i \in 1 .. text : signers[i] = keys[i]
  BY <1>3, <1>4, SubSeqFacts
<1> HIDE DEF keys, text, signers
<1>6. SignaturesVerify(event)
  <2> DEFINE choice == [i \in 1 .. text |-> i]
  <2>1. /\ choice \in [1 .. text -> 1 .. Len(keys)]
        /\ Increasing(choice)
        /\ \A i \in 1 .. text : keys[choice[i]] = signers[i]
    BY <1>4, <1>5 DEF Increasing
  <2> HIDE DEF choice
  <2>2. Judgement(keys, text, Len(signers), MadeUnder(keys, signers)) = "ok"
    BY <1>3, <1>5, <2>1, JudgedGood
  <2> QED
    BY <1>1, <1>4, <1>5, <2>2, EventSignatures DEF SignaturesVerify
<1>7. WholeEvent(event)
  BY <1>1, <1>3, <1>5 DEF WholeEvent
<1>8. RotationReplays(Last(identity.log), event, identity.log[1].id)
  BY <1>1, <1>2, <1>3, <1>6 DEF RotationReplays
<1>9. Chain(Append(identity.log, event))
  BY <1>2, <1>7, <1>8, ChainGoesOn
<1> QED
  BY <1>1, <1>7, <1>8, <1>9 DEF event, keys

(* The log of an identity only ever gets longer in the hands of its holder.    *)
Continues(log, longer) ==
    /\ Len(log) <= Len(longer)
    /\ \A i \in 1 .. Len(log) : longer[i] = log[i]

(* What Rotate and HandOver have in common: the staged keys are revealed and   *)
(* keys just generated are committed.                                          *)
LEMMA RevealingKeepsChain ==
  ASSUME HolderInvariant, CanRotate, NEW count \in Nat, NEW text,
         minted + count <= MaxMinted, Committable(FreshKeys(minted, count), text),
         NEW log, log = Append(identity.log,
                               RotationEvent(CommitToKeyState(FreshKeys(minted, count), text)))
  PROVE  /\ Chain(log)
         /\ log[1] = InceptionEvent
         /\ Last(log).keys = identity.nextKeys
         /\ Staged(log, FreshKeys(minted, count), text)
         /\ \A i \in 1 .. Len(log) : Among(log[i].keys, minted + count)
         /\ Among(FreshKeys(minted, count), minted + count)
         /\ minted + count \in 0 .. MaxMinted
         /\ Continues(identity.log, log)
<1> DEFINE fresh == FreshKeys(minted, count)
           event == RotationEvent(CommitToKeyState(fresh, text))
<1>1. minted \in 0 .. MaxMinted /\ MaxMinted \in Nat
  BY KeyLogAssumption DEF HolderInvariant
<1>2. /\ IsSequence(fresh) /\ Len(fresh) = count /\ Distinct(fresh)
      /\ Among(fresh, minted + count)
  BY <1>1, FreshKeysFacts
<1>3. /\ event.keys = identity.nextKeys /\ event.next = CommitToKeyState(fresh, text)
      /\ Chain(Append(identity.log, event))
  BY MintedEventReplays
<1>4. log = Append(identity.log, event)
  OBVIOUS
<1>5. Committable(fresh, text)
  OBVIOUS
<1> HIDE DEF event, fresh
<1>6. /\ IsSequence(identity.log) /\ Len(identity.log) \in Nat /\ Len(identity.log) >= 1
      /\ identity.log[1] = InceptionEvent
  BY DEF HolderInvariant, SoundHolder, Chain, IsSequence
<1>7. /\ Len(log) = Len(identity.log) + 1
      /\ \A i \in 1 .. Len(identity.log) : log[i] = identity.log[i]
      /\ log[Len(identity.log) + 1] = event
  BY <1>4, <1>6, AppendFacts
<1>8. Last(log) = event
  BY <1>7 DEF Last
<1>9. fresh # << >>
  <2>1. 1 <= Len(fresh)
    BY <1>2, <1>5, SoundState DEF Committable
  <2> QED
    BY <2>1
<1>10. Staged(log, fresh, text)
  BY <1>2, <1>3, <1>5, <1>8, <1>9 DEF Staged
<1>11. ASSUME NEW i \in 1 .. Len(log) PROVE Among(log[i].keys, minted + count)
  <2>1. CASE i = Len(identity.log) + 1
    BY <1>1, <1>3, <1>7, <2>1 DEF HolderInvariant, OwnKeys, Among
  <2>2. CASE i \in 1 .. Len(identity.log)
    BY <1>1, <1>7, <2>2 DEF HolderInvariant, OwnKeys, Among
  <2> QED
    BY <1>6, <1>7, <2>1, <2>2
<1>12. Continues(identity.log, log)
  BY <1>6, <1>7 DEF Continues
<1>13. log[1] = InceptionEvent
  BY <1>6, <1>7
<1>14. minted + count \in 0 .. MaxMinted
  BY <1>1
<1> QED
  BY <1>2, <1>3, <1>4, <1>8, <1>10, <1>11, <1>12, <1>13, <1>14 DEF fresh

LEMMA HolderStepKeepsInvariant ==
  ASSUME HolderInvariant, NEW shapes, shapes \subseteq Nat \X Int, HolderStep(shapes)
  PROVE  /\ HolderInvariant'
         /\ Continues(identity.log, identity'.log)
         /\ heir' = NoHeir => identity'.nextKeys # << >>
<1>1. /\ SoundHolder(identity) /\ OwnKeys(identity, minted) /\ HeirIsCommitted
      /\ minted \in 0 .. MaxMinted
  BY DEF HolderInvariant
<1>2. ASSUME NEW shape \in shapes, Rotate(shape[1], shape[2])
      PROVE  HolderInvariant' /\ Continues(identity.log, identity'.log) /\ identity'.nextKeys # << >>
  <2> DEFINE fresh == FreshKeys(minted, shape[1])
  <2>1. shape[1] \in Nat /\ shape[1] \in 1 .. MaxKeys /\ MaxKeys \in Nat
    BY <1>2, KeyLogAssumption DEF Rotate
  <2>2. /\ CanRotate /\ ParseThreshold(shape[2]) \in 1 .. shape[1]
        /\ minted + shape[1] <= MaxMinted /\ minted' = minted + shape[1] /\ heir' = heir
        /\ identity' = [id |-> identity.id,
                        log |-> Append(identity.log, RotationEvent(CommitToKeyState(fresh, shape[2]))),
                        currentKeys |-> identity.nextKeys,
                        nextKeys |-> fresh,
                        nextThreshold |-> shape[2]]
    BY <1>2 DEF Rotate
  <2>3. Committable(fresh, shape[2])
    <3> DEFINE count == shape[1]
    <3>0. minted \in Nat /\ count \in Nat
      BY <1>1, <2>1, KeyLogAssumption
    <3> HIDE DEF count
    <3>1. IsSequence(fresh) /\ Len(fresh) = shape[1] /\ Distinct(fresh)
      BY <3>0, FreshKeysFacts DEF count
    <3>2. ParseThreshold(shape[2]) = shape[2]
      BY <2>1, <2>2 DEF ParseThreshold, NoThreshold
    <3>3. CheckKeyState(fresh, shape[2]) = "ok"
      BY <2>2, <3>1, <3>2, SoundState
    <3> QED
      BY <2>1, <3>1, <3>3 DEF Committable
  <2>4. /\ Chain(identity'.log)
        /\ identity'.log[1] = InceptionEvent
        /\ Last(identity'.log).keys = identity.nextKeys
        /\ Staged(identity'.log, fresh, shape[2])
        /\ \A i \in 1 .. Len(identity'.log) : Among(identity'.log[i].keys, minted')
        /\ Among(fresh, minted')
        /\ minted' \in 0 .. MaxMinted
        /\ Continues(identity.log, identity'.log)
    <3>1. identity'.log = Append(identity.log, RotationEvent(CommitToKeyState(fresh, shape[2])))
      BY <2>2
    <3> QED
      BY <2>1, <2>2, <2>3, <3>1, RevealingKeepsChain
  <2> HIDE DEF fresh
  <2>5. SoundHolder(identity')
    BY <1>1, <2>2, <2>4 DEF SoundHolder
  <2>6. OwnKeys(identity', minted')
    BY <2>2, <2>4 DEF OwnKeys
  <2>7. heir = NoHeir
    BY <1>1, <2>2 DEF HeirIsCommitted, CanRotate
  <2>8. fresh # << >>
    BY <2>4 DEF Staged
  <2> QED
    BY <2>2, <2>4, <2>5, <2>6, <2>7, <2>8 DEF HolderInvariant, HeirIsCommitted
<1>3. ASSUME NEW shape \in shapes, HandOver(shape[1], shape[2])
      PROVE  HolderInvariant' /\ Continues(identity.log, identity'.log) /\ heir' # NoHeir
  <2> DEFINE fresh == FreshKeys(minted, shape[1])
  <2>1. shape[1] \in Nat
    OBVIOUS
  <2>2. /\ CanRotate /\ Committable(fresh, shape[2])
        /\ minted + shape[1] <= MaxMinted /\ minted' = minted + shape[1]
        /\ heir' = [keys |-> fresh, threshold |-> shape[2]]
        /\ identity' = [id |-> identity.id,
                        log |-> Append(identity.log, RotationEvent(CommitToKeyState(fresh, shape[2]))),
                        currentKeys |-> identity.nextKeys,
                        nextKeys |-> << >>,
                        nextThreshold |-> NoThreshold]
    BY <1>3 DEF HandOver
  <2>3. /\ Chain(identity'.log)
        /\ identity'.log[1] = InceptionEvent
        /\ Last(identity'.log).keys = identity.nextKeys
        /\ Staged(identity'.log, fresh, shape[2])
        /\ \A i \in 1 .. Len(identity'.log) : Among(identity'.log[i].keys, minted')
        /\ Among(fresh, minted')
        /\ minted' \in 0 .. MaxMinted
        /\ Continues(identity.log, identity'.log)
    <3>1. identity'.log = Append(identity.log, RotationEvent(CommitToKeyState(fresh, shape[2])))
      BY <2>2
    <3> QED
      BY <2>1, <2>2, <3>1, RevealingKeepsChain
  <2> HIDE DEF fresh
  <2>4. SoundHolder(identity')
    BY <1>1, <2>2, <2>3 DEF SoundHolder
  <2>5. OwnKeys(identity', minted')
    BY <2>2, <2>3 DEF OwnKeys, Among
  <2>6. heir'.keys # << >> /\ heir' # NoHeir
    BY <2>2, <2>3 DEF Staged, NoHeir
  <2>7. HeirIsCommitted'
    BY <2>2, <2>3, <2>6 DEF HeirIsCommitted
  <2> QED
    BY <2>3, <2>4, <2>5, <2>6, <2>7 DEF HolderInvariant
<1>4. ASSUME TakeOver
      PROVE  HolderInvariant' /\ Continues(identity.log, identity'.log) /\ identity'.nextKeys # << >>
  <2>1. /\ identity' = [id |-> identity.id, log |-> identity.log, currentKeys |-> << >>,
                        nextKeys |-> heir.keys, nextThreshold |-> heir.threshold]
        /\ heir' = NoHeir /\ minted' = minted
    BY <1>1, <1>4 DEF TakeOver, SoundHolder
  <2>2. Staged(identity.log, heir.keys, heir.threshold) /\ Among(heir.keys, minted)
    BY <1>1, <1>4 DEF TakeOver, HeirIsCommitted
  <2>3. SoundHolder(identity')
    BY <1>1, <2>1, <2>2 DEF SoundHolder
  <2>4. OwnKeys(identity', minted')
    BY <1>1, <2>1, <2>2 DEF OwnKeys
  <2>5. Len(identity.log) \in Nat
    BY <1>1 DEF SoundHolder, Chain, IsSequence
  <2> QED
    BY <1>1, <2>1, <2>2, <2>3, <2>4, <2>5
       DEF HolderInvariant, HeirIsCommitted, Continues, Staged
<1> QED
  BY <1>2, <1>3, <1>4 DEF HolderStep

LEMMA CreatedIdentity ==
  ASSUME CreateIdentity
  PROVE  HolderInvariant /\ heir = NoHeir /\ identity.nextKeys # << >> /\ identity.log = <<InceptionEvent>>
<1>1. /\ identity = [id |-> InceptionEvent.id, log |-> <<InceptionEvent>>,
                     currentKeys |-> <<1>>, nextKeys |-> <<2>>, nextThreshold |-> 1]
      /\ heir = NoHeir /\ minted = 2
  BY DEF CreateIdentity
<1> DEFINE log == <<InceptionEvent>>
<1>2. Len(log) = 1 /\ log[1] = InceptionEvent /\ Last(log) = InceptionEvent
  BY DEF Last
<1>3. InceptionEvent.keys = <<1>>
  BY DEF InceptionEvent, Inception
<1>4. Chain(log) /\ Staged(log, <<2>>, 1)
  BY InceptionIsAChain
<1> HIDE DEF log
<1>5. SoundHolder(identity)
  BY <1>1, <1>2, <1>3, <1>4 DEF SoundHolder, log
<1>6. OwnKeys(identity, minted)
  <2>1. Among(<<1>>, 2) /\ Among(<<2>>, 2)
    BY DEF Among
  <2> QED
    BY <1>1, <1>2, <1>3, <2>1 DEF OwnKeys, log
<1>7. minted \in 0 .. MaxMinted
  BY <1>1, KeyLogAssumption
<1> QED
  BY <1>1, <1>5, <1>6, <1>7 DEF HolderInvariant, HeirIsCommitted

-------------------------------------------------------------------------------
(* The state an anchor names is the one state of the event with that digest.   *)
LEMMA AnchorNamesOneState ==
  ASSUME NEW log, IsSequence(log), NEW i \in 1 .. Len(log)
  PROVE  AnchoredStates(log, EventDigest(log[i])) = {KeyStateOf(log[i])}
<1>1. DOMAIN log = 1 .. Len(log)
  BY SequenceFacts
<1>2. \A j \in DOMAIN log : EventDigest(log[j]) = EventDigest(log[i]) => log[j] = log[i]
  BY DigestNamesEvent
<1> QED
  BY <1>1, <1>2 DEF AnchoredStates

LEMMA UnknownAnchor ==
  ASSUME NEW log, IsSequence(log), NEW anchor
  PROVE  AnchoredStates(log, anchor) = {} <=> \A i \in 1 .. Len(log) : EventDigest(log[i]) # anchor
<1>1. DOMAIN log = 1 .. Len(log)
  BY SequenceFacts
<1> QED
  BY <1>1 DEF AnchoredStates

(* A log that is continued goes on naming the states it named.                 *)
LEMMA ContinuationKeepsStates ==
  ASSUME NEW log, NEW longer, IsSequence(log), IsSequence(longer), Continues(log, longer),
         NEW anchor, AnchoredStates(log, anchor) # {}
  PROVE  AnchoredStates(longer, anchor) = AnchoredStates(log, anchor)
<1>1. PICK i \in 1 .. Len(log) : EventDigest(log[i]) = anchor
  BY UnknownAnchor
<1>2. i \in 1 .. Len(longer) /\ longer[i] = log[i]
  BY DEF Continues, IsSequence
<1>3. AnchoredStates(log, anchor) = {KeyStateOf(log[i])}
  BY <1>1, AnchorNamesOneState
<1>4. AnchoredStates(longer, anchor) = {KeyStateOf(log[i])}
  <2>1. AnchoredStates(longer, EventDigest(longer[i])) = {KeyStateOf(longer[i])}
    BY <1>2, AnchorNamesOneState
  <2> QED
    BY <1>1, <1>2, <2>1
<1> QED
  BY <1>3, <1>4

-------------------------------------------------------------------------------
(* Every record the holder issued carries the anchor of an event of its log,   *)
(* and the signatures of all the keys of that event, or none.                  *)
IssuedUnder(record, event) ==
    /\ record = [anchor |-> record.anchor, signers |-> record.signers]
    /\ record.anchor = EventDigest(event)
    /\ record.signers \in {<< >>, event.keys}

IssuedInvariant ==
    /\ HolderInvariant
    /\ \A record \in issued : \E i \in 1 .. Len(identity.log) : IssuedUnder(record, identity.log[i])

LEMMA IssuingKeepsInvariant ==
  ASSUME IssuedInvariant, [IssuingNext]_issuingVars
  PROVE  IssuedInvariant' /\ Continues(identity.log, identity'.log) /\ identity'.id = identity.id
<1>1. /\ HolderInvariant /\ IsSequence(identity.log) /\ Len(identity.log) \in 1 .. Len(identity.log)
      /\ Len(identity.log) \in Nat
      /\ identity.id = InceptionEvent.id
  BY DEF IssuedInvariant, HolderInvariant, SoundHolder, Chain, IsSequence
<1>2. CASE HolderStep(Shapes) /\ UNCHANGED issued
  <2>1. HolderInvariant' /\ Continues(identity.log, identity'.log)
    BY <1>1, <1>2, HolderStepKeepsInvariant, KeyLogAssumption
  <2>2. identity'.id = identity.id /\ Len(identity'.log) \in Nat
    BY <1>1, <2>1 DEF HolderInvariant, SoundHolder, Chain, IsSequence
  <2>3. ASSUME NEW record \in issued
        PROVE  \E i \in 1 .. Len(identity'.log) : IssuedUnder(record, identity'.log[i])
    <3>1. PICK i \in 1 .. Len(identity.log) : IssuedUnder(record, identity.log[i])
      BY DEF IssuedInvariant
    <3>2. i \in 1 .. Len(identity'.log) /\ identity'.log[i] = identity.log[i]
      BY <1>1, <2>1, <2>2 DEF Continues
    <3> QED
      BY <3>1, <3>2
  <2> QED
    BY <1>2, <2>1, <2>2, <2>3 DEF IssuedInvariant
<1>3. CASE UNCHANGED holderVars
  <2>1. identity' = identity /\ heir' = heir /\ minted' = minted
    BY <1>3 DEF holderVars
  <2>2. HolderInvariant'
    BY <1>1, <2>1 DEF HolderInvariant, HeirIsCommitted
  <2>3. Continues(identity.log, identity.log)
    BY <1>1 DEF Continues
  <2>4. issued' \in {issued, issued \cup {[anchor |-> KeyLogAnchor(identity.log),
                                          signers |-> identity.currentKeys]}}
    <3>1. CASE IssuingNext
      BY <3>1, <2>1, <1>3, <1>2 DEF IssuingNext, IssueRevocation, IssueGrant
    <3>2. CASE UNCHANGED issuingVars
      BY <3>2 DEF issuingVars
    <3> QED
      BY <3>1, <3>2
  <2>5. IssuedUnder([anchor |-> KeyLogAnchor(identity.log), signers |-> identity.currentKeys],
                    identity.log[Len(identity.log)])
    BY <1>1 DEF IssuedUnder, KeyLogAnchor, Last, HolderInvariant, SoundHolder
  <2>6. \A record \in issued' : \E i \in 1 .. Len(identity.log) : IssuedUnder(record, identity.log[i])
    BY <1>1, <2>4, <2>5 DEF IssuedInvariant
  <2> QED
    BY <2>1, <2>2, <2>3, <2>6 DEF IssuedInvariant
<1>4. (HolderStep(Shapes) /\ UNCHANGED issued) \/ UNCHANGED holderVars
  BY DEF IssuingNext, IssueRevocation, IssueGrant, issuingVars
<1> QED
  BY <1>2, <1>3, <1>4

LEMMA InitEstablishesIssued == IssuingInit => IssuedInvariant
  BY CreatedIdentity DEF IssuingInit, IssuedInvariant

(* A verdict on a record that was issued outlives every change of the log.     *)
LEMMA VerdictOutlivesRotation ==
  ASSUME IssuedInvariant, IssuedInvariant', Continues(identity.log, identity'.log),
         identity'.id = identity.id, WithinBound(identity'.log), NEW record \in issued
  PROVE  CheckAnchored(record, identity'.log) = CheckAnchored(record, identity.log)
<1>1. /\ Chain(identity.log) /\ Chain(identity'.log)
      /\ identity.log[1].id = identity.id /\ identity'.log[1].id = identity.id
  BY DEF IssuedInvariant, HolderInvariant, SoundHolder
<1>2. Len(identity.log) <= MaxEvents /\ Len(identity'.log) <= MaxEvents
  BY <1>1, KeyLogAssumption DEF WithinBound, Continues, Chain, IsSequence
<1>3. ReplaysFor(identity.id, identity.log) /\ ReplaysFor(identity.id, identity'.log)
  BY <1>1, <1>2, ChainReplays DEF ReplaysFor
<1>4. PICK i \in 1 .. Len(identity.log) : IssuedUnder(record, identity.log[i])
  BY DEF IssuedInvariant
<1>5. AnchoredStates(identity.log, record.anchor) # {}
  BY <1>1, <1>4, UnknownAnchor DEF IssuedUnder, Chain
<1>6. AnchoredStates(identity'.log, record.anchor) = AnchoredStates(identity.log, record.anchor)
  BY <1>1, <1>5, ContinuationKeepsStates DEF Chain
<1> QED
  BY <1>3, <1>6 DEF CheckAnchored

(* No rotation, handover or takeover orphans a record that was issued before   *)
(* it, and none rescues one (records.ts: "Anchoring does NOT orphan a record   *)
(* when its issuer rotates").                                                  *)
THEOREM VerdictsOnRecordsAreFinal == IssuingSpec => VerdictsAreFinal
<1>1. IssuedInvariant /\ [IssuingNext]_issuingVars => IssuedInvariant'
  BY IssuingKeepsInvariant
<1>2. IssuedInvariant /\ [IssuingNext]_issuingVars
      => [WithinBound(identity'.log) => \A record \in issued :
             CheckAnchored(record, identity'.log) = CheckAnchored(record, identity.log)]_issuingVars
  BY IssuingKeepsInvariant, VerdictOutlivesRotation
<1> QED
  BY <1>1, <1>2, InitEstablishesIssued, PTL DEF IssuingSpec, VerdictsAreFinal

-------------------------------------------------------------------------------
(* What a unit can look like when it is received: a record of the principal's  *)
(* or the edits the model makes of it, and the same of one under a grant.      *)
OwnerForm(u, record) ==
    /\ u = [kind |-> "update", anchor |-> u.anchor, signers |-> u.signers, chain |-> NoChain]
    /\ \/ u.anchor = record.anchor /\ u.signers \in {record.signers, record.signers \o <<Outside>>}
       \/ u.anchor = NoAnchor /\ u.signers = record.signers
       \/ u.anchor = EventDigest(OtherInception) /\ u.signers = <<Outside>>

LinkForm(link, record) ==
    /\ link.abilities \in {{"msg/conversation-update", "msg/conversation"}, {"conversation/self-remove"}}
    /\ \/ link.subject = OtherInception.id
       \/ /\ link.subject = identity.id
          /\ link.anchor = record.anchor
          /\ link.signers = record.signers

DelegatedForm(u, record) ==
    \E link :
        /\ u = [kind |-> u.kind, anchor |-> u.anchor, signers |-> u.signers, chain |-> <<link>>]
        /\ u.kind \in {"update", "conversation", "departure"}
        /\ LinkForm(link, record)

ReceivedForm(u) ==
    \E record \in issued : OwnerForm(u, record) \/ DelegatedForm(u, record)

LEMMA OwnerUnitsHaveForm ==
  ASSUME NEW record, NEW u \in OwnerVariants(OwnerUnit(record))
  PROVE  OwnerForm(u, record)
<1> DEFINE base == OwnerUnit(record)
<1>1. base = [kind |-> "update", anchor |-> record.anchor, signers |-> record.signers, chain |-> NoChain]
  BY DEF OwnerUnit
<1> HIDE DEF base
<1>2. u \in {base, [base EXCEPT !.signers = @ \o <<Outside>>], [base EXCEPT !.anchor = NoAnchor],
             [base EXCEPT !.anchor = EventDigest(OtherInception), !.signers = <<Outside>>]}
  BY DEF OwnerVariants, base
<1>3. u \in {base,
             [kind |-> "update", anchor |-> record.anchor, signers |-> record.signers \o <<Outside>>,
              chain |-> NoChain],
             [kind |-> "update", anchor |-> NoAnchor, signers |-> record.signers, chain |-> NoChain],
             [kind |-> "update", anchor |-> EventDigest(OtherInception), signers |-> <<Outside>>,
              chain |-> NoChain]}
  BY <1>1, <1>2
<1>4. ASSUME NEW anchor, NEW signers,
             u = [kind |-> "update", anchor |-> anchor, signers |-> signers, chain |-> NoChain],
             \/ anchor = record.anchor /\ signers \in {record.signers, record.signers \o <<Outside>>}
             \/ anchor = NoAnchor /\ signers = record.signers
             \/ anchor = EventDigest(OtherInception) /\ signers = <<Outside>>
      PROVE  OwnerForm(u, record)
  BY <1>4 DEF OwnerForm
<1> QED
  BY <1>1, <1>3, <1>4

LEMMA DelegatedUnitsHaveForm ==
  ASSUME NEW record, NEW u \in DelegatedVariants(DelegatedUnit(record))
  PROVE  DelegatedForm(u, record)
<1> DEFINE base == DelegatedUnit(record)
           link == Link(record)
           Built(kind, anchor, signers, l) ==
               [kind |-> kind, anchor |-> anchor, signers |-> signers, chain |-> <<l>>]
<1>1. base = Built("update", NoAnchor, <<Session>>, link) /\ base.chain[1] = link
  BY DEF DelegatedUnit
<1>2. ASSUME NEW kind, NEW anchor, NEW signers, NEW l,
             kind \in {"update", "conversation", "departure"}, LinkForm(l, record),
             u = Built(kind, anchor, signers, l)
      PROVE  DelegatedForm(u, record)
  BY <1>2 DEF DelegatedForm
<1>3. /\ link = [anchor |-> link.anchor, signers |-> link.signers, subject |-> link.subject,
                  audience |-> link.audience, abilities |-> link.abilities, inWindow |-> link.inWindow]
      /\ link.anchor = record.anchor /\ link.signers = record.signers /\ link.subject = identity.id
      /\ link.abilities = {"msg/conversation-update", "msg/conversation"}
  BY DEF Link
<1> DEFINE leaving == [link EXCEPT !.abilities = {"conversation/self-remove"}]
           elsewhere == [link EXCEPT !.audience = [participant |-> identity.id]]
           expired == [link EXCEPT !.inWindow = FALSE]
           resigned == Resign(link, OtherInception)
<1> HIDE DEF link
<1>4. /\ LinkForm(link, record) /\ LinkForm(leaving, record) /\ LinkForm(elsewhere, record)
      /\ LinkForm(expired, record) /\ LinkForm(resigned, record)
  BY <1>3 DEF LinkForm, Resign
<1> HIDE DEF leaving, elsewhere, expired, resigned
<1>5. u \in {base, [base EXCEPT !.kind = "conversation"], [base EXCEPT !.kind = "departure"],
             Relink([base EXCEPT !.kind = "departure"], leaving), Relink(base, leaving),
             [base EXCEPT !.signers = <<Session, Session>>], [base EXCEPT !.signers = <<Outside>>],
             [base EXCEPT !.anchor = KeyLogAnchor(identity.log)],
             Relink(base, resigned), Relink(base, elsewhere), Relink(base, expired)}
  BY <1>1 DEF DelegatedVariants, leaving, elsewhere, expired, resigned
<1> HIDE DEF base
<1>6. /\ [base EXCEPT !.kind = "conversation"] = Built("conversation", NoAnchor, <<Session>>, link)
      /\ [base EXCEPT !.kind = "departure"] = Built("departure", NoAnchor, <<Session>>, link)
      /\ [base EXCEPT !.signers = <<Session, Session>>] = Built("update", NoAnchor, <<Session, Session>>, link)
      /\ [base EXCEPT !.signers = <<Outside>>] = Built("update", NoAnchor, <<Outside>>, link)
      /\ [base EXCEPT !.anchor = KeyLogAnchor(identity.log)]
            = Built("update", KeyLogAnchor(identity.log), <<Session>>, link)
  BY <1>1
<1>7. \A l : /\ Relink(base, l) = Built("update", NoAnchor, <<Session>>, l)
             /\ Relink([base EXCEPT !.kind = "departure"], l) = Built("departure", NoAnchor, <<Session>>, l)
  <2> SUFFICES ASSUME NEW l
               PROVE  /\ Relink(base, l) = Built("update", NoAnchor, <<Session>>, l)
                      /\ Relink([base EXCEPT !.kind = "departure"], l)
                            = Built("departure", NoAnchor, <<Session>>, l)
    OBVIOUS
  <2>1. Relink(base, l) = Built("update", NoAnchor, <<Session>>, l)
    BY <1>1 DEF Relink
  <2> DEFINE away == [base EXCEPT !.kind = "departure"]
  <2>2. away = Built("departure", NoAnchor, <<Session>>, link)
    BY <1>6
  <2> HIDE DEF away
  <2>3. Relink(away, l) = Built("departure", NoAnchor, <<Session>>, l)
    BY <2>2 DEF Relink
  <2> QED
    BY <2>1, <2>3 DEF away
<1>8. \E kind \in {"update", "conversation", "departure"},
         l \in {link, leaving, elsewhere, expired, resigned} :
            \E anchor, signers : u = Built(kind, anchor, signers, l)
  <2> HIDE DEF Built
  <2>1. \/ u = Built("update", NoAnchor, <<Session>>, link)
        \/ u = Built("conversation", NoAnchor, <<Session>>, link)
        \/ u = Built("departure", NoAnchor, <<Session>>, link)
        \/ u = Built("update", NoAnchor, <<Session, Session>>, link)
        \/ u = Built("update", NoAnchor, <<Outside>>, link)
        \/ u = Built("update", KeyLogAnchor(identity.log), <<Session>>, link)
        \/ u = Built("departure", NoAnchor, <<Session>>, leaving)
        \/ \E l \in {leaving, resigned, elsewhere, expired} : u = Built("update", NoAnchor, <<Session>>, l)
    BY <1>1, <1>5, <1>6, <1>7
  <2> QED
    BY <2>1
<1> QED
  BY <1>2, <1>4, <1>8

-------------------------------------------------------------------------------
(* The values the parts of verifyUnit take.                                    *)
LEMMA ReplayedValues ==
  ASSUME NEW id, NEW log, NEW a
  PROVE  /\ ReplayedStates(id, log, a) \in {"unresolved", "too_expensive", "mismatched", "ok"}
         /\ ReplayedStates(id, log, a) = "ok" => /\ log \notin {<< >>, Throws}
                                              /\ Replays(log) /\ log[1].id = id
         /\ log \notin {<< >>, Throws} /\ log[1].id = id => ReplayedStates(id, log, a) # "mismatched"
  BY DEF ReplayedStates

LEMMA SignedValues ==
  ASSUME NEW record, NEW log, NEW a
  PROVE  /\ SignedAtAnchor(record, log, a) \in {"anchor_unknown", "too_expensive", "signature_invalid", "ok"}
         /\ SignedAtAnchor(record, log, a) = "ok" => AnchoredStates(log, record.anchor) # {}
  BY DEF SignedAtAnchor

LEMMA SignedUnderState ==
  ASSUME NEW record, NEW log, NEW a, IsSequence(log), NEW i \in 1 .. Len(log),
         record.anchor = EventDigest(log[i])
  PROVE  SignedAtAnchor(record, log, a) =
            IF ReplayCost(log) + MaxKeys > a THEN "too_expensive"
            ELSE IF Judgement(log[i].keys, log[i].threshold, Len(record.signers),
                              MadeUnder(log[i].keys, record.signers)) = "ok"
                 THEN "ok" ELSE "signature_invalid"
<1>1. AnchoredStates(log, record.anchor) = {KeyStateOf(log[i])}
  BY AnchorNamesOneState
<1>2. (CHOOSE s \in AnchoredStates(log, record.anchor) : TRUE) = KeyStateOf(log[i])
  BY <1>1
<1>3. KeyStateOf(log[i]).keys = log[i].keys /\ KeyStateOf(log[i]).threshold = log[i].threshold
  BY DEF KeyStateOf
<1>4. MadeBy(KeyStateOf(log[i]), record.signers) = MadeUnder(log[i].keys, record.signers)
  BY <1>3, RecordSignatures
<1>5. AnchoredStates(log, record.anchor) # {}
  BY <1>1
<1> QED
  BY <1>2, <1>3, <1>4, <1>5 DEF SignedAtAnchor

LEMMA OwnerValues ==
  ASSUME NEW u, NEW log, NEW a
  PROVE  /\ OwnerVerdict(u, log, a) = "valid"
               => ReplayedStates(identity.id, log, a) = "ok" /\ SignedAtAnchor(u, log, a) = "ok"
         /\ ReplayedStates(identity.id, log, a) \in {"unresolved", "too_expensive"}
               => IsUnitWaitReason(OwnerVerdict(u, log, a))
         /\ ReplayedStates(identity.id, log, a) = "ok" /\ SignedAtAnchor(u, log, a) \in {"anchor_unknown", "too_expensive"}
               => IsUnitWaitReason(OwnerVerdict(u, log, a))
         /\ ReplayedStates(identity.id, log, a) = "ok" /\ SignedAtAnchor(u, log, a) = "ok"
               => OwnerVerdict(u, log, a) = "valid"
         /\ ReplayedStates(identity.id, log, a) = "ok" /\ SignedAtAnchor(u, log, a) = "signature_invalid"
               => OwnerVerdict(u, log, a) = "signature_invalid"
<1> DEFINE resolved == ReplayedStates(identity.id, log, a)
           signed == SignedAtAnchor(u, log, a)
           said == OwnerVerdict(u, log, a)
<1>1. said = CASE resolved = "unresolved" -> "key_log_unresolved"
               [] resolved = "too_expensive" -> "key_log_too_expensive"
               [] resolved = "mismatched" -> "key_log_participant_mismatch"
               [] resolved = "ok" /\ signed = "ok" -> "valid"
               [] resolved = "ok" /\ signed = "anchor_unknown" -> "key_log_anchor_unknown"
               [] resolved = "ok" /\ signed = "too_expensive" -> "key_log_too_expensive"
               [] resolved = "ok" /\ signed = "signature_invalid" -> "signature_invalid"
  BY DEF OwnerVerdict
<1>2. resolved \in {"unresolved", "too_expensive", "mismatched", "ok"}
  BY ReplayedValues
<1>3. signed \in {"anchor_unknown", "too_expensive", "signature_invalid", "ok"}
  BY SignedValues
<1> HIDE DEF resolved, signed, said
<1>4. /\ resolved = "unresolved" => said = "key_log_unresolved"
      /\ resolved = "too_expensive" => said = "key_log_too_expensive"
      /\ resolved = "mismatched" => said = "key_log_participant_mismatch"
      /\ resolved = "ok" /\ signed = "ok" => said = "valid"
      /\ resolved = "ok" /\ signed = "anchor_unknown" => said = "key_log_anchor_unknown"
      /\ resolved = "ok" /\ signed = "too_expensive" => said = "key_log_too_expensive"
      /\ resolved = "ok" /\ signed = "signature_invalid" => said = "signature_invalid"
  BY <1>1, <1>2, <1>3
<1>5. said = "valid" => resolved = "ok" /\ signed = "ok"
  BY <1>2, <1>3, <1>4
<1>6. resolved \in {"unresolved", "too_expensive"} => IsUnitWaitReason(said)
  BY <1>4 DEF IsUnitWaitReason
<1>7. resolved = "ok" /\ signed \in {"anchor_unknown", "too_expensive"} => IsUnitWaitReason(said)
  BY <1>4 DEF IsUnitWaitReason
<1>8. resolved = ReplayedStates(identity.id, log, a) /\ signed = SignedAtAnchor(u, log, a)
      /\ said = OwnerVerdict(u, log, a)
  BY DEF resolved, signed, said
<1> QED
  BY <1>4, <1>5, <1>6, <1>7, <1>8

LEMMA ChainValues ==
  ASSUME NEW link, NEW log, NEW a, log # Throws
  PROVE  /\ ~link.inWindow => ChainVerdict(link, log, a) = "grant_expired"
         /\ link.inWindow /\ ReplayedStates(link.subject, log, a) \in {"unresolved", "too_expensive"}
               => IsUnitWaitReason(ChainVerdict(link, log, a))
         /\ link.inWindow /\ ReplayedStates(link.subject, log, a) = "ok" =>
               /\ SignedAtAnchor(link, log, a) = "anchor_unknown"
                     => ChainVerdict(link, log, a) = "grant_issuer_anchor_unknown"
               /\ SignedAtAnchor(link, log, a) = "too_expensive"
                     => IsUnitWaitReason(ChainVerdict(link, log, a))
               /\ SignedAtAnchor(link, log, a) = "signature_invalid"
                     => ChainVerdict(link, log, a) = "grant_signature_invalid"
               /\ SignedAtAnchor(link, log, a) = "ok" /\ role = "member"
                     => ChainVerdict(link, log, a) = "valid"
<1> DEFINE resolved == ReplayedStates(link.subject, log, a)
           signed == SignedAtAnchor(link, log, a)
           said == ChainVerdict(link, log, a)
<1>1. said = CASE ~link.inWindow -> "grant_expired"
               [] link.inWindow /\ log = Throws -> "threw"
               [] link.inWindow /\ log # Throws /\ resolved = "unresolved"
                     -> "grant_issuer_key_log_unresolved"
               [] link.inWindow /\ resolved = "too_expensive" -> "grant_issuer_key_log_too_expensive"
               [] link.inWindow /\ resolved = "mismatched"
                     -> "grant_issuer_key_log_participant_mismatch"
               [] link.inWindow /\ resolved = "ok" /\ signed = "anchor_unknown"
                     -> "grant_issuer_anchor_unknown"
               [] link.inWindow /\ resolved = "ok" /\ signed = "too_expensive"
                     -> "grant_signature_check_too_expensive"
               [] link.inWindow /\ resolved = "ok" /\ signed = "signature_invalid"
                     -> "grant_signature_invalid"
               [] link.inWindow /\ resolved = "ok" /\ signed = "ok"
                     -> IF role = "node" /\ revocation THEN "grant_revoked" ELSE "valid"
  BY DEF ChainVerdict
<1>2. resolved \in {"unresolved", "too_expensive", "mismatched", "ok"}
  BY ReplayedValues
<1>3. signed \in {"anchor_unknown", "too_expensive", "signature_invalid", "ok"}
  BY SignedValues
<1> HIDE DEF resolved, signed, said
<1>4. CASE ~link.inWindow
  <2>1. said = "grant_expired"
    BY <1>1, <1>4
  <2> QED
    BY <1>4, <2>1 DEF said
<1>5. CASE link.inWindow
  <2>1. /\ resolved = "unresolved" => said = "grant_issuer_key_log_unresolved"
        /\ resolved = "too_expensive" => said = "grant_issuer_key_log_too_expensive"
        /\ resolved = "ok" /\ signed = "anchor_unknown" => said = "grant_issuer_anchor_unknown"
        /\ resolved = "ok" /\ signed = "too_expensive" => said = "grant_signature_check_too_expensive"
        /\ resolved = "ok" /\ signed = "signature_invalid" => said = "grant_signature_invalid"
        /\ resolved = "ok" /\ signed = "ok" /\ role = "member" => said = "valid"
    BY <1>1, <1>2, <1>3, <1>5
  <2>2. resolved \in {"unresolved", "too_expensive"} => IsUnitWaitReason(said)
    BY <2>1 DEF IsUnitWaitReason
  <2>3. resolved = "ok" /\ signed = "too_expensive" => IsUnitWaitReason(said)
    BY <2>1 DEF IsUnitWaitReason
  <2> QED
    BY <1>5, <2>1, <2>2, <2>3 DEF resolved, signed, said
<1> QED
  BY <1>4, <1>5

-------------------------------------------------------------------------------
(* The answers of an honest view: what it has seen of the principal's log.     *)
LEMMA PrefixAnswers ==
  ASSUME HolderInvariant, NEW n \in 1 .. Len(identity.log), NEW log, NEW a,
         log = SubSeq(identity.log, 1, n)
  PROVE  /\ IsSequence(log) /\ Len(log) = n
         /\ \A i \in 1 .. n : log[i] = identity.log[i]
         /\ log \notin {<< >>, Throws} /\ log[1].id = identity.id
         /\ ReplayedStates(identity.id, log, a) \in {"unresolved", "too_expensive", "ok"}
<1>1. /\ IsSequence(identity.log) /\ Len(identity.log) \in Nat
      /\ identity.log[1] = InceptionEvent /\ identity.id = InceptionEvent.id
  BY DEF HolderInvariant, SoundHolder, Chain, IsSequence
<1>2. n \in 0 .. Len(identity.log) /\ n >= 1
  BY <1>1
<1>3. IsSequence(log) /\ Len(log) = n /\ \A i \in 1 .. n : log[i] = identity.log[i]
  BY <1>1, <1>2, SubSeqFacts
<1>4. log[1] = InceptionEvent
  BY <1>1, <1>2, <1>3
<1>5. log # << >>
  BY <1>2, <1>3
<1>6. log # Throws
  <2>1. InceptionEvent.seq = 0 /\ "seq" \in DOMAIN InceptionEvent
    BY DEF InceptionEvent, Inception
  <2>2. "seq" \notin DOMAIN [throws |-> TRUE]
    OBVIOUS
  <2>3. Throws[1] = [throws |-> TRUE]
    BY DEF Throws
  <2> QED
    BY <1>4, <2>1, <2>2, <2>3
<1>7. ReplayedStates(identity.id, log, a) \in {"unresolved", "too_expensive", "ok"}
  <2>1. log \notin {<< >>, Throws} /\ log[1].id = identity.id
    BY ONLY <1>1, <1>4, <1>5, <1>6
  <2>2. ReplayedStates(identity.id, log, a) # "mismatched"
    BY ONLY <2>1, ReplayedValues
  <2> QED
    BY ONLY <2>2, ReplayedValues
<1> QED
  BY <1>1, <1>3, <1>4, <1>5, <1>6, <1>7

(* A record whose anchor two prefixes know is judged alike on both.            *)
LEMMA PrefixesJudgeAlike ==
  ASSUME HolderInvariant, NEW n \in 1 .. Len(identity.log), NEW m \in 1 .. Len(identity.log),
         NEW log, NEW other, NEW a, NEW b, log = SubSeq(identity.log, 1, n), other = SubSeq(identity.log, 1, m),
         NEW record
  PROVE  \/ SignedAtAnchor(record, log, a) = SignedAtAnchor(record, other, b)
         \/ SignedAtAnchor(record, log, a) \in {"anchor_unknown", "too_expensive"}
         \/ SignedAtAnchor(record, other, b) \in {"anchor_unknown", "too_expensive"}
<1>1. /\ IsSequence(log) /\ Len(log) = n /\ \A i \in 1 .. n : log[i] = identity.log[i]
      /\ IsSequence(other) /\ Len(other) = m /\ \A i \in 1 .. m : other[i] = identity.log[i]
  BY PrefixAnswers
<1>2. CASE AnchoredStates(log, record.anchor) = {} \/ AnchoredStates(other, record.anchor) = {}
  BY <1>2 DEF SignedAtAnchor
<1>3. CASE AnchoredStates(log, record.anchor) # {} /\ AnchoredStates(other, record.anchor) # {}
  <2>1. PICK i \in 1 .. Len(log) : EventDigest(log[i]) = record.anchor
    BY <1>1, <1>3, UnknownAnchor
  <2>2. PICK j \in 1 .. Len(other) : EventDigest(other[j]) = record.anchor
    BY <1>1, <1>3, UnknownAnchor
  <2>3. log[i] = other[j]
    BY <2>1, <2>2, DigestNamesEvent
  <2> DEFINE good == Judgement(log[i].keys, log[i].threshold, Len(record.signers),
                               MadeUnder(log[i].keys, record.signers)) = "ok"
  <2>4. SignedAtAnchor(record, log, a) =
            IF ReplayCost(log) + MaxKeys > a THEN "too_expensive"
            ELSE IF good THEN "ok" ELSE "signature_invalid"
    BY <1>1, <2>1, SignedUnderState
  <2>5. SignedAtAnchor(record, other, b) =
            IF ReplayCost(other) + MaxKeys > b THEN "too_expensive"
            ELSE IF good THEN "ok" ELSE "signature_invalid"
    <3>1. SignedAtAnchor(record, other, b) =
            IF ReplayCost(other) + MaxKeys > b THEN "too_expensive"
            ELSE IF Judgement(other[j].keys, other[j].threshold, Len(record.signers),
                              MadeUnder(other[j].keys, record.signers)) = "ok"
                 THEN "ok" ELSE "signature_invalid"
      BY <1>1, <2>2, SignedUnderState
    <3> QED
      BY <2>3, <3>1
  <2> HIDE DEF good
  <2> QED
    BY <2>4, <2>5
<1> QED
  BY <1>2, <1>3

(* One answer, under two allowances: the checks come in one order, and those   *)
(* that spend tell running out from every decision.                            *)
LEMMA OneAnswerAgrees ==
  ASSUME NEW u, NEW log, log # Throws, NEW a, NEW b
  PROVE  \/ VerifyUnit(u, log, a) = VerifyUnit(u, log, b)
         \/ IsUnitWaitReason(VerifyUnit(u, log, a))
         \/ IsUnitWaitReason(VerifyUnit(u, log, b))
<1>1. ASSUME NEW id
      PROVE  \/ ReplayedStates(id, log, a) = ReplayedStates(id, log, b)
             \/ "too_expensive" \in {ReplayedStates(id, log, a), ReplayedStates(id, log, b)}
  BY DEF ReplayedStates
<1>2. ASSUME NEW record
      PROVE  \/ SignedAtAnchor(record, log, a) = SignedAtAnchor(record, log, b)
             \/ "too_expensive" \in {SignedAtAnchor(record, log, a), SignedAtAnchor(record, log, b)}
  BY DEF SignedAtAnchor
<1>3. \/ OwnerVerdict(u, log, a) = OwnerVerdict(u, log, b)
      \/ IsUnitWaitReason(OwnerVerdict(u, log, a))
      \/ IsUnitWaitReason(OwnerVerdict(u, log, b))
  <2> DEFINE ra == ReplayedStates(identity.id, log, a)
             rb == ReplayedStates(identity.id, log, b)
             sa == SignedAtAnchor(u, log, a)
             sb == SignedAtAnchor(u, log, b)
  <2>1. /\ {ra, rb} \subseteq {"unresolved", "too_expensive", "mismatched", "ok"}
        /\ {sa, sb} \subseteq {"anchor_unknown", "too_expensive", "signature_invalid", "ok"}
    BY ReplayedValues, SignedValues
  <2>2. (ra = rb \/ "too_expensive" \in {ra, rb}) /\ (sa = sb \/ "too_expensive" \in {sa, sb})
    BY <1>1, <1>2
  <2>3. CASE "too_expensive" \in {ra, rb}
    BY <2>3, OwnerValues
  <2>4. CASE ra = rb /\ ra = "mismatched"
    <3>1. OwnerVerdict(u, log, a) = "key_log_participant_mismatch"
      BY <2>4 DEF OwnerVerdict
    <3>2. OwnerVerdict(u, log, b) = "key_log_participant_mismatch"
      BY <2>4 DEF OwnerVerdict
    <3> QED
      BY <3>1, <3>2
  <2>5. CASE ra = rb /\ ra = "unresolved"
    BY <2>5, OwnerValues
  <2>6. CASE ra = rb /\ ra = "ok"
    <3>1. CASE "too_expensive" \in {sa, sb}
      BY <2>6, <3>1, OwnerValues
    <3>2. CASE sa = sb
      BY <2>1, <2>6, <3>2, OwnerValues
    <3> QED
      BY <2>2, <3>1, <3>2
  <2> HIDE DEF ra, rb, sa, sb
  <2> QED
    BY <2>1, <2>2, <2>3, <2>4, <2>5, <2>6
<1>4. ASSUME NEW link
      PROVE  \/ ChainVerdict(link, log, a) = ChainVerdict(link, log, b)
             \/ IsUnitWaitReason(ChainVerdict(link, log, a))
             \/ IsUnitWaitReason(ChainVerdict(link, log, b))
  <2> DEFINE ra == ReplayedStates(link.subject, log, a)
             rb == ReplayedStates(link.subject, log, b)
             sa == SignedAtAnchor(link, log, a)
             sb == SignedAtAnchor(link, log, b)
  <2>1. /\ {ra, rb} \subseteq {"unresolved", "too_expensive", "mismatched", "ok"}
        /\ {sa, sb} \subseteq {"anchor_unknown", "too_expensive", "signature_invalid", "ok"}
    BY ReplayedValues, SignedValues
  <2>2. (ra = rb \/ "too_expensive" \in {ra, rb}) /\ (sa = sb \/ "too_expensive" \in {sa, sb})
    BY <1>1, <1>2
  <2>3. CASE ~link.inWindow
    <3>1. ChainVerdict(link, log, a) = "grant_expired" /\ ChainVerdict(link, log, b) = "grant_expired"
      BY <2>3, ChainValues
    <3> QED
      BY <3>1
  <2>4. CASE link.inWindow /\ "too_expensive" \in {ra, rb}
    BY <2>4, ChainValues
  <2>5. CASE link.inWindow /\ ra = rb /\ ra = "mismatched"
    <3>1. ChainVerdict(link, log, a) = "grant_issuer_key_log_participant_mismatch"
      BY <2>5 DEF ChainVerdict
    <3>2. ChainVerdict(link, log, b) = "grant_issuer_key_log_participant_mismatch"
      BY <2>5 DEF ChainVerdict
    <3> QED
      BY <3>1, <3>2
  <2>6. CASE link.inWindow /\ ra = rb /\ ra = "unresolved"
    BY <2>6, ChainValues
  <2>7. CASE link.inWindow /\ ra = rb /\ ra = "ok"
    <3>1. CASE "too_expensive" \in {sa, sb}
      BY <2>7, <3>1, ChainValues
    <3>2. CASE sa = sb /\ sa \in {"anchor_unknown", "signature_invalid"}
      <4>1. ChainVerdict(link, log, a) = ChainVerdict(link, log, b)
        BY <2>7, <3>2, ChainValues
      <4> QED
        BY <4>1
    <3>3. CASE sa = sb /\ sa = "ok"
      <4> DEFINE said == IF role = "node" /\ revocation THEN "grant_revoked" ELSE "valid"
      <4>1. ChainVerdict(link, log, a) = said
        BY <2>7, <3>3 DEF ChainVerdict
      <4>2. ChainVerdict(link, log, b) = said
        BY <2>7, <3>3 DEF ChainVerdict
      <4> QED
        BY <4>1, <4>2
    <3> HIDE DEF ra, rb, sa, sb
    <3> QED
      BY <2>1, <2>2, <3>1, <3>2, <3>3
  <2> HIDE DEF ra, rb, sa, sb
  <2> QED
    BY <2>1, <2>2, <2>3, <2>4, <2>5, <2>6, <2>7
<1>5. ASSUME NEW link
      PROVE  \/ LeafVerdict(u, link, log, a) = LeafVerdict(u, link, log, b)
             \/ IsUnitWaitReason(LeafVerdict(u, link, log, a))
             \/ IsUnitWaitReason(LeafVerdict(u, link, log, b))
  BY DEF LeafVerdict, SignedByLeafKey, IsUnitWaitReason
<1>6. ~IsUnitWaitReason("valid")
  BY DEF IsUnitWaitReason
<1> DEFINE first == u.chain[1]
<1>7. \/ ChainVerdict(first, log, a) = ChainVerdict(first, log, b)
      \/ IsUnitWaitReason(ChainVerdict(first, log, a))
      \/ IsUnitWaitReason(ChainVerdict(first, log, b))
  BY <1>4
<1>8. \/ LeafVerdict(u, first, log, a) = LeafVerdict(u, first, log, b)
      \/ IsUnitWaitReason(LeafVerdict(u, first, log, a))
      \/ IsUnitWaitReason(LeafVerdict(u, first, log, b))
  BY <1>5
<1> QED
  BY <1>3, <1>6, <1>7, <1>8 DEF VerifyUnit

(* Two honest answers never lead to two different decisions of a member,       *)
(* whatever it affords with the one and with the other.                        *)
LEMMA HonestAnswersAgree ==
  ASSUME HolderInvariant, role = "member", NEW u,
         NEW n \in 1 .. Len(identity.log), NEW m \in 1 .. Len(identity.log), NEW a, NEW b
  PROVE  \/ VerifyUnit(u, HonestLog(u, n), a) = VerifyUnit(u, HonestLog(u, m), b)
         \/ IsUnitWaitReason(VerifyUnit(u, HonestLog(u, n), a))
         \/ IsUnitWaitReason(VerifyUnit(u, HonestLog(u, m), b))
         \/ "grant_issuer_anchor_unknown" \in {VerifyUnit(u, HonestLog(u, n), a),
                                               VerifyUnit(u, HonestLog(u, m), b)}
<1>1. CASE (u.anchor = NoAnchor) = (u.chain = NoChain)
  BY <1>1 DEF VerifyUnit
<1>2. CASE u.chain # NoChain /\ u.chain[1].subject # identity.id
  <2>1. HonestLog(u, n) = HonestLog(u, m) /\ HonestLog(u, n) # Throws
    <3>1. HonestLog(u, n) = <<OtherInception>> /\ HonestLog(u, m) = <<OtherInception>>
      BY <1>2 DEF HonestLog
    <3>2. "seq" \in DOMAIN OtherInception /\ "seq" \notin DOMAIN [throws |-> TRUE]
      BY DEF OtherInception, Inception
    <3> QED
      BY <3>1, <3>2 DEF Throws
  <2>2. ASSUME NEW answer, answer = HonestLog(u, n)
        PROVE  \/ VerifyUnit(u, answer, a) = VerifyUnit(u, answer, b)
               \/ IsUnitWaitReason(VerifyUnit(u, answer, a))
               \/ IsUnitWaitReason(VerifyUnit(u, answer, b))
    BY <2>1, <2>2, OneAnswerAgrees
  <2> QED
    BY <2>1, <2>2
<1> DEFINE log == SubSeq(identity.log, 1, n)
           other == SubSeq(identity.log, 1, m)
<1>3. /\ log # Throws /\ other # Throws
      /\ ReplayedStates(identity.id, log, a) \in {"unresolved", "too_expensive", "ok"}
      /\ ReplayedStates(identity.id, other, b) \in {"unresolved", "too_expensive", "ok"}
  BY PrefixAnswers
<1>4. ASSUME NEW record
      PROVE  \/ SignedAtAnchor(record, log, a) = SignedAtAnchor(record, other, b)
             \/ SignedAtAnchor(record, log, a) \in {"anchor_unknown", "too_expensive"}
             \/ SignedAtAnchor(record, other, b) \in {"anchor_unknown", "too_expensive"}
  BY PrefixesJudgeAlike
<1>5. CASE (u.anchor = NoAnchor) # (u.chain = NoChain) /\ u.chain = NoChain
  <2>1. HonestLog(u, n) = log /\ HonestLog(u, m) = other
    BY <1>5 DEF HonestLog
  <2> HIDE DEF log, other
  <2>2. /\ VerifyUnit(u, log, a) = OwnerVerdict(u, log, a)
        /\ VerifyUnit(u, other, b) = OwnerVerdict(u, other, b)
    BY <1>5 DEF VerifyUnit
  <2>3. \/ IsUnitWaitReason(OwnerVerdict(u, log, a))
        \/ IsUnitWaitReason(OwnerVerdict(u, other, b))
        \/ OwnerVerdict(u, log, a) = OwnerVerdict(u, other, b)
    <3>1. \/ SignedAtAnchor(u, log, a) = SignedAtAnchor(u, other, b)
          \/ SignedAtAnchor(u, log, a) \in {"anchor_unknown", "too_expensive"}
          \/ SignedAtAnchor(u, other, b) \in {"anchor_unknown", "too_expensive"}
      BY <1>4
    <3>2. /\ SignedAtAnchor(u, log, a) \in {"anchor_unknown", "too_expensive", "signature_invalid", "ok"}
          /\ SignedAtAnchor(u, other, b) \in {"anchor_unknown", "too_expensive", "signature_invalid", "ok"}
      BY SignedValues
    <3>3. \/ IsUnitWaitReason(OwnerVerdict(u, log, a))
          \/ /\ ReplayedStates(identity.id, log, a) = "ok"
             /\ SignedAtAnchor(u, log, a) \notin {"anchor_unknown", "too_expensive"}
      BY <1>3, OwnerValues
    <3>4. \/ IsUnitWaitReason(OwnerVerdict(u, other, b))
          \/ /\ ReplayedStates(identity.id, other, b) = "ok"
             /\ SignedAtAnchor(u, other, b) \notin {"anchor_unknown", "too_expensive"}
      BY <1>3, OwnerValues
    <3> QED
      BY <3>1, <3>2, <3>3, <3>4, OwnerValues
  <2> QED
    BY <2>1, <2>2, <2>3
<1>6. CASE (u.anchor = NoAnchor) # (u.chain = NoChain) /\ u.chain # NoChain
           /\ u.chain[1].subject = identity.id
  <2> DEFINE link == u.chain[1]
  <2>1. HonestLog(u, n) = log /\ HonestLog(u, m) = other
    BY <1>6 DEF HonestLog
  <2> HIDE DEF log, other
  <2>2. /\ VerifyUnit(u, log, a) = IF ChainVerdict(link, log, a) # "valid" THEN ChainVerdict(link, log, a)
                                ELSE LeafVerdict(u, link, log, a)
        /\ VerifyUnit(u, other, b) = IF ChainVerdict(link, other, b) # "valid" THEN ChainVerdict(link, other, b)
                                  ELSE LeafVerdict(u, link, other, b)
    BY <1>6 DEF VerifyUnit
  <2>3. link.subject = identity.id
    BY <1>6
  <2> HIDE DEF link
  <2>4. \/ IsUnitWaitReason(ChainVerdict(link, log, a))
        \/ IsUnitWaitReason(ChainVerdict(link, other, b))
        \/ "grant_issuer_anchor_unknown" \in {ChainVerdict(link, log, a), ChainVerdict(link, other, b)}
        \/ ChainVerdict(link, log, a) = ChainVerdict(link, other, b)
    <3>1. CASE ~link.inWindow
      <4>1. ChainVerdict(link, log, a) = "grant_expired" /\ ChainVerdict(link, other, b) = "grant_expired"
        BY <1>3, <3>1, ChainValues
      <4> QED
        BY <4>1
    <3>2. CASE link.inWindow
      <4>1. \/ SignedAtAnchor(link, log, a) = SignedAtAnchor(link, other, b)
            \/ SignedAtAnchor(link, log, a) \in {"anchor_unknown", "too_expensive"}
            \/ SignedAtAnchor(link, other, b) \in {"anchor_unknown", "too_expensive"}
        BY <1>4
      <4>2. /\ SignedAtAnchor(link, log, a) \in {"anchor_unknown", "too_expensive", "signature_invalid", "ok"}
            /\ SignedAtAnchor(link, other, b) \in {"anchor_unknown", "too_expensive", "signature_invalid", "ok"}
        BY SignedValues
      <4>3. CASE ReplayedStates(identity.id, log, a) # "ok"
        BY <1>3, <2>3, <3>2, <4>3, ChainValues
      <4>4. CASE ReplayedStates(identity.id, other, b) # "ok"
        BY <1>3, <2>3, <3>2, <4>4, ChainValues
      <4>5. CASE ReplayedStates(identity.id, log, a) = "ok" /\ ReplayedStates(identity.id, other, b) = "ok"
        <5>1. \/ IsUnitWaitReason(ChainVerdict(link, log, a))
              \/ ChainVerdict(link, log, a) = "grant_issuer_anchor_unknown"
              \/ SignedAtAnchor(link, log, a) \notin {"anchor_unknown", "too_expensive"}
          BY <1>3, <2>3, <3>2, <4>5, ChainValues
        <5>2. \/ IsUnitWaitReason(ChainVerdict(link, other, b))
              \/ ChainVerdict(link, other, b) = "grant_issuer_anchor_unknown"
              \/ SignedAtAnchor(link, other, b) \notin {"anchor_unknown", "too_expensive"}
          BY <1>3, <2>3, <3>2, <4>5, ChainValues
        <5>3. SignedAtAnchor(link, log, a) = "ok" /\ SignedAtAnchor(link, other, b) = "ok"
              => ChainVerdict(link, log, a) = "valid" /\ ChainVerdict(link, other, b) = "valid"
          BY <1>3, <2>3, <3>2, <4>5, ChainValues
        <5>4. SignedAtAnchor(link, log, a) = "signature_invalid" /\ SignedAtAnchor(link, other, b) = "signature_invalid"
              => /\ ChainVerdict(link, log, a) = "grant_signature_invalid"
                 /\ ChainVerdict(link, other, b) = "grant_signature_invalid"
          BY <1>3, <2>3, <3>2, <4>5, ChainValues
        <5> QED
          BY <4>1, <4>2, <5>1, <5>2, <5>3, <5>4
      <4> QED
        BY <4>3, <4>4, <4>5
    <3> QED
      BY <3>1, <3>2
  <2>5. \/ IsUnitWaitReason(LeafVerdict(u, link, log, a))
        \/ IsUnitWaitReason(LeafVerdict(u, link, other, b))
        \/ LeafVerdict(u, link, log, a) = LeafVerdict(u, link, other, b)
    BY DEF LeafVerdict, SignedByLeafKey, IsUnitWaitReason
  <2>6. ~IsUnitWaitReason("valid")
    BY DEF IsUnitWaitReason
  <2> QED
    BY <2>1, <2>2, <2>4, <2>5, <2>6
<1> QED
  BY <1>1, <1>2, <1>5, <1>6

-------------------------------------------------------------------------------
(* On what a unit was accepted, in terms that outlast the log it was accepted  *)
(* with: signatures good under the state of an event of the principal's log,   *)
(* or a delegate's lone signature under a grant that fits the record.          *)
AcceptedForOwner(u) ==
    /\ u.chain = NoChain
    /\ u.anchor # NoAnchor
    /\ \E i \in 1 .. Len(identity.log) :
          /\ u.anchor = EventDigest(identity.log[i])
          /\ Judgement(identity.log[i].keys, identity.log[i].threshold, Len(u.signers),
                       MadeUnder(identity.log[i].keys, u.signers)) = "ok"

AcceptedForDelegate(u) ==
    /\ u.chain # NoChain
    /\ u.anchor = NoAnchor
    /\ u.chain[1].subject = identity.id
    /\ u.chain[1].audience = [key |-> Session]
    /\ u.chain[1].inWindow
    /\ u.signers = <<Session>>
    /\ RequiredAbility(u) \in u.chain[1].abilities

(* A member with an honest view has judged the unit by some prefix of the log. *)
JudgedHonestly ==
    view = "honest" /\ role = "member" /\ verdict # "none" =>
        \E u, log, a :
            /\ u = unit /\ a = allowance
            /\ \E n \in 1 .. Len(identity.log) : log = HonestLog(unit, n)
            /\ verdict = VerifyUnit(u, log, a)

UnitInvariant ==
    /\ IssuedInvariant
    /\ allowance \in Nat
    /\ seen \in 1 .. Len(identity.log)
    /\ unit = NoUnit => verdict = "none"
    /\ unit # NoUnit => \E u : u = unit /\ ReceivedForm(u)
    /\ verdict = "valid" => \E u : u = unit /\ (AcceptedForOwner(u) \/ AcceptedForDelegate(u))
    /\ JudgedHonestly

LEMMA OtherIsAnother ==
  /\ OtherInception.id # InceptionEvent.id
  /\ OtherInception # InceptionEvent
<1>1. Outside # 1
  BY KeyLogAssumption
<1>2. InceptionEvent.keys = <<1>> /\ OtherInception.keys = <<Outside>>
  BY DEF InceptionEvent, OtherInception, Inception
<1>3. <<1>> # <<Outside>>
  BY <1>1
<1>4. /\ InceptionEvent.id = DeriveParticipantId(EstablishmentData(InceptionEvent))
      /\ OtherInception.id = DeriveParticipantId(EstablishmentData(OtherInception))
  BY DEF InceptionEvent, OtherInception, Inception, EstablishmentData
<1> QED
  BY <1>2, <1>3, <1>4, IdNamesState

(* Only a prefix of the principal's log replays as the principal's, whatever a *)
(* view answers.                                                               *)
LEMMA OnlyPrefixesReplay ==
  ASSUME HolderInvariant, seen \in 1 .. Len(identity.log), NEW log, NEW a,
         log \in {SubSeq(identity.log, 1, seen), SubSeq(identity.log, 2, seen),
                  << >>, Throws, <<OtherInception>>},
         ReplayedStates(identity.id, log, a) = "ok"
  PROVE  log = SubSeq(identity.log, 1, seen)
<1>1. /\ IsSequence(identity.log) /\ Len(identity.log) \in Nat
      /\ identity.log[1] = InceptionEvent /\ identity.id = InceptionEvent.id
      /\ \A i \in 2 .. Len(identity.log) : RotationReplays(identity.log[i - 1], identity.log[i], identity.log[1].id)
  BY DEF HolderInvariant, SoundHolder, Chain, IsSequence
<1>2. log \notin {<< >>, Throws} /\ InceptionReplays(log[1]) /\ log[1].id = identity.id
  BY ReplayedValues DEF Replays
<1>3. log # <<OtherInception>>
  BY <1>1, <1>2, OtherIsAnother
<1>4. ASSUME log = SubSeq(identity.log, 2, seen) PROVE FALSE
  <2>1. seen \in Int /\ seen >= 1 /\ seen <= Len(identity.log)
    BY <1>1
  <2>2. CASE seen = 1
    <3>1. SubSeq(identity.log, 2, seen) = << >>
      BY <2>2, SubSeqEmpty
    <3> QED
      BY <1>2, <1>4, <3>1
  <2>3. CASE seen >= 2
    <3>1. \A i \in 2 .. seen : identity.log[i] \in ToSet(identity.log)
      BY <1>1, <2>1, SequenceFacts DEF ToSet
    <3>2. \A i \in 1 .. seen - 2 + 1 : log[i] = identity.log[2 + i - 1]
      BY <1>4, <2>1, <3>1, SubSeqProperties
    <3>3. 1 \in 1 .. seen - 2 + 1 /\ 2 + 1 - 1 = 2 /\ 2 \in 2 .. Len(identity.log)
      BY <1>1, <2>1, <2>3
    <3>4. log[1] = identity.log[2]
      BY <3>2, <3>3
    <3>5. identity.log[2].kind = "rot"
      BY <1>1, <3>3 DEF RotationReplays
    <3> QED
      BY <1>2, <3>4, <3>5 DEF InceptionReplays
  <2> QED
    BY <2>1, <2>2, <2>3
<1> QED
  BY <1>2, <1>3, <1>4

LEMMA VerdictSaysWhy ==
  ASSUME HolderInvariant, seen \in 1 .. Len(identity.log), NEW u, NEW log, NEW a,
         VerifyUnit(u, log, a) = "valid",
         log \in {SubSeq(identity.log, 1, seen), SubSeq(identity.log, 2, seen),
                  << >>, Throws, <<OtherInception>>}
  PROVE  AcceptedForOwner(u) \/ AcceptedForDelegate(u)
<1>1. (u.anchor = NoAnchor) # (u.chain = NoChain)
  BY DEF VerifyUnit
<1>2. CASE u.chain = NoChain
  <2>1. OwnerVerdict(u, log, a) = "valid"
    BY <1>1, <1>2 DEF VerifyUnit
  <2>2. ReplayedStates(identity.id, log, a) = "ok" /\ SignedAtAnchor(u, log, a) = "ok"
    BY <2>1, OwnerValues
  <2>3. log = SubSeq(identity.log, 1, seen)
    BY <2>2, OnlyPrefixesReplay
  <2>4. IsSequence(log) /\ Len(log) = seen /\ \A i \in 1 .. seen : log[i] = identity.log[i]
    BY <2>3, PrefixAnswers
  <2>5. PICK i \in 1 .. Len(log) : EventDigest(log[i]) = u.anchor
    BY <2>2, <2>4, SignedValues, UnknownAnchor
  <2>6. Judgement(log[i].keys, log[i].threshold, Len(u.signers), MadeUnder(log[i].keys, u.signers)) = "ok"
    BY <2>2, <2>4, <2>5, SignedUnderState
  <2>7. i \in 1 .. Len(identity.log) /\ log[i] = identity.log[i]
    BY <2>4 DEF HolderInvariant, SoundHolder, Chain, IsSequence
  <2> QED
    BY <1>1, <1>2, <2>5, <2>6, <2>7 DEF AcceptedForOwner
<1>3. CASE u.chain # NoChain
  <2> DEFINE link == u.chain[1]
  <2>1. ChainVerdict(link, log, a) = "valid" /\ LeafVerdict(u, link, log, a) = "valid"
    BY <1>1, <1>3 DEF VerifyUnit
  <2>2. link.inWindow
    <3>1. ~link.inWindow => ChainVerdict(link, log, a) = "grant_expired"
      BY DEF ChainVerdict
    <3> QED
      BY <2>1, <3>1
  <2>3. /\ link.subject = identity.id
        /\ link.audience = [key |-> Session]
        /\ u.signers = <<Session>>
        /\ RequiredAbility(u) \in link.abilities
    BY <2>1 DEF LeafVerdict, SignedByLeafKey
  <2> QED
    BY <1>1, <1>3, <2>2, <2>3 DEF AcceptedForDelegate
<1> QED
  BY <1>2, <1>3

(* Of the variables, a member's verdict depends on the identity only.          *)
LEMMA MemberVerdictUnchanged ==
  ASSUME identity'.id = identity.id, role' = role, role = "member",
         NEW u, NEW log, NEW a
  PROVE  VerifyUnit(u, log, a)' = VerifyUnit(u, log, a)
<1>1. ASSUME NEW id PROVE ReplayedStates(id, log, a)' = ReplayedStates(id, log, a)
  BY DEF ReplayedStates
<1>2. ASSUME NEW record PROVE SignedAtAnchor(record, log, a)' = SignedAtAnchor(record, log, a)
  BY DEF SignedAtAnchor
<1>3. OwnerVerdict(u, log, a)' = OwnerVerdict(u, log, a)
  <2>1. ReplayedStates(identity.id, log, a)' = ReplayedStates(identity.id, log, a)
    BY DEF ReplayedStates
  <2> QED
    BY <1>2, <2>1 DEF OwnerVerdict
<1>4. ASSUME NEW link PROVE ChainVerdict(link, log, a)' = ChainVerdict(link, log, a)
  <2>1. ReplayedStates(link.subject, log, a)' = ReplayedStates(link.subject, log, a)
    BY DEF ReplayedStates
  <2>2. SignedAtAnchor(link, log, a)' = SignedAtAnchor(link, log, a)
    BY <1>2
  <2> QED
    BY <2>1, <2>2 DEF ChainVerdict
<1>5. ASSUME NEW link PROVE LeafVerdict(u, link, log, a)' = LeafVerdict(u, link, log, a)
  BY DEF LeafVerdict
<1> DEFINE first == u.chain[1]
<1>6. /\ ChainVerdict(first, log, a)' = ChainVerdict(first, log, a)
      /\ LeafVerdict(u, first, log, a)' = LeafVerdict(u, first, log, a)
  BY <1>4, <1>5
<1> QED
  BY <1>3, <1>6 DEF VerifyUnit

LEMMA UnitInvariantIsInductive ==
  ASSUME UnitInvariant, [UnitNext]_unitVars
  PROVE  UnitInvariant'
<1>1. [IssuingNext]_issuingVars
  BY DEF UnitNext, Principal, Receive, CatchUp, LearnRevocation, Judge, unitVars, IssuingNext
<1>2. /\ IssuedInvariant /\ IssuedInvariant' /\ HolderInvariant
      /\ Continues(identity.log, identity'.log) /\ identity'.id = identity.id
  BY <1>1, IssuingKeepsInvariant DEF UnitInvariant, IssuedInvariant
<1>3. /\ IsSequence(identity.log) /\ Len(identity.log) \in Nat
      /\ IsSequence(identity'.log) /\ Len(identity'.log) \in Nat
      /\ Len(identity.log) <= Len(identity'.log)
      /\ \A i \in 1 .. Len(identity.log) : i \in 1 .. Len(identity'.log) /\ identity'.log[i] = identity.log[i]
  BY <1>2 DEF IssuedInvariant, HolderInvariant, SoundHolder, Chain, IsSequence, Continues
<1>4. /\ UNCHANGED <<view, role, allowance>>
      /\ issued \subseteq issued'
  BY DEF UnitNext, Principal, Receive, CatchUp, LearnRevocation, Judge, unitVars, verifierVars,
         issuingVars, IssueRevocation, IssueGrant
<1>5. allowance' \in Nat
  BY <1>4 DEF UnitInvariant
<1>6. seen' \in 1 .. Len(identity'.log)
  <2>1. seen' = seen \/ (seen < Len(identity.log) /\ seen' = seen + 1 /\ identity' = identity)
    BY DEF UnitNext, Principal, Receive, CatchUp, LearnRevocation, Judge, unitVars, verifierVars,
           issuingVars, holderVars
  <2> QED
    BY <1>3, <2>1 DEF UnitInvariant
<1>7. ASSUME NEW u, u = unit, AcceptedForOwner(u) \/ AcceptedForDelegate(u)
      PROVE  (AcceptedForOwner(u) \/ AcceptedForDelegate(u))'
  <2>1. CASE AcceptedForOwner(u)
    <3>1. AcceptedForOwner(u)'
      BY <1>3, <2>1 DEF AcceptedForOwner
    <3> QED
      BY <3>1
  <2>2. CASE AcceptedForDelegate(u)
    <3>1. AcceptedForDelegate(u)'
      BY <1>2, <2>2 DEF AcceptedForDelegate
    <3> QED
      BY <3>1
  <2> QED
    BY <1>7, <2>1, <2>2
<1>8. ASSUME NEW u, ReceivedForm(u)
      PROVE  ReceivedForm(u)'
  <2>1. PICK record \in issued : OwnerForm(u, record) \/ DelegatedForm(u, record)
    BY <1>8 DEF ReceivedForm
  <2>2. (OwnerForm(u, record) \/ DelegatedForm(u, record))'
    BY <1>2, <2>1 DEF OwnerForm, DelegatedForm, LinkForm
  <2> QED
    BY <1>4, <2>1, <2>2 DEF ReceivedForm
<1>9. ASSUME NEW u, NEW n \in 1 .. Len(identity.log)
      PROVE  HonestLog(u, n)' = HonestLog(u, n)
  <2>1. /\ IsSequence(SubSeq(identity.log, 1, n)) /\ Len(SubSeq(identity.log, 1, n)) = n
        /\ \A i \in 1 .. n : SubSeq(identity.log, 1, n)[i] = identity.log[i]
    BY <1>3, SubSeqFacts
  <2>2. /\ IsSequence(SubSeq(identity'.log, 1, n)) /\ Len(SubSeq(identity'.log, 1, n)) = n
        /\ \A i \in 1 .. n : SubSeq(identity'.log, 1, n)[i] = identity'.log[i]
    BY <1>3, SubSeqFacts
  <2>3. SubSeq(identity'.log, 1, n) = SubSeq(identity.log, 1, n)
    BY <1>3, <2>1, <2>2, SameSequence
  <2> QED
    BY <1>2, <2>3 DEF HonestLog
<1>10. CASE UNCHANGED <<unit, verdict>>
  <2>1. unit' = NoUnit => verdict' = "none"
    BY <1>10 DEF UnitInvariant
  <2>2. ASSUME unit' # NoUnit PROVE (\E u : u = unit /\ ReceivedForm(u))'
    <3>1. PICK u : u = unit /\ ReceivedForm(u)
      BY <1>10, <2>2 DEF UnitInvariant
    <3>2. u = unit' /\ ReceivedForm(u)'
      BY <1>8, <1>10, <3>1
    <3> QED
      BY <3>2
  <2>3. ASSUME verdict' = "valid"
        PROVE  (\E u : u = unit /\ (AcceptedForOwner(u) \/ AcceptedForDelegate(u)))'
    <3>1. PICK u : u = unit /\ (AcceptedForOwner(u) \/ AcceptedForDelegate(u))
      BY <1>10, <2>3 DEF UnitInvariant
    <3>2. u = unit' /\ (AcceptedForOwner(u) \/ AcceptedForDelegate(u))'
      BY <1>7, <1>10, <3>1
    <3> QED
      BY <3>2
  <2>4. ASSUME view = "honest", role = "member", verdict' # "none"
        PROVE  JudgedHonestly'
    <3>1. PICK u, log, a : /\ u = unit /\ a = allowance
                           /\ \E n \in 1 .. Len(identity.log) : log = HonestLog(unit, n)
                           /\ verdict = VerifyUnit(u, log, a)
      BY <1>10, <2>4 DEF UnitInvariant, JudgedHonestly
    <3>2. PICK n \in 1 .. Len(identity.log) : log = HonestLog(u, n)
      BY <3>1
    <3>3. u = unit' /\ a = allowance' /\ n \in 1 .. Len(identity'.log) /\ log = HonestLog(u, n)'
      BY <1>3, <1>4, <1>9, <1>10, <3>1, <3>2
    <3>4. verdict' = VerifyUnit(u, log, a)'
      BY <1>2, <1>4, <1>10, <2>4, <3>1, MemberVerdictUnchanged
    <3> QED
      BY <3>3, <3>4 DEF JudgedHonestly
  <2>5. JudgedHonestly'
    BY <1>4, <2>4 DEF JudgedHonestly
  <2> QED
    BY <1>2, <1>5, <1>6, <2>1, <2>2, <2>3, <2>5 DEF UnitInvariant
<1>11. CASE Receive
  <2>1. unit = NoUnit /\ verdict' = "none"
    BY <1>11 DEF Receive, UnitInvariant
  <2>2. (\E u : u = unit /\ ReceivedForm(u))'
    <3>1. PICK u : u = unit' /\ u \in Units
      BY <1>11 DEF Receive
    <3>2. PICK record \in issued :
              u \in OwnerVariants(OwnerUnit(record)) \cup DelegatedVariants(DelegatedUnit(record))
      BY <3>1 DEF Units
    <3>3. OwnerForm(u, record) \/ DelegatedForm(u, record)
      BY <3>2, OwnerUnitsHaveForm, DelegatedUnitsHaveForm
    <3>4. ReceivedForm(u)'
      BY <1>8, <3>3 DEF ReceivedForm
    <3> QED
      BY <3>1, <3>4
  <2>3. JudgedHonestly'
    BY <2>1 DEF JudgedHonestly
  <2> QED
    BY <1>2, <1>5, <1>6, <2>1, <2>2, <2>3 DEF UnitInvariant
<1>12. CASE Judge
  <2>1. PICK log \in LogAnswers : verdict' = VerifyUnit(unit, log, allowance)
    BY <1>12 DEF Judge
  <2>2. PICK u : u = unit
    OBVIOUS
  <2>3. unit # NoUnit /\ unit' = u /\ identity' = identity
    BY <1>12, <2>2 DEF Judge, issuingVars, holderVars
  <2>4. log \in {SubSeq(identity.log, 1, seen), SubSeq(identity.log, 2, seen),
                 << >>, Throws, <<OtherInception>>}
    BY <2>1 DEF LogAnswers, HonestLog
  <2>5. (\E v : v = unit /\ ReceivedForm(v))'
    <3>1. PICK v : v = unit /\ ReceivedForm(v)
      BY <2>3 DEF UnitInvariant
    <3>2. v = unit' /\ ReceivedForm(v)'
      BY <1>8, <2>2, <2>3, <3>1
    <3> QED
      BY <3>2
  <2>6. ASSUME verdict' = "valid"
        PROVE  (\E v : v = unit /\ (AcceptedForOwner(v) \/ AcceptedForDelegate(v)))'
    <3>1. VerifyUnit(u, log, allowance) = "valid"
      BY <2>1, <2>2, <2>6
    <3>2. seen \in 1 .. Len(identity.log)
      BY DEF UnitInvariant
    <3>3. AcceptedForOwner(u) \/ AcceptedForDelegate(u)
      BY <1>2, <2>4, <3>1, <3>2, VerdictSaysWhy
    <3>4. (AcceptedForOwner(u) \/ AcceptedForDelegate(u))'
      BY <1>7, <2>2, <3>3
    <3> QED
      BY <2>3, <3>4
  <2>7. ASSUME view = "honest", role = "member" PROVE JudgedHonestly'
    <3>1. log = HonestLog(u, seen) /\ seen \in 1 .. Len(identity.log)
      BY <2>1, <2>2, <2>7 DEF LogAnswers, UnitInvariant
    <3>2. PICK n, a : n = seen /\ a = allowance
      OBVIOUS
    <3>3. n \in 1 .. Len(identity'.log) /\ a = allowance' /\ log = HonestLog(u, n)'
      BY <1>3, <1>4, <1>9, <3>1, <3>2
    <3>4. verdict' = VerifyUnit(u, log, a)'
      BY <1>2, <1>4, <2>1, <2>2, <2>7, <3>2, MemberVerdictUnchanged
    <3> QED
      BY <2>3, <3>3, <3>4 DEF JudgedHonestly
  <2>8. JudgedHonestly'
    BY <1>4, <2>7 DEF JudgedHonestly
  <2> QED
    BY <1>2, <1>5, <1>6, <2>2, <2>3, <2>5, <2>6, <2>8 DEF UnitInvariant
<1>13. UNCHANGED <<unit, verdict>> \/ Receive \/ Judge
  BY DEF UnitNext, Principal, CatchUp, LearnRevocation, unitVars, verifierVars
<1> QED
  BY <1>10, <1>11, <1>12, <1>13

LEMMA InitEstablishesUnit == UnitInit => UnitInvariant
<1> SUFFICES ASSUME UnitInit PROVE UnitInvariant
  OBVIOUS
<1>1. IssuedInvariant
  BY InitEstablishesIssued DEF UnitInit
<1>2. seen = 1 /\ unit = NoUnit /\ verdict = "none" /\ allowance \in Nat
  BY RecordUnitAssumption DEF UnitInit
<1>3. 1 \in 1 .. Len(identity.log)
  BY <1>1 DEF IssuedInvariant, HolderInvariant, SoundHolder, Chain, IsSequence
<1> QED
  BY <1>1, <1>2, <1>3 DEF UnitInvariant, JudgedHonestly

(* Signatures good under an event's state are made with the keys of it.        *)
LEMMA GoodSignaturesAreOwn ==
  ASSUME HolderInvariant, NEW i \in 1 .. Len(identity.log), NEW signers, IsSequence(signers),
         Judgement(identity.log[i].keys, identity.log[i].threshold, Len(signers),
                   MadeUnder(identity.log[i].keys, signers)) = "ok"
  PROVE  \A k \in 1 .. Len(signers) : signers[k] # Outside
<1>1. IsSequence(identity.log[i].keys)
  BY DEF HolderInvariant, SoundHolder, Chain, WholeEvent
<1> DEFINE keys == identity.log[i].keys
           text == identity.log[i].threshold
<1>2. \A j \in 1 .. Len(keys) : keys[j] # Outside
  <2>1. \A j \in 1 .. Len(keys) : keys[j] \in 1 .. minted
    BY DEF HolderInvariant, OwnKeys, Among
  <2>2. minted \in 0 .. MaxMinted /\ Outside \notin 1 .. MaxMinted /\ MaxMinted \in Nat
    BY KeyLogAssumption DEF HolderInvariant
  <2> HIDE DEF keys
  <2> QED
    BY <2>1, <2>2
<1> HIDE DEF keys, text
<1>3. /\ Len(signers) = text
      /\ \E choice \in [1 .. text -> 1 .. Len(keys)] : \A k \in 1 .. text : keys[choice[k]] = signers[k]
  BY <1>1, JudgedGood DEF keys, text
<1> QED
  BY <1>2, <1>3

(* What a unit with an owner's signatures is, given that it is one of those    *)
(* that can be received: the record as it was issued.                          *)
LEMMA OwnersRecordIsIssued ==
  ASSUME IssuedInvariant, NEW u, NEW record \in issued, OwnerForm(u, record), AcceptedForOwner(u)
  PROVE  [anchor |-> u.anchor, signers |-> u.signers] \in issued /\ IsSequence(u.signers)
<1>1. HolderInvariant
  BY DEF IssuedInvariant
<1>2. PICK j \in 1 .. Len(identity.log) : IssuedUnder(record, identity.log[j])
  BY DEF IssuedInvariant
<1>3. IsSequence(identity.log[j].keys)
  BY <1>1 DEF HolderInvariant, SoundHolder, Chain, WholeEvent
<1>4. IsSequence(record.signers)
  <2>1. IsSequence(<< >>)
    BY DEF IsSequence
  <2> QED
    BY <1>2, <1>3, <2>1 DEF IssuedUnder
<1>5. PICK i \in 1 .. Len(identity.log) :
         /\ u.anchor = EventDigest(identity.log[i])
         /\ Judgement(identity.log[i].keys, identity.log[i].threshold, Len(u.signers),
                      MadeUnder(identity.log[i].keys, u.signers)) = "ok"
  BY DEF AcceptedForOwner
<1>6. CASE u.anchor = record.anchor /\ u.signers = record.signers
  BY <1>2, <1>4, <1>6 DEF IssuedUnder
<1>7. ASSUME u.signers = record.signers \o <<Outside>> PROVE FALSE
  <2> DEFINE longer == record.signers \o <<Outside>>
             S == ToSet(record.signers) \cup {Outside}
  <2>1. record.signers \in Seq(S) /\ Outside \in S
    <3>1. record.signers \in Seq(ToSet(record.signers))
      BY <1>4, SequenceFacts
    <3> QED
      BY <3>1, SeqMonotonic
  <2>2. Append(record.signers, Outside) = longer
    <3> HIDE DEF S
    <3> QED
      BY <2>1, AppendIsConcat
  <2>3. /\ IsSequence(longer) /\ Len(longer) = Len(record.signers) + 1
        /\ longer[Len(record.signers) + 1] = Outside /\ Len(record.signers) \in Nat
    <3>1. Len(record.signers) \in Nat
      BY <1>4 DEF IsSequence
    <3>2. /\ IsSequence(Append(record.signers, Outside))
          /\ Len(Append(record.signers, Outside)) = Len(record.signers) + 1
          /\ Append(record.signers, Outside)[Len(record.signers) + 1] = Outside
      BY <1>4, AppendFacts
    <3> HIDE DEF longer
    <3> QED
      BY <3>1, <3>2, <2>2
  <2> HIDE DEF longer
  <2>4. u.signers = longer
    BY <1>7 DEF longer
  <2>5. \A k \in 1 .. Len(longer) : longer[k] # Outside
    BY <1>1, <1>5, <2>3, <2>4, GoodSignaturesAreOwn
  <2> QED
    BY <2>3, <2>5
<1>8. ASSUME u.anchor = EventDigest(OtherInception) PROVE FALSE
  <2>1. identity.log[i] = OtherInception
    BY <1>5, <1>8, DigestNamesEvent
  <2>2. 1 \in 1 .. Len(identity.log[i].keys) /\ identity.log[i].keys[1] = Outside
    BY <2>1 DEF OtherInception, Inception
  <2>3. Outside \in 1 .. minted /\ minted \in 0 .. MaxMinted
    BY <1>1, <2>2 DEF HolderInvariant, OwnKeys, Among
  <2> QED
    BY <2>3, KeyLogAssumption
<1> QED
  BY <1>6, <1>7, <1>8 DEF OwnerForm, AcceptedForOwner

(* Whatever the view answers, a unit is accepted only on the principal's own   *)
(* authority: a record it issued, or a grant it issued, by a delegate who      *)
(* signed alone, in time, and with an ability for this kind of record.         *)
THEOREM AcceptedOnAuthority == UnitSpec => []AcceptedOnPrincipalsAuthority
<1>1. UnitInvariant => AcceptedOnPrincipalsAuthority
  <2> SUFFICES ASSUME UnitInvariant, verdict = "valid"
               PROVE  AcceptedOnPrincipalsAuthority
    BY DEF AcceptedOnPrincipalsAuthority
  <2>1. IssuedInvariant /\ HolderInvariant /\ unit # NoUnit
    BY DEF UnitInvariant, IssuedInvariant
  <2>2. PICK u : u = unit /\ (AcceptedForOwner(u) \/ AcceptedForDelegate(u))
    BY DEF UnitInvariant
  <2>3. PICK record \in issued : OwnerForm(u, record) \/ DelegatedForm(u, record)
    BY <2>1, <2>2 DEF UnitInvariant, ReceivedForm
  <2>4. CASE AcceptedForOwner(u)
    <3>1. OwnerForm(u, record)
      BY <2>3, <2>4 DEF AcceptedForOwner, DelegatedForm, NoChain
    <3>2. [anchor |-> u.anchor, signers |-> u.signers] \in issued
      BY <2>1, <2>4, <3>1, OwnersRecordIsIssued
    <3> QED
      BY <2>2, <2>4, <3>2 DEF AcceptedOnPrincipalsAuthority, AcceptedForOwner
  <2>5. CASE AcceptedForDelegate(u)
    <3>1. DelegatedForm(u, record)
      BY <2>3, <2>5 DEF AcceptedForDelegate, OwnerForm
    <3>2. PICK link : /\ u = [kind |-> u.kind, anchor |-> u.anchor, signers |-> u.signers, chain |-> <<link>>]
                      /\ u.kind \in {"update", "conversation", "departure"}
                      /\ LinkForm(link, record)
      BY <3>1 DEF DelegatedForm
    <3>3. u.chain[1] = link
      BY <3>2
    <3>4. /\ u.anchor = NoAnchor /\ link.subject = identity.id /\ link.audience = [key |-> Session]
          /\ link.inWindow /\ u.signers = <<Session>> /\ RequiredAbility(u) \in link.abilities
      BY <2>5, <3>3 DEF AcceptedForDelegate
    <3>5. link.subject # OtherInception.id
      BY <2>1, <3>4, OtherIsAnother DEF HolderInvariant, SoundHolder
    <3>6. link.anchor = record.anchor /\ link.signers = record.signers
      BY <3>2, <3>5 DEF LinkForm
    <3>7. [anchor |-> link.anchor, signers |-> link.signers] \in issued
      BY <2>1, <3>6 DEF IssuedInvariant, IssuedUnder
    <3>8. u.kind = "departure" <=> "conversation/self-remove" \in link.abilities
      BY <3>2, <3>4 DEF LinkForm, RequiredAbility
    <3> QED
      BY <2>2, <3>3, <3>4, <3>7, <3>8 DEF AcceptedOnPrincipalsAuthority
  <2> QED
    BY <2>2, <2>4, <2>5
<1> QED
  BY <1>1, InitEstablishesUnit, UnitInvariantIsInductive, PTL DEF UnitSpec


(* Members who hold the same unit and look at honest views never decide it     *)
(* differently, however much of the log each has seen and whatever each can    *)
(* afford: two prefixes of one log name the same state for an anchor that both *)
(* know, and a call that runs out of its allowance decides nothing.            *)
THEOREM MembersDecideAlike == UnitSpec => []MembersAgree
<1>1. UnitInvariant => MembersAgree
  <2> SUFFICES ASSUME UnitInvariant, Decided, view = "honest", role = "member",
                      NEW n \in 1 .. Len(identity.log), NEW affords \in Allowances
               PROVE  \/ VerifyUnit(unit, HonestLog(unit, n), affords) = verdict
                      \/ IsUnitWaitReason(VerifyUnit(unit, HonestLog(unit, n), affords))
                      \/ "grant_issuer_anchor_unknown"
                             \in {verdict, VerifyUnit(unit, HonestLog(unit, n), affords)}
    BY DEF MembersAgree
  <2>1. verdict # "none" /\ ~IsUnitWaitReason(verdict)
    BY DEF Decided, Undecided
  <2>2. PICK spends : \E m \in 1 .. Len(identity.log) :
                         verdict = VerifyUnit(unit, HonestLog(unit, m), spends)
    BY <2>1 DEF UnitInvariant, JudgedHonestly
  <2>3. HolderInvariant
    BY DEF UnitInvariant, IssuedInvariant
  <2> QED
    BY <2>1, <2>2, <2>3, HonestAnswersAgree
<1> QED
  BY <1>1, UnitInvariantIsInductive, InitEstablishesUnit, PTL DEF UnitSpec

(* Good signatures of one state that use each other's keys are the same, when  *)
(* there are two of them at most.                                              *)
LEMMA OneWayToSign ==
  ASSUME NEW keys, IsSequence(keys), NEW text, NEW signers, IsSequence(signers),
         NEW others, IsSequence(others), Len(others) <= 2,
         Judgement(keys, text, Len(signers), MadeUnder(keys, signers)) = "ok",
         Judgement(keys, text, Len(others), MadeUnder(keys, others)) = "ok",
         \A i \in 1 .. Len(others) : \E j \in 1 .. Len(signers) : others[i] = signers[j]
  PROVE  others = signers
<1>1. ASSUME NEW s, IsSequence(s), Judgement(keys, text, Len(s), MadeUnder(keys, s)) = "ok"
      PROVE  /\ CheckKeyState(keys, text) = "ok"
             /\ Len(s) = text
             /\ \E choice \in [1 .. text -> 1 .. Len(keys)] :
                   /\ Increasing(choice)
                   /\ \A i \in 1 .. text : keys[choice[i]] = s[i]
  BY ONLY IsSequence(keys), <1>1, JudgedGood
<1>3. Distinct(keys) /\ text \in 1 .. Len(keys) /\ Len(keys) \in Nat
  BY <1>1, SoundState DEF IsSequence
<1>4. PICK c \in [1 .. text -> 1 .. Len(keys)] :
         Increasing(c) /\ \A i \in 1 .. text : keys[c[i]] = signers[i]
  BY <1>1
<1>5. PICK d \in [1 .. text -> 1 .. Len(keys)] :
         Increasing(d) /\ \A i \in 1 .. text : keys[d[i]] = others[i]
  BY <1>1
<1>6. \A i \in 1 .. text : \E j \in 1 .. text : d[i] = c[j]
  <2> SUFFICES ASSUME NEW i \in 1 .. text PROVE \E j \in 1 .. text : d[i] = c[j]
    OBVIOUS
  <2>1. PICK j \in 1 .. text : others[i] = signers[j]
    BY <1>1
  <2>2. keys[d[i]] = keys[c[j]] /\ d[i] \in 1 .. Len(keys) /\ c[j] \in 1 .. Len(keys)
    BY <1>4, <1>5, <2>1
  <2> QED
    BY <1>3, <2>2 DEF Distinct
<1>7. text \in {1, 2}
  BY <1>1, <1>3
<1>8. \A i \in 1 .. text : d[i] = c[i]
  <2>1. CASE text = 1
    BY <1>6, <2>1
  <2>2. CASE text = 2
    <3>1. c[1] < c[2] /\ d[1] < d[2]
      BY <1>4, <1>5, <2>2 DEF Increasing
    <3>2. /\ d[1] \in {c[1], c[2]} /\ d[2] \in {c[1], c[2]}
          /\ c[1] \in Nat /\ c[2] \in Nat /\ d[1] \in Nat /\ d[2] \in Nat
      BY <1>4, <1>5, <1>6, <2>2, <1>3
    <3> QED
      BY <2>2, <3>1, <3>2
  <2> QED
    BY <1>7, <2>1, <2>2
<1>9. \A i \in 1 .. Len(others) : others[i] = signers[i]
  BY <1>1, <1>4, <1>5, <1>8
<1> QED
  BY <1>1, <1>9, SameSequence

LEMMA EditFacts ==
  ASSUME NEW u, NEW link,
         u = [kind |-> u.kind, anchor |-> u.anchor, signers |-> u.signers, chain |-> link],
         NEW edit \in UnitEdits(u)
  PROVE  /\ edit.anchor = u.anchor /\ edit.chain \in {u.chain, NoChain}
         /\ IsSequence(edit.signers) /\ Len(edit.signers) <= 2
         /\ \A k \in 1 .. Len(edit.signers) : edit.signers[k] \in ToSet(u.signers) \cup {Outside}
         /\ edit.signers = u.signers /\ edit.chain = u.chain => edit = u
<1>1. PICK s \in SignaturesOf(u) : \E c \in {u.chain, NoChain} : edit = Edit(u, s, c)
  BY DEF UnitEdits
<1>2. PICK c \in {u.chain, NoChain} : edit = Edit(u, s, c)
  BY <1>1
<1>3. PICK n \in 0 .. 2 : s \in [1 .. n -> ToSet(u.signers) \cup {Outside}]
  BY <1>1 DEF SignaturesOf
<1>4. edit = [kind |-> u.kind, anchor |-> u.anchor, signers |-> s, chain |-> c]
  BY <1>2 DEF Edit
<1>5. Len(s) = n /\ IsSequence(s) /\ \A k \in 1 .. n : s[k] \in ToSet(u.signers) \cup {Outside}
  <2>1. s \in Seq(ToSet(u.signers) \cup {Outside})
    BY <1>3
  <2> QED
    BY <1>3, <2>1, MembersOfSeq
<1>6. edit.anchor = u.anchor /\ edit.signers = s /\ edit.chain = c /\ u.chain = link
  BY <1>4
<1>7. edit.signers = u.signers /\ edit.chain = u.chain => edit = u
  BY <1>4, <1>6
<1> QED
  BY <1>2, <1>3, <1>5, <1>6, <1>7

(* Of what a view that answers with a prefix of the principal's log makes of an *)
(* edit: accepted, it is accepted as any unit is.                               *)
LEMMA EditAccepted ==
  ASSUME HolderInvariant, seen \in 1 .. Len(identity.log), NEW edit,
         VerifyUnit(edit, HonestLog(edit, seen), allowance) = "valid"
  PROVE  AcceptedForOwner(edit) \/ AcceptedForDelegate(edit)
<1>1. HonestLog(edit, seen) \in {SubSeq(identity.log, 1, seen), <<OtherInception>>}
  BY DEF HonestLog
<1> QED
  BY <1>1, VerdictSaysWhy

(* A logical change has one accepted unit ("records are idempotent by          *)
(* digest"): signatures under a state of the log are made by distinct keys in  *)
(* the order of the keys, and the two modes exclude each other.                *)
THEOREM ChangesHaveOneUnit == UnitSpec => []OneAcceptedSpelling
<1>1. UnitInvariant => OneAcceptedSpelling
  <2> SUFFICES ASSUME UnitInvariant, verdict = "valid", NEW u, u = unit,
                      NEW edit \in UnitEdits(u),
                      VerifyUnit(edit, HonestLog(edit, seen), allowance) = "valid"
               PROVE  edit = u
    BY DEF OneAcceptedSpelling
  <2>1. IssuedInvariant /\ HolderInvariant /\ unit # NoUnit /\ seen \in 1 .. Len(identity.log)
    BY DEF UnitInvariant, IssuedInvariant
  <2>2. AcceptedForOwner(u) \/ AcceptedForDelegate(u)
    BY DEF UnitInvariant
  <2>3. PICK record \in issued : OwnerForm(u, record) \/ DelegatedForm(u, record)
    BY <2>1 DEF UnitInvariant, ReceivedForm
  <2>4. AcceptedForOwner(edit) \/ AcceptedForDelegate(edit)
    BY <2>1, EditAccepted
  <2>5. PICK link : u = [kind |-> u.kind, anchor |-> u.anchor, signers |-> u.signers, chain |-> link]
    BY <2>3 DEF OwnerForm, DelegatedForm
  <2>6. /\ edit.anchor = u.anchor /\ edit.chain \in {u.chain, NoChain}
        /\ IsSequence(edit.signers) /\ Len(edit.signers) <= 2
        /\ \A k \in 1 .. Len(edit.signers) : edit.signers[k] \in ToSet(u.signers) \cup {Outside}
        /\ edit.signers = u.signers /\ edit.chain = u.chain => edit = u
    BY <2>5, EditFacts
  <2>7. CASE AcceptedForDelegate(u)
    BY <2>4, <2>6, <2>7 DEF AcceptedForDelegate, AcceptedForOwner
  <2>8. CASE AcceptedForOwner(u)
    <3>1. OwnerForm(u, record)
      BY <2>3, <2>8 DEF AcceptedForOwner, DelegatedForm, NoChain
    <3>2. IsSequence(u.signers)
      BY <2>1, <2>8, <3>1, OwnersRecordIsIssued
    <3>3. AcceptedForOwner(edit) /\ edit.chain = u.chain
      BY <2>4, <2>6, <2>8 DEF AcceptedForDelegate, AcceptedForOwner
    <3>4. PICK i \in 1 .. Len(identity.log) :
             /\ u.anchor = EventDigest(identity.log[i])
             /\ Judgement(identity.log[i].keys, identity.log[i].threshold, Len(u.signers),
                          MadeUnder(identity.log[i].keys, u.signers)) = "ok"
      BY <2>8 DEF AcceptedForOwner
    <3>5. PICK j \in 1 .. Len(identity.log) :
             /\ edit.anchor = EventDigest(identity.log[j])
             /\ Judgement(identity.log[j].keys, identity.log[j].threshold, Len(edit.signers),
                          MadeUnder(identity.log[j].keys, edit.signers)) = "ok"
      BY <3>3 DEF AcceptedForOwner
    <3>6. identity.log[j] = identity.log[i]
      BY <2>6, <3>4, <3>5, DigestNamesEvent
    <3> DEFINE keys == identity.log[i].keys
               text == identity.log[i].threshold
    <3>7. IsSequence(keys)
      BY <2>1 DEF HolderInvariant, SoundHolder, Chain, WholeEvent
    <3>8. /\ Judgement(keys, text, Len(u.signers), MadeUnder(keys, u.signers)) = "ok"
          /\ Judgement(keys, text, Len(edit.signers), MadeUnder(keys, edit.signers)) = "ok"
      BY <3>4, <3>5, <3>6
    <3>9. \A k \in 1 .. Len(edit.signers) : edit.signers[k] # Outside
      BY <2>1, <2>6, <3>8, GoodSignaturesAreOwn
    <3>10. \A k \in 1 .. Len(edit.signers) : \E m \in 1 .. Len(u.signers) : edit.signers[k] = u.signers[m]
      <4>1. DOMAIN u.signers = 1 .. Len(u.signers)
        BY <3>2, SequenceFacts
      <4> QED
        BY <2>6, <3>9, <4>1 DEF ToSet
    <3> HIDE DEF keys, text
    <3>11. edit.signers = u.signers
      BY <2>6, <3>2, <3>7, <3>8, <3>10, OneWayToSign
    <3> QED
      BY <2>6, <3>3, <3>11
  <2> QED
    BY <2>2, <2>7, <2>8
<1> QED
  BY <1>1, InitEstablishesUnit, UnitInvariantIsInductive, PTL DEF UnitSpec

(* The verifier of units only reads what the principal does, so the theorem on *)
(* records holds beside it.                                                    *)
LEMMA UnitsOverIssuing == UnitSpec => IssuingSpec
<1>1. UnitInit => IssuingInit
  BY DEF UnitInit
<1>2. [UnitNext]_unitVars => [IssuingNext]_issuingVars
  BY DEF UnitNext, Principal, Receive, CatchUp, LearnRevocation, Judge, unitVars, IssuingNext
<1> QED
  BY <1>1, <1>2, PTL DEF UnitSpec, IssuingSpec

(* As the units are judged, no verdict on a record of the principal changes.   *)
COROLLARY UnitVerdictsAreFinal == UnitSpec => VerdictsAreFinal
<1> QED
  BY UnitsOverIssuing, VerdictsOnRecordsAreFinal

-------------------------------------------------------------------------------
(* Where two chains meet and where they part.                                  *)
LEMMA LeastMember ==
  ASSUME NEW S, S \subseteq Nat, S # {}
  PROVE  \E least \in S : \A n \in S : least <= n
<1>1. PICK least \in S : \A n \in S : ~(<<n, least>> \in OpToRel(<, Nat))
  BY WFMin, NatLessThanWellFounded
<1>2. \A n \in S : ~(n < least)
  BY <1>1 DEF OpToRel
<1> QED
  BY <1>2

LEMMA SequenceNumbers ==
  ASSUME NEW log, Chain(log)
  PROVE  \A i \in 1 .. Len(log) : log[i].seq = i - 1
<1>1. Len(log) \in Nat /\ Len(log) >= 1
  BY DEF Chain, IsSequence
<1> DEFINE S == {i \in 1 .. Len(log) : log[i].seq # i - 1}
<1>2. CASE S = {}
  BY <1>2
<1>3. CASE S # {}
  <2>1. PICK i \in S : \A n \in S : i <= n
    <3>1. S \subseteq Nat
      BY <1>1
    <3> HIDE DEF S
    <3> QED
      BY <1>3, <3>1, LeastMember
  <2>2. log[1].seq = 0
    BY DEF Chain, InceptionReplays
  <2>3. i \in 2 .. Len(log) /\ i - 1 \in 1 .. Len(log) /\ i - 1 \notin S
    BY <1>1, <2>1, <2>2
  <2>4. log[i].seq = log[i - 1].seq + 1
    BY <2>3 DEF Chain, RotationReplays
  <2>5. log[i - 1].seq = i - 2
    BY <2>3
  <2> QED
    BY <1>1, <2>1, <2>3, <2>4, <2>5
<1> QED
  BY <1>2, <1>3

(* An event names the one before it, and so on to the first: chains that share *)
(* an event share all that leads to it.                                        *)
LEMMA ChainsMeetOnce ==
  ASSUME NEW log, NEW other, Chain(log), Chain(other),
         NEW n \in 1 .. Len(log), n <= Len(other), log[n] = other[n]
  PROVE  \A j \in 1 .. n : log[j] = other[j]
<1>1. Len(log) \in Nat /\ Len(other) \in Nat
  BY DEF Chain, IsSequence
<1> DEFINE S == {k \in 0 .. n - 1 : log[n - k] # other[n - k]}
<1>2. CASE S = {}
  <2> SUFFICES ASSUME NEW j \in 1 .. n PROVE log[j] = other[j]
    OBVIOUS
  <2>1. n - j \in 0 .. n - 1 /\ n - (n - j) = j
    BY <1>1
  <2> QED
    BY <1>2, <2>1
<1>3. CASE S # {}
  <2>1. S \subseteq Nat
    BY <1>1
  <2>2. PICK k \in S : \A m \in S : k <= m
    BY <1>3, <2>1, LeastMember
  <2> DEFINE i == n - k + 1
  <2>3. k >= 1 /\ k - 1 \in 0 .. n - 1 /\ k - 1 \notin S /\ n - (k - 1) = i
    BY <1>1, <2>2
  <2>4. i \in 2 .. Len(log) /\ i \in 2 .. Len(other) /\ i - 1 = n - k
    BY <1>1, <2>3
  <2>5. log[i] = other[i]
    BY <2>3
  <2> HIDE DEF i
  <2>6. log[i].prior = EventDigest(log[i - 1]) /\ other[i].prior = EventDigest(other[i - 1])
    BY <2>4 DEF Chain, RotationReplays
  <2>7. log[i - 1] = other[i - 1]
    BY <2>5, <2>6, DigestNamesEvent
  <2> QED
    BY <2>2, <2>4, <2>7
<1> QED
  BY <1>2, <1>3

(* Where a log parts from the holder's.                                        *)
LEMMA PartingFacts ==
  ASSUME NEW log, Chain(log), Chain(identity.log), ~IsPrefix(log, identity.log)
  PROVE  /\ Parting(log) \in 1 .. Len(log)
         /\ \A j \in 1 .. Parting(log) - 1 : j <= Len(identity.log) /\ log[j] = identity.log[j]
         /\ Parting(log) > Len(identity.log) \/ log[Parting(log)] # identity.log[Parting(log)]
<1>1. Len(log) \in Nat /\ Len(identity.log) \in Nat /\ IsSequence(log) /\ IsSequence(identity.log)
  BY DEF Chain, IsSequence
<1> DEFINE S == {i \in 1 .. Len(log) : i > Len(identity.log) \/ log[i] # identity.log[i]}
<1>2. S # {}
  <2>1. ~(Len(log) <= Len(identity.log) /\ \A i \in 1 .. Len(log) : log[i] = identity.log[i])
    BY <1>1, PrefixFacts
  <2>2. CASE ~(Len(log) <= Len(identity.log))
    BY <1>1, <2>2
  <2>3. CASE ~(\A i \in 1 .. Len(log) : log[i] = identity.log[i])
    BY <2>3
  <2> QED
    BY <2>1, <2>2, <2>3
<1>3. PICK least \in S : \A n \in S : least <= n
  <2>1. S \subseteq Nat
    BY <1>1
  <2> HIDE DEF S
  <2> QED
    BY <1>2, <2>1, LeastMember
<1>4. \A j \in 1 .. least - 1 : j <= Len(identity.log) /\ log[j] = identity.log[j]
  <2> SUFFICES ASSUME NEW j \in 1 .. least - 1
               PROVE  j <= Len(identity.log) /\ log[j] = identity.log[j]
    OBVIOUS
  <2>1. j \in 1 .. Len(log) /\ j \notin S
    BY <1>1, <1>3
  <2> QED
    BY <1>1, <2>1
<1>5. \E i \in 1 .. Len(log) :
         /\ \A j \in 1 .. i - 1 : j <= Len(identity.log) /\ log[j] = identity.log[j]
         /\ i > Len(identity.log) \/ log[i] # identity.log[i]
  BY <1>3, <1>4
<1> QED
  BY <1>5 DEF Parting

-------------------------------------------------------------------------------
(* Who may continue a log.  Of the log a verifier accepted last, every event   *)
(* is the holder's, with all that leads to it, or is signed with keys others   *)
(* hold; and the holder's last event is committed to a state somebody staged.  *)
SharedUpTo(log, i) ==
    /\ i <= Len(identity.log)
    /\ \A j \in 1 .. i : log[j] = identity.log[j]

ByOthers(event) == \A k \in 1 .. Len(event.signers) : event.signers[k] \in held \cup {Outside}

AcceptedInvariant ==
    /\ held \subseteq 1 .. MaxMinted
    /\ Chain(accepted)
    /\ Len(accepted) <= MaxEvents
    /\ accepted[1].id = InceptionEvent.id
    /\ \A i \in 1 .. Len(accepted) : SharedUpTo(accepted, i) \/ ByOthers(accepted[i])

SuccessionInvariant ==
    /\ HolderInvariant
    /\ AcceptedInvariant
    /\ heir = NoHeir => identity.nextKeys # << >>

LEMMA ListsFacts ==
  ASSUME NEW S, NEW list \in Lists(S)
  PROVE  IsSequence(list) /\ \A k \in 1 .. Len(list) : list[k] \in S
<1>1. list \in Seq(S)
  <2>1. CASE \E k \in S : list = <<k>>
    BY <2>1
  <2>2. CASE \E k, l \in S : list = <<k, l>>
    BY <2>2
  <2> QED
    BY <2>1, <2>2 DEF Lists
<1> QED
  BY <1>1, MembersOfSeq

(* The holder's own steps only lengthen what is shared.                        *)
LEMMA HolderStepKeepsAccepted ==
  ASSUME HolderInvariant, HolderInvariant', AcceptedInvariant,
         Continues(identity.log, identity'.log), UNCHANGED <<held, accepted>>
  PROVE  AcceptedInvariant'
<1>1. Len(identity.log) \in Nat /\ Len(identity'.log) \in Nat /\ Len(accepted) \in Nat
  BY DEF HolderInvariant, SoundHolder, AcceptedInvariant, Chain, IsSequence
<1>2. ASSUME NEW i \in 1 .. Len(accepted), SharedUpTo(accepted, i)
      PROVE  SharedUpTo(accepted, i)'
  <2>1. i <= Len(identity'.log)
    BY <1>1, <1>2 DEF SharedUpTo, Continues
  <2>2. ASSUME NEW j \in 1 .. i PROVE accepted[j] = identity'.log[j]
    <3>1. j \in 1 .. Len(identity.log) /\ accepted[j] = identity.log[j]
      BY <1>1, <1>2 DEF SharedUpTo
    <3> QED
      BY <3>1 DEF Continues
  <2> QED
    BY <2>1, <2>2 DEF SharedUpTo
<1>3. ASSUME NEW i \in 1 .. Len(accepted), ByOthers(accepted[i])
      PROVE  ByOthers(accepted[i])'
  BY <1>3 DEF ByOthers
<1>4. \A i \in 1 .. Len(accepted) : SharedUpTo(accepted, i)' \/ ByOthers(accepted[i])'
  BY <1>2, <1>3 DEF AcceptedInvariant
<1> QED
  BY <1>4 DEF AcceptedInvariant

(* What is accepted is a chain of events that are shared or signed by others.  *)
LEMMA AcceptKeepsAccepted ==
  ASSUME HolderInvariant, AcceptedInvariant, NEW log, Accept(log), IsSequence(log),
         \A i \in 1 .. Len(log) : WholeEvent(log[i]),
         \A i \in 1 .. Len(log) : SharedUpTo(log, i) \/ ByOthers(log[i])
  PROVE  AcceptedInvariant'
<1>1. accepted' = log /\ UNCHANGED <<identity, held>>
  BY DEF Accept, holderVars
<1>2. Chain(log) /\ Len(log) <= MaxEvents /\ log[1].id = InceptionEvent.id
  BY KeyLogAssumption DEF Accept, ReplaysFor, Replays, Chain, HolderInvariant, SoundHolder
<1>3. ASSUME NEW i \in 1 .. Len(log) PROVE (SharedUpTo(log, i) \/ ByOthers(log[i]))'
  BY <1>1 DEF SharedUpTo, ByOthers
<1>4. \A i \in 1 .. Len(log) : SharedUpTo(log, i)' \/ ByOthers(log[i])'
  BY <1>3
<1> QED
  BY <1>1, <1>2, <1>4 DEF AcceptedInvariant

(* The logs others start from.                                                 *)
LEMMA BasesFacts ==
  ASSUME HolderInvariant, AcceptedInvariant,
         NEW base \in Bases(identity.log) \cup Bases(accepted)
  PROVE  /\ IsSequence(base) /\ Len(base) >= 1
         /\ \A i \in 1 .. Len(base) : WholeEvent(base[i])
         /\ \A i \in 1 .. Len(base) : SharedUpTo(base, i) \/ ByOthers(base[i])
<1>1. ASSUME NEW log, IsSequence(log), base \in Bases(log)
      PROVE  /\ IsSequence(base) /\ Len(base) \in 1 .. Len(log) /\ Len(log) \in Nat
             /\ \A i \in 1 .. Len(base) : base[i] = log[i]
  <2>1. PICK n \in 0 .. Len(log) : base = SubSeq(log, 1, n) /\ base # << >>
    BY <1>1 DEF Bases, Prefixes
  <2>2. IsSequence(base) /\ Len(base) = n /\ \A i \in 1 .. n : base[i] = log[i]
    BY <1>1, <2>1, SubSeqFacts
  <2>3. n # 0
    <3>1. IsSequence(<< >>)
      BY DEF IsSequence
    <3> QED
      BY <2>1, <2>2, <3>1, SameSequence
  <2>4. Len(log) \in Nat
    BY <1>1 DEF IsSequence
  <2> QED
    BY <2>2, <2>3, <2>4
<1>2. CASE base \in Bases(identity.log)
  <2>1. Chain(identity.log) /\ IsSequence(identity.log)
    BY DEF HolderInvariant, SoundHolder, Chain
  <2>2. /\ IsSequence(base) /\ Len(base) \in 1 .. Len(identity.log) /\ Len(identity.log) \in Nat
        /\ \A i \in 1 .. Len(base) : base[i] = identity.log[i]
    BY <1>1, <1>2, <2>1
  <2>3. \A i \in 1 .. Len(base) : SharedUpTo(base, i)
    BY <2>2 DEF SharedUpTo
  <2>4. \A i \in 1 .. Len(base) : WholeEvent(base[i])
    BY <2>1, <2>2 DEF Chain
  <2> QED
    BY <2>2, <2>3, <2>4
<1>3. CASE base \in Bases(accepted)
  <2>1. Chain(accepted) /\ IsSequence(accepted)
    BY DEF AcceptedInvariant, Chain
  <2>2. /\ IsSequence(base) /\ Len(base) \in 1 .. Len(accepted) /\ Len(accepted) \in Nat
        /\ \A i \in 1 .. Len(base) : base[i] = accepted[i]
    BY <1>1, <1>3, <2>1
  <2>3. ASSUME NEW i \in 1 .. Len(base) PROVE SharedUpTo(base, i) \/ ByOthers(base[i])
    <3>1. SharedUpTo(accepted, i) \/ ByOthers(accepted[i])
      BY <2>2 DEF AcceptedInvariant
    <3>2. SharedUpTo(accepted, i) => SharedUpTo(base, i)
      BY <2>2 DEF SharedUpTo
    <3> QED
      BY <2>2, <3>1, <3>2
  <2>4. \A i \in 1 .. Len(base) : WholeEvent(base[i])
    BY <2>1, <2>2 DEF Chain
  <2> QED
    BY <2>2, <2>3, <2>4
<1> QED
  BY <1>2, <1>3

LEMMA ExtensionFacts ==
  ASSUME NEW base, IsSequence(base), Len(base) >= 1, NEW event, WholeEvent(event),
         \A i \in 1 .. Len(base) : WholeEvent(base[i]),
         NEW log, log = Append(base, event)
  PROVE  /\ IsSequence(log) /\ Len(log) = Len(base) + 1
         /\ Len(log) \in 1 .. Len(log) /\ log[Len(log)] = event
         /\ \A i \in 1 .. Len(base) : log[i] = base[i]
         /\ \A i \in 1 .. Len(log) : WholeEvent(log[i])
<1>1. Len(base) \in Nat
  BY DEF IsSequence
<1>2. /\ IsSequence(log) /\ Len(log) = Len(base) + 1
      /\ log[Len(base) + 1] = event /\ \A i \in 1 .. Len(base) : log[i] = base[i]
  BY AppendFacts
<1>3. \A i \in 1 .. Len(log) : i \in 1 .. Len(base) \/ i = Len(base) + 1
  BY <1>1, <1>2
<1> QED
  BY <1>1, <1>2, <1>3

LEMMA RotationKeepsAccepted ==
  ASSUME HolderInvariant, AcceptedInvariant, PresentRotation
  PROVE  AcceptedInvariant'
<1>1. PICK base \in Bases(identity.log) \cup Bases(accepted) :
         \E keys \in Lists(1 .. minted \cup {Outside}), text \in {Malformed, 1, 2},
            signers \in Lists(Usable) :
            Accept(Append(base, ForeignRotation(base, keys, text, signers)))
  BY DEF PresentRotation
<1>2. PICK keys \in Lists(1 .. minted \cup {Outside}), text \in {Malformed, 1, 2},
           signers \in Lists(Usable) :
         Accept(Append(base, ForeignRotation(base, keys, text, signers)))
  BY <1>1
<1> DEFINE event == ForeignRotation(base, keys, text, signers)
           log == Append(base, event)
<1>3. event.keys = keys /\ event.signers = signers
  BY DEF ForeignRotation
<1>4. IsSequence(keys) /\ IsSequence(signers) /\ \A k \in 1 .. Len(signers) : signers[k] \in Usable
  BY ListsFacts
<1>5. WholeEvent(event) /\ ByOthers(event)
  BY <1>3, <1>4 DEF WholeEvent, ByOthers, Usable
<1>6. /\ IsSequence(base) /\ Len(base) >= 1
      /\ \A i \in 1 .. Len(base) : WholeEvent(base[i])
      /\ \A i \in 1 .. Len(base) : SharedUpTo(base, i) \/ ByOthers(base[i])
  BY BasesFacts
<1> HIDE DEF event
<1>7. /\ IsSequence(log) /\ Len(log) = Len(base) + 1
      /\ Len(log) \in 1 .. Len(log) /\ log[Len(log)] = event
      /\ \A i \in 1 .. Len(base) : log[i] = base[i]
      /\ \A i \in 1 .. Len(log) : WholeEvent(log[i])
  BY <1>5, <1>6, ExtensionFacts
<1>8. Accept(log)
  BY <1>2 DEF event
<1> HIDE DEF log
<1>9. ASSUME NEW i \in 1 .. Len(log) PROVE SharedUpTo(log, i) \/ ByOthers(log[i])
  <2>1. Len(base) \in Nat
    BY <1>6 DEF IsSequence
  <2>2. CASE i = Len(log)
    BY <1>5, <1>7, <2>2
  <2>3. CASE i \in 1 .. Len(base)
    <3>1. SharedUpTo(base, i) => SharedUpTo(log, i)
      BY <1>7, <2>1, <2>3 DEF SharedUpTo
    <3> QED
      BY <1>6, <1>7, <2>3, <3>1
  <2> QED
    BY <1>7, <2>1, <2>2, <2>3
<1> QED
  BY <1>7, <1>8, <1>9, AcceptKeepsAccepted

(* An event of the holder's replays where it stood, and nowhere else.          *)
LEMMA ReorderingKeepsAccepted ==
  ASSUME HolderInvariant, AcceptedInvariant, PresentReordered
  PROVE  AcceptedInvariant'
<1>1. Chain(identity.log) /\ IsSequence(identity.log) /\ Len(identity.log) \in Nat
      /\ DOMAIN identity.log = 1 .. Len(identity.log)
  BY SequenceFacts DEF HolderInvariant, SoundHolder, Chain
<1>2. PICK base \in Bases(identity.log) \cup Bases(accepted), m \in 1 .. Len(identity.log) :
         Accept(Append(base, identity.log[m]))
  BY <1>1 DEF PresentReordered
<1> DEFINE event == identity.log[m]
           log == Append(base, event)
<1>3. WholeEvent(event)
  BY <1>1 DEF Chain
<1>4. /\ IsSequence(base) /\ Len(base) >= 1
      /\ \A i \in 1 .. Len(base) : WholeEvent(base[i])
  BY BasesFacts
<1>5. Accept(log)
  BY <1>2
<1> HIDE DEF event
<1>6. /\ IsSequence(log) /\ Len(log) \in 1 .. Len(log) /\ log[Len(log)] = event
      /\ \A i \in 1 .. Len(log) : WholeEvent(log[i])
  BY <1>3, <1>4, ExtensionFacts
<1> HIDE DEF log
<1>7. Chain(log)
  BY <1>5, <1>6, KeyLogAssumption DEF Accept, ReplaysFor, Replays, Chain
<1>8. Len(log) = m
  <2>1. log[Len(log)].seq = Len(log) - 1
    BY <1>6, <1>7, SequenceNumbers
  <2>2. event.seq = m - 1
    BY <1>1, SequenceNumbers DEF event
  <2>3. Len(log) \in Nat /\ m \in Nat
    BY <1>1, <1>6
  <2> QED
    BY <1>6, <2>1, <2>2, <2>3
<1>9. \A j \in 1 .. Len(log) : log[j] = identity.log[j]
  <2>1. log[Len(log)] = identity.log[Len(log)] /\ Len(log) <= Len(identity.log)
    BY <1>1, <1>6, <1>8 DEF event
  <2> QED
    BY <1>1, <1>6, <1>7, <2>1, ChainsMeetOnce
<1>10. \A i \in 1 .. Len(log) : SharedUpTo(log, i)
  BY <1>1, <1>6, <1>8, <1>9 DEF SharedUpTo
<1> QED
  BY <1>5, <1>6, <1>10, AcceptKeepsAccepted

LEMMA InceptionKeepsAccepted ==
  ASSUME HolderInvariant, AcceptedInvariant, PresentInception
  PROVE  AcceptedInvariant'
<1>1. PICK keys \in Lists({1, Outside}), text \in {1, 2}, signers \in Lists(Usable),
           next \in {CommitToKeyState(<<Outside>>, 1), identity.log[1].next} :
         Accept(<<ForeignInception(keys, text, next, signers)>>)
  BY DEF PresentInception
<1> DEFINE event == ForeignInception(keys, text, next, signers)
           log == <<event>>
<1>2. event.keys = keys /\ event.signers = signers
  BY DEF ForeignInception
<1>3. IsSequence(keys) /\ IsSequence(signers) /\ \A k \in 1 .. Len(signers) : signers[k] \in Usable
  BY ListsFacts
<1>4. WholeEvent(event) /\ ByOthers(event)
  BY <1>2, <1>3 DEF WholeEvent, ByOthers, Usable
<1>5. Accept(log)
  BY <1>1
<1> HIDE DEF event
<1>6. IsSequence(log) /\ Len(log) = 1 /\ log[1] = event
  BY DEF IsSequence
<1> HIDE DEF log
<1> QED
  BY <1>4, <1>5, <1>6, AcceptKeepsAccepted

(* The initial state, and every step of the holder and of the others.          *)
LEMMA InitEstablishesSuccession == Init => SuccessionInvariant
<1> SUFFICES ASSUME Init PROVE SuccessionInvariant
  OBVIOUS
<1>1. HolderInvariant /\ identity.nextKeys # << >> /\ accepted = identity.log /\ held = {}
  BY CreatedIdentity DEF Init
<1>2. /\ Chain(identity.log) /\ Len(identity.log) = 1 /\ identity.log[1].id = InceptionEvent.id
  BY <1>1, CreatedIdentity DEF Init, HolderInvariant, SoundHolder
<1>3. \A i \in 1 .. Len(accepted) : SharedUpTo(accepted, i)
  BY <1>1, <1>2 DEF SharedUpTo
<1> QED
  BY <1>1, <1>2, <1>3, KeyLogAssumption DEF SuccessionInvariant, AcceptedInvariant

LEMMA SuccessionIsInductive ==
  ASSUME SuccessionInvariant, [Next]_vars
  PROVE  SuccessionInvariant'
<1>1. HolderInvariant /\ AcceptedInvariant
  BY DEF SuccessionInvariant
<1>2. CASE HolderStep(Shapes) /\ UNCHANGED <<held, accepted>>
  <2>1. /\ HolderInvariant' /\ Continues(identity.log, identity'.log)
        /\ heir' = NoHeir => identity'.nextKeys # << >>
    BY <1>1, <1>2, HolderStepKeepsInvariant, KeyLogAssumption
  <2> QED
    BY <1>1, <1>2, <2>1, HolderStepKeepsAccepted DEF SuccessionInvariant
<1>3. ASSUME UNCHANGED holderVars
      PROVE  HolderInvariant' /\ (heir' = NoHeir => identity'.nextKeys # << >>)
  <2>1. UNCHANGED <<identity, heir, minted>>
    BY <1>3 DEF holderVars
  <2> QED
    BY <1>1, <2>1 DEF SuccessionInvariant, HolderInvariant, SoundHolder, OwnKeys, HeirIsCommitted
<1>4. CASE LoseKey
  <2>1. UNCHANGED holderVars /\ accepted' = accepted /\ held \subseteq held'
        /\ held' \subseteq 1 .. MaxMinted
    BY <1>1, <1>4, KeyLogAssumption DEF LoseKey, HolderInvariant, AcceptedInvariant
  <2>2. ASSUME NEW i \in 1 .. Len(accepted) PROVE SharedUpTo(accepted, i)' \/ ByOthers(accepted[i])'
    <3>1. SharedUpTo(accepted, i) \/ ByOthers(accepted[i])
      BY <1>1 DEF AcceptedInvariant
    <3> QED
      BY <2>1, <3>1 DEF SharedUpTo, ByOthers, holderVars
  <2>3. AcceptedInvariant'
    BY <1>1, <2>1, <2>2 DEF AcceptedInvariant
  <2> QED
    BY <1>3, <2>1, <2>3 DEF SuccessionInvariant
<1>5. CASE PresentRotation
  <2>1. UNCHANGED holderVars
    BY <1>5 DEF PresentRotation, Accept
  <2> QED
    BY <1>1, <1>3, <1>5, <2>1, RotationKeepsAccepted DEF SuccessionInvariant
<1>6. CASE PresentReordered
  <2>1. UNCHANGED holderVars
    BY <1>6 DEF PresentReordered, Accept
  <2> QED
    BY <1>1, <1>3, <1>6, <2>1, ReorderingKeepsAccepted DEF SuccessionInvariant
<1>7. CASE PresentInception
  <2>1. UNCHANGED holderVars
    BY <1>7 DEF PresentInception, Accept
  <2> QED
    BY <1>1, <1>3, <1>7, <2>1, InceptionKeepsAccepted DEF SuccessionInvariant
<1>8. CASE UNCHANGED vars
  <2>1. UNCHANGED <<identity, heir, minted, held, accepted>> /\ UNCHANGED holderVars
    BY <1>8 DEF vars, holderVars
  <2>2. AcceptedInvariant'
    BY <1>1, <2>1 DEF AcceptedInvariant, SharedUpTo, ByOthers
  <2> QED
    BY <1>3, <2>1, <2>2 DEF SuccessionInvariant
<1> QED
  BY <1>2, <1>4, <1>5, <1>6, <1>7, <1>8 DEF Next

(* Good signatures made with keys that others hold take a quorum of them.      *)
LEMMA GoodSignaturesTakeAQuorum ==
  ASSUME held \subseteq 1 .. MaxMinted, NEW keys, IsSequence(keys), NEW text,
         NEW signers, IsSequence(signers),
         Judgement(keys, text, Len(signers), MadeUnder(keys, signers)) = "ok",
         \A k \in 1 .. Len(signers) : signers[k] \in held \cup {Outside},
         \A k \in 1 .. Len(keys) : keys[k] # Outside
  PROVE  QuorumHeld(keys, text)
<1>1. /\ CheckKeyState(keys, text) = "ok"
      /\ Len(signers) = text
      /\ \E choice \in [1 .. text -> 1 .. Len(keys)] :
            /\ Increasing(choice)
            /\ \A i \in 1 .. text : keys[choice[i]] = signers[i]
  BY ONLY IsSequence(keys), IsSequence(signers),
          Judgement(keys, text, Len(signers), MadeUnder(keys, signers)) = "ok", JudgedGood
<1>2. Distinct(keys) /\ text \in 1 .. Len(keys) /\ Len(keys) \in Nat
  BY <1>1, SoundState DEF IsSequence
<1>3. PICK choice \in [1 .. text -> 1 .. Len(keys)] :
         Increasing(choice) /\ \A i \in 1 .. text : keys[choice[i]] = signers[i]
  BY <1>1
<1> DEFINE signer == [i \in 1 .. text |-> keys[choice[i]]]
           T == held \cap ToSet(keys)
<1>4. signer \in [1 .. text -> T]
  <2> SUFFICES ASSUME NEW i \in 1 .. text PROVE keys[choice[i]] \in T
    OBVIOUS
  <2>1. choice[i] \in 1 .. Len(keys)
    BY <1>3
  <2>2. keys[choice[i]] \in held
    BY <1>1, <1>3, <2>1
  <2>3. DOMAIN keys = 1 .. Len(keys)
    BY SequenceFacts
  <2> QED
    BY <2>1, <2>2, <2>3 DEF ToSet
<1>5. \A i, j \in 1 .. text : signer[i] = signer[j] => i = j
  <2> SUFFICES ASSUME NEW i \in 1 .. text, NEW j \in 1 .. text, keys[choice[i]] = keys[choice[j]]
               PROVE  i = j
    OBVIOUS
  <2>1. choice[i] \in 1 .. Len(keys) /\ choice[j] \in 1 .. Len(keys) /\ DOMAIN choice = 1 .. text
    BY <1>3
  <2>2. choice[i] = choice[j]
    BY <1>2, <2>1 DEF Distinct
  <2>3. i < j => choice[i] < choice[j]
    BY <1>3, <2>1 DEF Increasing
  <2>4. j < i => choice[j] < choice[i]
    BY <1>3, <2>1 DEF Increasing
  <2> QED
    BY <1>2, <2>1, <2>2, <2>3, <2>4
<1>6. IsFiniteSet(T)
  <2>1. IsFiniteSet(1 .. MaxMinted)
    BY FS_Interval, KeyLogAssumption
  <2> QED
    BY <2>1, FS_Subset
<1>7. Cardinality(1 .. text) = text
  BY <1>2, FS_Interval
<1> HIDE DEF signer
<1>8. signer \in Injection(1 .. text, T)
  BY <1>4, <1>5 DEF Injection, IsInjective
<1>9. Cardinality(1 .. text) <= Cardinality(T)
  BY <1>6, <1>8, FS_Injection
<1> QED
  BY <1>7, <1>9 DEF QuorumHeld

(* A log that parts from the holder's does so with an event of others, which   *)
(* reveals the state that was committed there.                                 *)
LEMMA PartingTakesAQuorum ==
  ASSUME SuccessionInvariant
  PROVE  SuccessionNeedsQuorum
<1> SUFFICES ASSUME ~IsPrefix(accepted, identity.log)
             PROVE  IF Parting(accepted) <= Len(identity.log)
                    THEN QuorumHeld(identity.log[Parting(accepted)].keys,
                                    identity.log[Parting(accepted)].threshold)
                    ELSE QuorumHeld(CommittedKeys, CommittedThreshold)
  BY DEF SuccessionNeedsQuorum
<1>1. /\ HolderInvariant /\ AcceptedInvariant
      /\ Chain(identity.log) /\ Len(identity.log) \in Nat /\ Len(identity.log) >= 1
      /\ Chain(accepted) /\ Len(accepted) \in Nat
      /\ accepted[1].id = identity.log[1].id
      /\ held \subseteq 1 .. MaxMinted
  BY DEF SuccessionInvariant, AcceptedInvariant, HolderInvariant, SoundHolder, Chain, IsSequence
<1>2. PICK i : i = Parting(accepted)
  OBVIOUS
<1>3. /\ i \in 1 .. Len(accepted)
      /\ \A j \in 1 .. i - 1 : j <= Len(identity.log) /\ accepted[j] = identity.log[j]
      /\ i > Len(identity.log) \/ accepted[i] # identity.log[i]
  BY <1>1, <1>2, PartingFacts
<1>4. ByOthers(accepted[i])
  BY <1>1, <1>3 DEF AcceptedInvariant, SharedUpTo
<1> DEFINE event == accepted[i]
<1>5. WholeEvent(event) /\ SignaturesVerify(event)
  BY <1>3, <1>1 DEF Chain, InceptionReplays, RotationReplays
<1> HIDE DEF event
<1>6. Judgement(event.keys, event.threshold, Len(event.signers), MadeUnder(event.keys, event.signers)) = "ok"
  BY <1>5, EventSignatures DEF SignaturesVerify
<1>7. ByOthers(event)
  BY <1>4 DEF event
<1>8. (\A k \in 1 .. Len(event.keys) : event.keys[k] # Outside)
      => QuorumHeld(event.keys, event.threshold)
  BY <1>1, <1>5, <1>6, <1>7, GoodSignaturesTakeAQuorum DEF WholeEvent, ByOthers
<1>9. ASSUME NEW keys, Among(keys, minted) PROVE \A k \in 1 .. Len(keys) : keys[k] # Outside
  <2>1. minted \in 0 .. MaxMinted
    BY <1>1 DEF HolderInvariant
  <2> QED
    BY <1>9, <2>1, KeyLogAssumption DEF Among
<1>10. CASE i <= Len(identity.log)
  <2>1. event.keys = identity.log[i].keys /\ event.threshold = identity.log[i].threshold
    BY <1>1, <1>3, <1>10, SameCommitmentSameState DEF event
  <2>2. Among(identity.log[i].keys, minted)
    BY <1>1, <1>3, <1>10 DEF HolderInvariant, OwnKeys
  <2> QED
    BY <1>2, <1>8, <1>9, <1>10, <2>1, <2>2
<1>11. CASE ~(i <= Len(identity.log))
  <2>1. i = Len(identity.log) + 1 /\ i \in 2 .. Len(accepted)
    BY <1>1, <1>3, <1>11
  <2>2. accepted[i - 1] = Last(identity.log)
    BY <1>1, <1>3, <2>1 DEF Last
  <2>3. CommitToKeyState(event.keys, event.threshold) = Last(identity.log).next
    BY <1>1, <2>1, <2>2 DEF Chain, RotationReplays, event
  <2>4. Staged(identity.log, CommittedKeys, CommittedThreshold) /\ Among(CommittedKeys, minted)
    <3>1. CASE heir = NoHeir
      BY <1>1, <3>1 DEF SuccessionInvariant, HolderInvariant, SoundHolder, OwnKeys,
                        CommittedKeys, CommittedThreshold
    <3>2. CASE heir # NoHeir
      BY <1>1, <3>2 DEF HolderInvariant, HeirIsCommitted, CommittedKeys, CommittedThreshold
    <3> QED
      BY <3>1, <3>2
  <2>5. event.keys = CommittedKeys /\ event.threshold = CommittedThreshold
    BY <2>3, <2>4, CommitmentNamesState DEF Staged
  <2> QED
    BY <1>2, <1>8, <1>9, <1>11, <2>4, <2>5
<1> QED
  BY <1>10, <1>11

(* A log that parts from the holder's is accepted only when others hold a      *)
(* quorum of the very state it had committed to where it parts (spec 003),     *)
(* however often the holder rotated, handed over or took over.                 *)
THEOREM SuccessionTakesAQuorum == Spec => []SuccessionNeedsQuorum
<1>1. SuccessionInvariant /\ [Next]_vars => SuccessionInvariant'
  BY SuccessionIsInductive
<1>2. SuccessionInvariant => SuccessionNeedsQuorum
  BY PartingTakesAQuorum
<1> QED
  BY <1>1, <1>2, InitEstablishesSuccession, PTL DEF Spec

-------------------------------------------------------------------------------
(* The directory.  What the holder keeps and what it saved last are both       *)
(* states a holder can go on from; a restart swaps the one for the other.      *)
HoldersInvariant ==
    /\ HolderInvariant
    /\ AcceptedInvariant
    /\ host \in {"keeps", "answers"}
    /\ host = "answers" /\ heir = NoHeir => identity.nextKeys # << >>
    /\ host = "keeps" => accepted = <<InceptionEvent>> /\ Len(identity.log) <= MaxEvents
    /\ SoundHolder(file)
    /\ OwnKeys(file, minted)
    /\ Len(file.log) <= MaxEvents
    /\ restarts \in Nat

LEMMA ContinuesIsTransitive ==
  ASSUME NEW log, NEW longer, NEW longest, Continues(log, longer), Continues(longer, longest),
         Len(log) \in Nat, Len(longer) \in Nat, Len(longest) \in Nat
  PROVE  Continues(log, longest)
<1>1. Len(log) <= Len(longest)
  BY DEF Continues
<1>2. ASSUME NEW i \in 1 .. Len(log) PROVE longest[i] = log[i]
  <2>1. i \in 1 .. Len(longer) /\ longer[i] = log[i]
    BY DEF Continues
  <2> QED
    BY <2>1 DEF Continues
<1> QED
  BY <1>1, <1>2 DEF Continues

LEMMA ContinuesItself ==
  ASSUME NEW log, Len(log) \in Nat
  PROVE  Continues(log, log)
  BY DEF Continues

(* Keys once generated are never generated again.                              *)
LEMMA MintedGrows ==
  ASSUME HolderInvariant, NEW shapes, shapes \subseteq Nat \X Int, HolderStep(shapes)
  PROVE  minted \in Nat /\ minted' \in Nat /\ minted <= minted'
<1>1. minted \in Nat
  BY KeyLogAssumption DEF HolderInvariant
<1>2. CASE TakeOver
  BY <1>1, <1>2 DEF TakeOver
<1>3. CASE \E shape \in shapes : Rotate(shape[1], shape[2]) \/ HandOver(shape[1], shape[2])
  <2>1. PICK shape \in shapes : Rotate(shape[1], shape[2]) \/ HandOver(shape[1], shape[2])
    BY <1>3
  <2>2. shape[1] \in Nat
    OBVIOUS
  <2>3. minted' = minted + shape[1]
    BY <2>1 DEF Rotate, HandOver
  <2> QED
    BY <1>1, <2>2, <2>3
<1> QED
  BY <1>2, <1>3 DEF HolderStep

LEMMA MoreOwnKeys ==
  ASSUME NEW h, NEW n \in Nat, NEW m \in Nat, n <= m, OwnKeys(h, n)
  PROVE  OwnKeys(h, m)
<1>1. ASSUME NEW keys, Among(keys, n) PROVE Among(keys, m)
  BY <1>1 DEF Among
<1> QED
  BY <1>1 DEF OwnKeys

(* Every step is one of the key history's, or leaves all of it alone.          *)
LEMMA StepsOfTheHolder ==
  ASSUME [DirectoryNext]_directoryVars
  PROVE  \/ host = "answers" /\ Next /\ UNCHANGED kept
         \/ host = "keeps" /\ RotateIdentity
         \/ host = "keeps" /\ SaveIdentity
         \/ host = "keeps" /\ Restart
         \/ UNCHANGED <<vars, host, file, restarts>>
<1>1. HolderNext => \/ RotateIdentity
                    \/ SaveIdentity
                    \/ Restart
                    \/ UNCHANGED <<vars, host, file, restarts>>
  BY DEF HolderNext, MakeRecord, PublishKeyLog, PublishRecord, SignedPut, GetKeyState,
         Arrives, IsLost, ProxyAnswers, Settle
<1>2. CounterpartyNext => UNCHANGED <<vars, host, file, restarts>>
  BY DEF CounterpartyNext, ConsumeAgentCard, ReadEdge, ReadLog, ReadRevocations, ReadFails,
         UnchangedByReader
<1>3. UNCHANGED directoryVars => UNCHANGED <<vars, host, file, restarts>>
  BY DEF directoryVars, kept
<1> QED
  BY <1>1, <1>2, <1>3 DEF DirectoryNext

LEMMA LoadedFile ==
  ASSUME FromIdentityFile(file) # Unloadable
  PROVE  FromIdentityFile(file) = file
  BY DEF FromIdentityFile

LEMMA HoldersIsInductive ==
  ASSUME HoldersInvariant, [DirectoryNext]_directoryVars
  PROVE  /\ HoldersInvariant'
         /\ restarts' = restarts => Continues(identity.log, identity'.log)
<1>1. /\ HolderInvariant /\ AcceptedInvariant
      /\ minted \in Nat /\ Len(identity.log) \in Nat
  BY KeyLogAssumption DEF HoldersInvariant, HolderInvariant, SoundHolder, Chain, IsSequence
<1>2. CASE host = "answers" /\ Next /\ UNCHANGED kept
  <2>1. SuccessionInvariant /\ UNCHANGED <<host, file, restarts>>
    BY <1>2 DEF HoldersInvariant, SuccessionInvariant, kept
  <2>2. SuccessionInvariant'
    BY <1>2, <2>1, SuccessionIsInductive
  <2>3. minted' \in Nat /\ minted <= minted' /\ Continues(identity.log, identity'.log)
    <3>1. CASE HolderStep(Shapes)
      BY <1>1, <3>1, MintedGrows, HolderStepKeepsInvariant, KeyLogAssumption
    <3>2. CASE UNCHANGED holderVars
      BY <1>1, <3>2, ContinuesItself DEF holderVars
    <3> QED
      BY <1>2, <3>1, <3>2 DEF Next, LoseKey, PresentRotation, PresentReordered, PresentInception, Accept
  <2>4. OwnKeys(file, minted')
    BY <1>1, <2>3, MoreOwnKeys DEF HoldersInvariant
  <2>5. OwnKeys(file', minted') /\ SoundHolder(file') /\ Len(file'.log) <= MaxEvents
    BY <2>1, <2>4 DEF HoldersInvariant
  <2> QED
    BY <1>2, <2>1, <2>2, <2>3, <2>5 DEF HoldersInvariant, SuccessionInvariant
<1>3. CASE host = "keeps" /\ RotateIdentity
  <2>1. /\ HolderStep(KeptShapes) /\ KeptShapes \subseteq Nat \X Int
        /\ Len(identity'.log) <= MaxKeptEvents /\ MaxKeptEvents \in 1 .. MaxEvents
        /\ UNCHANGED <<held, accepted, host, file, restarts>>
    BY <1>3, DirectoryAssumption DEF RotateIdentity
  <2>2. /\ HolderInvariant' /\ Continues(identity.log, identity'.log)
        /\ minted' \in Nat /\ minted <= minted'
    BY <1>1, <2>1, HolderStepKeepsInvariant, MintedGrows
  <2>3. AcceptedInvariant'
    BY <1>1, <2>1, <2>2, HolderStepKeepsAccepted
  <2>4. OwnKeys(file, minted')
    BY <1>1, <2>2, MoreOwnKeys DEF HoldersInvariant
  <2>5. OwnKeys(file', minted') /\ SoundHolder(file') /\ Len(file'.log) <= MaxEvents
    BY <2>1, <2>4 DEF HoldersInvariant
  <2>6. Len(identity'.log) \in Nat
    BY <2>2 DEF HolderInvariant, SoundHolder, Chain, IsSequence
  <2>7. Len(identity'.log) <= MaxEvents
    BY <2>1, <2>6, KeyLogAssumption
  <2> QED
    BY <1>3, <2>1, <2>2, <2>3, <2>5, <2>7 DEF HoldersInvariant
<1>4. ASSUME UNCHANGED vars, UNCHANGED host
      PROVE  /\ HolderInvariant' /\ AcceptedInvariant'
             /\ Continues(identity.log, identity'.log)
             /\ UNCHANGED <<identity, heir, minted, accepted>>
  <2>1. UNCHANGED <<identity, heir, minted, held, accepted>>
    BY <1>4 DEF vars, holderVars
  <2>2. HolderInvariant'
    BY <1>1, <2>1 DEF HolderInvariant, SoundHolder, OwnKeys, HeirIsCommitted
  <2>3. AcceptedInvariant'
    BY <1>1, <2>1 DEF AcceptedInvariant, SharedUpTo, ByOthers
  <2> QED
    BY <1>1, <2>1, <2>2, <2>3, ContinuesItself
<1>5. CASE host = "keeps" /\ SaveIdentity
  <2>1. UNCHANGED vars /\ UNCHANGED <<host, restarts>> /\ file' = identity
    BY <1>5 DEF SaveIdentity, ToIdentityFile
  <2> QED
    BY <1>1, <1>4, <1>5, <2>1 DEF HoldersInvariant, HolderInvariant
<1>6. CASE host = "keeps" /\ Restart
  <2>1. /\ identity' = file /\ heir' = NoHeir /\ restarts' = restarts + 1
        /\ UNCHANGED <<minted, held, accepted, host, file>>
    BY <1>6, LoadedFile DEF Restart
  <2>2. HolderInvariant'
    BY <1>1, <2>1 DEF HoldersInvariant, HolderInvariant, HeirIsCommitted
  <2>3. accepted' = <<InceptionEvent>> /\ identity'.log[1] = InceptionEvent /\ Len(identity'.log) >= 1
    BY <1>6, <2>1 DEF HoldersInvariant, SoundHolder, Chain
  <2>4. \A i \in 1 .. Len(accepted') : SharedUpTo(accepted, i)'
    <3>1. Len(accepted') = 1 /\ accepted'[1] = InceptionEvent
      BY <2>3
    <3> QED
      BY <2>3, <3>1 DEF SharedUpTo
  <2>5. AcceptedInvariant'
    BY <1>1, <2>1, <2>4 DEF AcceptedInvariant
  <2>6. HoldersInvariant'
    BY <1>6, <2>1, <2>2, <2>3, <2>5 DEF HoldersInvariant
  <2>7. restarts' # restarts
    BY <2>1 DEF HoldersInvariant
  <2> QED
    BY <2>6, <2>7
<1>7. CASE UNCHANGED <<vars, host, file, restarts>>
  BY <1>4, <1>7 DEF HoldersInvariant
<1> QED
  BY <1>2, <1>3, <1>5, <1>6, <1>7, StepsOfTheHolder

LEMMA InitEstablishesHolders == DirectoryInit => HoldersInvariant
<1> SUFFICES ASSUME DirectoryInit PROVE HoldersInvariant
  OBVIOUS
<1>1. SuccessionInvariant /\ identity.log = <<InceptionEvent>>
  BY InitEstablishesSuccession, CreatedIdentity DEF DirectoryInit, Init
<1>2. /\ file = identity /\ accepted = identity.log /\ restarts = 0 /\ host \in {"keeps", "answers"}
  BY DEF DirectoryInit, Init, ToIdentityFile
<1>3. Len(identity.log) = 1 /\ 1 <= MaxEvents
  BY <1>1, KeyLogAssumption
<1>4. HolderInvariant /\ AcceptedInvariant /\ (heir = NoHeir => identity.nextKeys # << >>)
  BY <1>1 DEF SuccessionInvariant
<1>5. SoundHolder(file) /\ OwnKeys(file, minted) /\ Len(file.log) <= MaxEvents
  BY <1>2, <1>3, <1>4 DEF HolderInvariant
<1> QED
  BY <1>1, <1>2, <1>3, <1>4, <1>5 DEF HoldersInvariant

(* The same before a directory: one that keeps its contract shows its readers  *)
(* no foreign log.                                                             *)
THEOREM DirectoryNeedsAQuorum == DirectorySpec => []SuccessionNeedsQuorum
<1>1. HoldersInvariant /\ [DirectoryNext]_directoryVars => HoldersInvariant'
  BY HoldersIsInductive
<1>2. HoldersInvariant => SuccessionNeedsQuorum
  <2> SUFFICES ASSUME HoldersInvariant PROVE SuccessionNeedsQuorum
    OBVIOUS
  <2>1. CASE host = "answers"
    <3>1. SuccessionInvariant
      BY <2>1 DEF HoldersInvariant, SuccessionInvariant
    <3> QED
      BY <3>1, PartingTakesAQuorum
  <2>2. CASE host = "keeps"
    <3>1. /\ accepted = <<InceptionEvent>> /\ identity.log[1] = InceptionEvent
          /\ IsSequence(identity.log) /\ IsSequence(accepted) /\ Len(identity.log) >= 1
      BY <2>2 DEF HoldersInvariant, HolderInvariant, SoundHolder, AcceptedInvariant, Chain
    <3>2. Len(accepted) = 1 /\ accepted[1] = InceptionEvent
      BY <3>1
    <3>3. IsPrefix(accepted, identity.log)
      <4>1. Len(accepted) <= Len(identity.log) /\ \A i \in 1 .. Len(accepted) : accepted[i] = identity.log[i]
        BY <3>1, <3>2
      <4> QED
        BY <3>1, <4>1, PrefixFacts
    <3> QED
      BY <3>3 DEF SuccessionNeedsQuorum
  <2> QED
    BY <2>1, <2>2 DEF HoldersInvariant
<1> QED
  BY <1>1, <1>2, InitEstablishesHolders, PTL DEF DirectorySpec

(* The file that was saved last always loads, as the identity that was saved:  *)
(* with the keys the next rotation reveals, or none after a handover.          *)
THEOREM IdentityFilesLoad == DirectorySpec => []SavedIdentityLoads
<1>1. HoldersInvariant /\ [DirectoryNext]_directoryVars => HoldersInvariant'
  BY HoldersIsInductive
<1>2. HoldersInvariant => SavedIdentityLoads
  <2> SUFFICES ASSUME HoldersInvariant, file.currentKeys # << >>
               PROVE  FromIdentityFile(file) = file
    BY DEF SavedIdentityLoads
  <2>1. /\ SoundHolder(file) /\ Chain(file.log) /\ Len(file.log) <= MaxEvents
        /\ file.log[1] = InceptionEvent /\ file.id = InceptionEvent.id
    BY DEF HoldersInvariant, SoundHolder
  <2>2. Replays(file.log) /\ file.log[1].id = file.id
    BY <2>1, ChainReplays
  <2>3. file.currentKeys = Last(file.log).keys
    BY <2>1 DEF SoundHolder
  <2>4. CASE file.nextKeys = << >> /\ file.nextThreshold = NoThreshold
    <3>1. Len(file.nextKeys) <= MaxKeys
      BY <2>4, KeyLogAssumption
    <3> QED
      BY <2>2, <2>3, <2>4, <3>1 DEF FromIdentityFile
  <2>5. CASE Staged(file.log, file.nextKeys, file.nextThreshold)
    <3>1. /\ Committable(file.nextKeys, file.nextThreshold)
          /\ CommitToKeyState(file.nextKeys, file.nextThreshold) = Last(file.log).next
      BY <2>5 DEF Staged
    <3>2. Len(file.nextKeys) <= MaxKeys
      BY <3>1 DEF Committable
    <3> QED
      BY <2>2, <2>3, <3>1, <3>2 DEF FromIdentityFile
  <2> QED
    BY <2>1, <2>4, <2>5 DEF SoundHolder
<1> QED
  BY <1>1, <1>2, InitEstablishesHolders, PTL DEF DirectorySpec

-------------------------------------------------------------------------------
(* What the holder has to say, and what it is told.                            *)
Presentable(log) ==
    /\ Chain(log)
    /\ Len(log) <= MaxEvents
    /\ log[1].id = InceptionEvent.id

HonestRecord(r) ==
    \/ /\ r = [kind |-> "revocation", revokes |-> r.revokes,
               anchor |-> r.anchor, signers |-> r.signers]
       /\ r.kind = "revocation"
    \/ /\ r = [kind |-> r.kind, fields |-> r.fields, covers |-> r.covers, key |-> r.key]
       /\ r.kind \in {"profile", "node", "relationship"}
       /\ r.fields = SchemaDefaults(r.kind)
       /\ r.covers = r.fields

KeyLogBody(body) ==
    /\ body = [kind |-> "key-log", events |-> body.events]
    /\ body.kind = "key-log"
    /\ Presentable(body.events)

HonestCall(c) ==
    \/ c = NoCall
    \/ c = [op |-> "getKeyState"]
    \/ /\ c = [op |-> "publish", body |-> c.body, key |-> c.key]
       /\ c.op = "publish"
       /\ KeyLogBody(c.body) \/ HonestRecord(c.body)

(* What an honest record says is not changed by the schema's defaults.         *)
LEMMA ParsedRecord ==
  ASSUME NEW r, HonestRecord(r)
  PROVE  Parse(r) = r
<1>1. CASE r.kind = "revocation"
  BY <1>1 DEF Parse
<1>2. CASE r.kind # "revocation"
  <2>1. /\ r = [kind |-> r.kind, fields |-> r.fields, covers |-> r.covers, key |-> r.key]
        /\ r.fields = SchemaDefaults(r.kind)
    BY <1>2 DEF HonestRecord
  <2>2. r.fields \cup SchemaDefaults(r.kind) = r.fields
    BY <2>1
  <2>3. Parse(r) = [r EXCEPT !.fields = r.fields \cup SchemaDefaults(r.kind)]
    BY <1>2 DEF Parse
  <2>4. [r EXCEPT !.fields = r.fields] = r
    BY <2>1
  <2> QED
    BY <2>2, <2>3, <2>4
<1> QED
  BY <1>1, <1>2

LEMMA HonestKinds ==
  ASSUME NEW r, HonestRecord(r)
  PROVE  r.kind \in {"revocation", "profile", "node", "relationship"}
  BY DEF HonestRecord

(* The directory's answers to what is published.                               *)
LEMMA AnswersToPublishing ==
  ASSUME call.op = "publish", KeyLogBody(call.body) \/ HonestRecord(call.body)
  PROVE  LET refusal == IF call.body.kind = "key-log" THEN KeyLogRefusal(call.body.events, call.key)
                        ELSE RecordRefusal(call.body, call.key)
         IN  Answer = IF refusal = "none" THEN Ok(call.body) ELSE Refused(422, refusal)
<1>1. CASE KeyLogBody(call.body)
  BY <1>1 DEF Answer, KeyLogBody
<1>2. CASE HonestRecord(call.body)
  <2>1. call.body.kind # "key-log" /\ Parse(call.body) = call.body
    BY <1>2, ParsedRecord, HonestKinds
  <2> QED
    BY <2>1 DEF Answer
<1> QED
  BY <1>1, <1>2

LEMMA RepliesRead ==
  ASSUME NEW body, NEW code
  PROVE  /\ Request(Nothing) = Thrown("fetch_failed")
         /\ Request(Ok(body)) = body
         /\ Request(Refused(422, code)) = Thrown(code)
         /\ Request([status |-> 200, body |-> ProxyPage]) = ProxyPage
         /\ Request([status |-> 502, body |-> ProxyPage]) = Thrown("none")
<1>1. Request(Nothing) = Thrown("fetch_failed")
  BY DEF Request
<1>2. ASSUME NEW status, status # 0, NEW b
      PROVE  Request([status |-> status, body |-> b]) = IF status = 200 THEN b ELSE Thrown(ErrorCode(b))
  <2>1. [status |-> status, body |-> b].status # Nothing.status
    BY <1>2 DEF Nothing
  <2>2. [status |-> status, body |-> b] # Nothing
    BY <2>1
  <2> QED
    BY <2>2 DEF Request
<1>3. ErrorCode([kind |-> "error", error |-> code]) = code /\ ErrorCode(ProxyPage) = "none"
  BY DEF ErrorCode, ProxyPage
<1>4. Request(Ok(body)) = body
  BY <1>2 DEF Ok
<1>5. Request(Refused(422, code)) = Thrown(code)
  BY <1>2, <1>3 DEF Refused
<1>6. Request([status |-> 200, body |-> ProxyPage]) = ProxyPage
  BY <1>2
<1>7. Request([status |-> 502, body |-> ProxyPage]) = Thrown("none")
  BY <1>2, <1>3
<1> QED
  BY <1>1, <1>4, <1>5, <1>6, <1>7

(* What a reply makes of a call to publish: a log's state whenever there was    *)
(* one; the record, if it came back; what the directory said, if it refused.    *)
LEMMA PublishedLog ==
  ASSUME identity.id = InceptionEvent.id, NEW body, KeyLogBody(body), NEW reply
  PROVE  IF Request(reply).kind = "thrown" THEN Published(body, reply) = Request(reply)
         ELSE Published(body, reply) = StateOf(body.events)
<1>1. ReplaysFor(identity.id, body.events)
  BY ChainReplays DEF KeyLogBody, Presentable, ReplaysFor
<1> QED
  BY <1>1 DEF Published, KeyLogBody

LEMMA PublishedWithReply ==
  ASSUME identity.id = InceptionEvent.id, NEW body, KeyLogBody(body) \/ HonestRecord(body), NEW code
  PROVE  /\ Published(body, Nothing) = Thrown("fetch_failed")
         /\ Published(body, Refused(422, code)) = Thrown(code)
         /\ Published(body, [status |-> 502, body |-> ProxyPage]) = Thrown("none")
         /\ Published(body, [status |-> 200, body |-> ProxyPage])
                \in {StateOf(body.events), Thrown("invalid_body")}
         /\ Published(body, Ok(body)) = IF body.kind = "key-log" THEN StateOf(body.events) ELSE body
<1>1. /\ Thrown("fetch_failed").kind = "thrown" /\ Thrown(code).kind = "thrown"
      /\ Thrown("none").kind = "thrown" /\ ProxyPage.kind = "page"
  BY DEF Thrown, ProxyPage
<1>2. /\ Published(body, Nothing) = Thrown("fetch_failed")
      /\ Published(body, Refused(422, code)) = Thrown(code)
      /\ Published(body, [status |-> 502, body |-> ProxyPage]) = Thrown("none")
  BY <1>1, RepliesRead DEF Published
<1>3. CASE KeyLogBody(body)
  <2>1. body.kind = "key-log"
    BY <1>3 DEF KeyLogBody
  <2>2. Published(body, [status |-> 200, body |-> ProxyPage]) = StateOf(body.events)
    BY <1>1, <1>3, RepliesRead, PublishedLog
  <2>3. Published(body, Ok(body)) = StateOf(body.events)
    BY <1>3, <2>1, RepliesRead, PublishedLog
  <2> QED
    BY <1>2, <2>1, <2>2, <2>3
<1>4. CASE HonestRecord(body)
  <2>1. body.kind \in {"revocation", "profile", "node", "relationship"} /\ Parse(body) = body
    BY <1>4, HonestKinds, ParsedRecord
  <2>2. Published(body, [status |-> 200, body |-> ProxyPage]) = Thrown("invalid_body")
    BY <1>1, <2>1, RepliesRead DEF Published
  <2>3. Request(Ok(body)) = body
    BY RepliesRead
  <2>4. Published(body, Ok(body)) = body
    BY <2>1, <2>3 DEF Published
  <2> QED
    BY <1>2, <2>1, <2>2, <2>4
<1> QED
  BY <1>3, <1>4

(* Why the directory refuses what is published, or does not.                   *)
Refusal ==
    IF call.body.kind = "key-log" THEN KeyLogRefusal(call.body.events, call.key)
    ELSE RecordRefusal(call.body, call.key)

LEMMA RefusedLogs ==
  ASSUME identity.id = InceptionEvent.id, NEW events, Presentable(events), NEW key
  PROVE  /\ KeyLogRefusal(events, key) \in {"invalid_signature", "key_log_conflict", "none"}
         /\ KeyLogRefusal(events, key) = "key_log_conflict" => ~IsPrefix(stored, events)
         /\ KeyLogRefusal(events, key) = "none" => IsPrefix(stored, events)
<1>1. ReplaysFor(identity.id, events)
  BY ChainReplays DEF Presentable, ReplaysFor
<1> QED
  BY <1>1 DEF KeyLogRefusal

LEMMA RefusedRecords ==
  ASSUME NEW r, NEW key
  PROVE  /\ RecordRefusal(r, key) \in
               {"unknown_participant", "invalid_signature", "revocation_anchor_unknown",
                "revocation_signature_invalid", "record_signature_invalid", "none"}
         /\ r.kind = "revocation" /\ RecordRefusal(r, key) = "none" => CheckAnchored(r, stored) = "ok"
         /\ RecordRefusal(r, key) = "record_signature_invalid"
               => ~(r.fields = r.covers /\ Alone(Last(stored), r.key))
<1> DEFINE verdictOf == CheckAnchored(r, stored)
<1>1. CASE stored = << >> \/ ~Alone(Last(stored), key)
  BY <1>1 DEF RecordRefusal
<1>2. CASE stored # << >> /\ Alone(Last(stored), key) /\ r.kind = "revocation"
  <2>1. RecordRefusal(r, key) = CASE verdictOf = "ok" -> "none"
                                  [] verdictOf = "anchor_unknown" -> "revocation_anchor_unknown"
                                  [] OTHER -> "revocation_signature_invalid"
    BY <1>2 DEF RecordRefusal
  <2> HIDE DEF verdictOf
  <2>2. /\ verdictOf = "ok" => RecordRefusal(r, key) = "none"
        /\ verdictOf = "anchor_unknown" => RecordRefusal(r, key) = "revocation_anchor_unknown"
        /\ verdictOf \notin {"ok", "anchor_unknown"}
              => RecordRefusal(r, key) = "revocation_signature_invalid"
    BY <2>1
  <2> QED
    BY <2>2 DEF verdictOf
<1>3. CASE stored # << >> /\ Alone(Last(stored), key) /\ r.kind # "revocation"
  BY <1>3 DEF RecordRefusal
<1> QED
  BY <1>1, <1>2, <1>3

(* How a call to publish ends: what was sent was taken, or refused, or never   *)
(* arrived; and the answer came back or did not.                               *)
Taken(result) ==
    /\ Refusal = "none"
    /\ IF call.body.kind = "key-log"
       THEN stored' = call.body.events /\ served' = served
       ELSE served' = Keep(call.body) /\ stored' = stored
    /\ result \in {Thrown("fetch_failed"),
                   IF call.body.kind = "key-log" THEN StateOf(call.body.events) ELSE call.body}

NotTaken(result) ==
    /\ stored' = stored /\ served' = served
    /\ \/ Refusal # "none" /\ result = Thrown(Refusal)
       \/ result \in {Thrown("fetch_failed"), Thrown("none"), Thrown("invalid_body"),
                      StateOf(call.body.events)}

Told(result) ==
    /\ told' = [to |-> "holder", call |-> call, result |-> result]
    /\ withdrawn' = IF result.kind = "revocation" THEN withdrawn \cup {result.revokes} ELSE withdrawn
    /\ call' = NoCall
    /\ UNCHANGED <<vars, host, file, restarts, made, check>>

LEMMA SettledIsTold ==
  ASSUME call.op = "publish", NEW reply, Settle(reply)
  PROVE  Told(Published(call.body, reply))
  BY DEF Settle, Told

LEMMA PublishingEnds ==
  ASSUME identity.id = InceptionEvent.id, call.op = "publish",
         KeyLogBody(call.body) \/ HonestRecord(call.body),
         Arrives \/ IsLost \/ ProxyAnswers
  PROVE  \E result : Told(result) /\ (Taken(result) \/ NotTaken(result))
<1>1. /\ Published(call.body, Nothing) = Thrown("fetch_failed")
      /\ Published(call.body, Refused(422, Refusal)) = Thrown(Refusal)
      /\ Published(call.body, [status |-> 502, body |-> ProxyPage]) = Thrown("none")
      /\ Published(call.body, [status |-> 200, body |-> ProxyPage])
             \in {StateOf(call.body.events), Thrown("invalid_body")}
      /\ Published(call.body, Ok(call.body))
             = IF call.body.kind = "key-log" THEN StateOf(call.body.events) ELSE call.body
  BY PublishedWithReply
<1>2. CASE IsLost
  <2>1. Told(Published(call.body, Nothing)) /\ stored' = stored /\ served' = served
    BY <1>2, SettledIsTold DEF IsLost
  <2>2. NotTaken(Published(call.body, Nothing))
    BY <1>1, <2>1 DEF NotTaken
  <2> QED
    BY <2>1, <2>2
<1>3. CASE ProxyAnswers
  <2>1. PICK status \in {200, 502} : Settle([status |-> status, body |-> ProxyPage])
    BY <1>3 DEF ProxyAnswers
  <2> DEFINE result == Published(call.body, [status |-> status, body |-> ProxyPage])
  <2>2. Told(result) /\ stored' = stored /\ served' = served
    BY <1>3, <2>1, SettledIsTold DEF ProxyAnswers
  <2>3. result \in {Thrown("none"), Thrown("invalid_body"), StateOf(call.body.events)}
    <3>1. CASE status = 200
      BY <1>1, <3>1
    <3>2. CASE status = 502
      BY <1>1, <3>2
    <3> QED
      BY <3>1, <3>2
  <2> HIDE DEF result
  <2>4. NotTaken(result)
    BY <2>2, <2>3 DEF NotTaken
  <2> QED
    BY <2>2, <2>4
<1>4. CASE Arrives
  <2>1. Handle /\ (Settle(Answer) \/ Settle(Nothing))
    BY <1>4 DEF Arrives
  <2>2. Answer = IF Refusal = "none" THEN Ok(call.body) ELSE Refused(422, Refusal)
    BY AnswersToPublishing DEF Refusal
  <2>3. CASE Refusal = "none"
    <3>1. Answer = Ok(call.body) /\ Answer.status = 200 /\ Answer.body = call.body
      BY <2>2, <2>3 DEF Ok
    <3>2. IF call.body.kind = "key-log"
          THEN stored' = call.body.events /\ served' = served
          ELSE served' = Keep(call.body) /\ stored' = stored
      BY <2>1, <3>1 DEF Handle
    <3>3. CASE Settle(Answer)
      <4>1. Told(Published(call.body, Ok(call.body)))
        BY <3>1, <3>3, SettledIsTold
      <4>2. Taken(Published(call.body, Ok(call.body)))
        BY <1>1, <2>3, <3>2 DEF Taken
      <4> QED
        BY <4>1, <4>2
    <3>4. CASE Settle(Nothing)
      <4>1. Told(Published(call.body, Nothing))
        BY <3>4, SettledIsTold
      <4>2. Taken(Published(call.body, Nothing))
        BY <1>1, <2>3, <3>2 DEF Taken
      <4> QED
        BY <4>1, <4>2
    <3> QED
      BY <2>1, <3>3, <3>4
  <2>4. CASE Refusal # "none"
    <3>1. Answer = Refused(422, Refusal) /\ Answer.status = 422
      BY <2>2, <2>4 DEF Refused
    <3>2. stored' = stored /\ served' = served
      BY <2>1, <3>1 DEF Handle
    <3>3. CASE Settle(Answer)
      <4>1. Told(Published(call.body, Refused(422, Refusal)))
        BY <3>1, <3>3, SettledIsTold
      <4>2. NotTaken(Published(call.body, Refused(422, Refusal)))
        BY <1>1, <2>4, <3>2 DEF NotTaken
      <4> QED
        BY <4>1, <4>2
    <3>4. CASE Settle(Nothing)
      <4>1. Told(Published(call.body, Nothing))
        BY <3>4, SettledIsTold
      <4>2. NotTaken(Published(call.body, Nothing))
        BY <1>1, <3>2 DEF NotTaken
      <4> QED
        BY <4>1, <4>2
    <3> QED
      BY <2>1, <3>3, <3>4
  <2> QED
    BY <2>3, <2>4
<1> QED
  BY <1>2, <1>3, <1>4

(* And a read of the directory's log, which changes nothing it holds.          *)
LEMMA ReadingEnds ==
  ASSUME call = [op |-> "getKeyState"], Arrives \/ IsLost \/ ProxyAnswers
  PROVE  \E result : Told(result) /\ result.kind # "revocation" /\ UNCHANGED <<stored, served>>
<1>1. call.op = "getKeyState"
  OBVIOUS
<1>2. UNCHANGED <<stored, served>>
  BY <1>1 DEF Arrives, IsLost, ProxyAnswers, Handle
<1>3. PICK reply : Settle(reply)
  BY DEF Arrives, IsLost, ProxyAnswers
<1>4. Told(KeyStateFrom(reply))
  BY <1>1, <1>3 DEF Settle, Told
<1>5. KeyStateFrom(reply).kind # "revocation"
  <2> DEFINE body == GetOrNull(reply)
  <2>1. CASE body.kind \in {"null", "thrown"}
    BY <2>1 DEF KeyStateFrom
  <2>2. CASE body.kind \notin {"null", "thrown"}
    <3>1. KeyStateFrom(reply) \in {Thrown("invalid_body"), Thrown("key_log_invalid"), StateOf(body.events)}
      BY <2>2 DEF KeyStateFrom
    <3>2. /\ Thrown("invalid_body").kind = "thrown" /\ Thrown("key_log_invalid").kind = "thrown"
          /\ StateOf(body.events).kind = "state"
      BY DEF Thrown, StateOf
    <3> QED
      BY <3>1, <3>2
  <2> QED
    BY <2>1, <2>2
<1> QED
  BY <1>2, <1>4, <1>5

(* What is stored, made and under way is the holder's; and as long as the      *)
(* holder was not restored, the directory is never ahead of it.                *)
SendsLog(c) == c.op = "publish" /\ c.body.kind = "key-log"

WordsInvariant ==
    /\ stored = << >> \/ Presentable(stored)
    /\ \A r \in made : HonestRecord(r)
    /\ HonestCall(call)
    /\ restarts = 0 => Continues(stored, identity.log)
    /\ restarts = 0 /\ SendsLog(call) => /\ Continues(stored, call.body.events)
                                        /\ Continues(call.body.events, identity.log)
    /\ OwnWordsAreTaken

LEMMA StoredIsSequence ==
  ASSUME NEW log, log = << >> \/ Presentable(log)
  PROVE  IsSequence(log) /\ Len(log) \in Nat
<1>1. IsSequence(<< >>)
  BY DEF IsSequence
<1> QED
  BY <1>1 DEF Presentable, Chain, IsSequence

LEMMA HolderFacts ==
  ASSUME HolderInvariant
  PROVE  /\ identity.id = InceptionEvent.id
         /\ Chain(identity.log) /\ identity.log[1].id = InceptionEvent.id
         /\ IsSequence(identity.log) /\ Len(identity.log) \in Nat
  BY DEF HolderInvariant, SoundHolder, Chain, IsSequence

(* A step that neither the directory nor the call takes part in.               *)
LEMMA QuietStepKeepsWords ==
  ASSUME HolderInvariant, HolderInvariant', WordsInvariant,
         UNCHANGED <<stored, call, made, restarts>>,
         told' = told \/ told'.to # "holder",
         Continues(identity.log, identity'.log)
  PROVE  WordsInvariant'
<1>1. Len(stored) \in Nat /\ Len(identity.log) \in Nat /\ Len(identity'.log) \in Nat
  BY HolderFacts, StoredIsSequence DEF WordsInvariant, HolderInvariant, SoundHolder, Chain, IsSequence
<1>2. restarts = 0 => Continues(stored, identity'.log)
  BY <1>1, ContinuesIsTransitive DEF WordsInvariant
<1>3. ASSUME restarts = 0, SendsLog(call)
      PROVE  Continues(stored, call.body.events) /\ Continues(call.body.events, identity'.log)
  <2>1. Continues(stored, call.body.events) /\ Continues(call.body.events, identity.log)
    BY <1>3 DEF WordsInvariant
  <2>2. Len(call.body.events) \in Nat
    <3>1. KeyLogBody(call.body)
      BY <1>3, HonestKinds DEF WordsInvariant, HonestCall, SendsLog, NoCall
    <3> QED
      BY <3>1 DEF KeyLogBody, Presentable, Chain, IsSequence
  <2> QED
    BY <1>1, <2>1, <2>2, ContinuesIsTransitive
<1>4. OwnWordsAreTaken'
  BY DEF WordsInvariant, OwnWordsAreTaken
<1> QED
  BY <1>2, <1>3, <1>4 DEF WordsInvariant, SendsLog

(* What the holder makes says all that it is signed for.                       *)
LEMMA MadeRecordsAreHonest ==
  ASSUME MakeRecord, \A r \in made : HonestRecord(r)
  PROVE  \A r \in made' : HonestRecord(r)
<1>1. PICK record \in {SelfRecord(kind) : kind \in {k \in SelfKinds : Makes(k)}}
                     \cup {RepresentsEdge : k \in {k \in {"relationship"} : Makes(k)}}
                     \cup {RevocationOf(edge) : edge \in {r \in made : r.kind = "relationship"}} :
         made' = made \cup {record}
  BY DEF MakeRecord
<1>2. ASSUME NEW kind, kind \in {"profile", "node", "relationship"}
      PROVE  HonestRecord(Signed(kind, SchemaDefaults(kind)))
  BY <1>2 DEF HonestRecord, Signed
<1>3. HonestRecord(record)
  <2>1. CASE record \in {SelfRecord(kind) : kind \in {k \in SelfKinds : Makes(k)}}
    BY <1>2, <2>1, DirectoryAssumption DEF SelfRecord
  <2>2. CASE record \in {RepresentsEdge : k \in {k \in {"relationship"} : Makes(k)}}
    <3>1. record = Signed("relationship", {}) /\ SchemaDefaults("relationship") = {}
      BY <2>2 DEF RepresentsEdge, SchemaDefaults
    <3> QED
      BY <1>2, <3>1
  <2>3. CASE record \in {RevocationOf(edge) : edge \in {r \in made : r.kind = "relationship"}}
    BY <2>3 DEF RevocationOf, HonestRecord
  <2> QED
    BY <1>1, <2>1, <2>2, <2>3
<1> QED
  BY <1>1, <1>3

(* The end of a call to publish, and what the holder may conclude.             *)
LEMMA PublishingKeepsWords ==
  ASSUME HolderInvariant, WordsInvariant, restarts \in Nat, call.op = "publish",
         KeyLogBody(call.body) \/ HonestRecord(call.body),
         NEW result, Told(result), Taken(result) \/ NotTaken(result)
  PROVE  WordsInvariant'
<1>1. /\ told' = [to |-> "holder", call |-> call, result |-> result]
      /\ call' = NoCall /\ UNCHANGED <<identity, restarts, made>>
  BY DEF Told, vars, holderVars
<1>2. /\ identity.id = InceptionEvent.id
      /\ stored = << >> \/ Presentable(stored)
      /\ restarts = 0 => Continues(stored, identity.log)
      /\ restarts = 0 /\ SendsLog(call) => /\ Continues(stored, call.body.events)
                                          /\ Continues(call.body.events, identity.log)
  BY HolderFacts DEF WordsInvariant
<1>3. /\ KeyLogBody(call.body) <=> call.body.kind = "key-log"
      /\ call.body.kind # "key-log" => HonestRecord(call.body)
  BY HonestKinds DEF KeyLogBody
<1>4. /\ stored' = << >> \/ Presentable(stored')
      /\ restarts' = 0 => Continues(stored', identity'.log)
  <2>1. CASE stored' = stored
    BY <1>1, <1>2, <2>1
  <2>2. CASE stored' # stored
    <3>1. stored' = call.body.events /\ call.body.kind = "key-log"
      BY <2>2 DEF Taken, NotTaken
    <3>2. Presentable(call.body.events) /\ SendsLog(call)
      BY <1>3, <3>1 DEF KeyLogBody, SendsLog
    <3> QED
      BY <1>1, <1>2, <3>1, <3>2
  <2> QED
    BY <2>1, <2>2
<1>5. \A code : Thrown(code).kind = "thrown" /\ Thrown(code).code = code
  BY DEF Thrown
<1>6. ASSUME NEW code, result = Thrown(code),
             code \in {"key_log_rejected", "key_log_conflict", "record_signature_invalid"}
      PROVE  code = Refusal /\ stored' = stored
  <2>1. StateOf(call.body.events).kind = "state"
    BY DEF StateOf
  <2>2. call.body.kind # "key-log" => call.body.kind # "thrown"
    BY <1>3, HonestKinds
  <2>3. ~Taken(result)
    BY <1>5, <1>6, <2>1, <2>2 DEF Taken
  <2>4. NotTaken(result)
    BY <2>3
  <2>5. result = Thrown(Refusal)
    BY <1>5, <1>6, <2>1, <2>4 DEF NotTaken
  <2> QED
    BY <1>5, <1>6, <2>4, <2>5 DEF NotTaken
<1>7. result # Thrown("key_log_rejected")
  <2>1. Refusal # "key_log_rejected"
    BY <1>2, <1>3, RefusedLogs, RefusedRecords DEF Refusal, KeyLogBody
  <2> QED
    BY <1>6, <2>1
<1>8. ASSUME result = Thrown("key_log_conflict") PROVE restarts' # 0
  <2>1. Refusal = "key_log_conflict"
    BY <1>6, <1>8
  <2>2. call.body.kind = "key-log" /\ KeyLogRefusal(call.body.events, call.key) = "key_log_conflict"
    BY <2>1, RefusedRecords DEF Refusal
  <2>3. Presentable(call.body.events) /\ SendsLog(call)
    BY <1>3, <2>2 DEF KeyLogBody, SendsLog
  <2>4. ~IsPrefix(stored, call.body.events)
    BY <1>2, <2>2, <2>3, RefusedLogs
  <2>5. IsSequence(stored) /\ IsSequence(call.body.events)
    BY <1>2, <2>3, StoredIsSequence
  <2>6. ~Continues(stored, call.body.events)
    BY <2>4, <2>5, PrefixFacts DEF Continues
  <2> QED
    BY <1>1, <1>2, <2>3, <2>6
<1>9. ASSUME call.body.kind \in SelfKinds, result = Thrown("record_signature_invalid")
      PROVE  ~Alone(Last(stored'), call.body.key)
  <2>1. Refusal = "record_signature_invalid" /\ stored' = stored
    BY <1>6, <1>9
  <2>2. HonestRecord(call.body) /\ call.body.kind \in {"profile", "node"}
    BY <1>3, <1>9, DirectoryAssumption
  <2>3. ~(call.body.fields = call.body.covers /\ Alone(Last(stored), call.body.key))
    BY <2>1, <2>2, RefusedRecords DEF Refusal
  <2>4. call.body.fields = call.body.covers
    BY <2>2 DEF HonestRecord
  <2> QED
    BY <2>1, <2>3, <2>4
<1>10. OwnWordsAreTaken'
  <2>1. told'.call = call /\ told'.result = result
    BY <1>1
  <2>2. told'.result # Thrown("key_log_rejected")
    BY <1>7, <2>1
  <2>3. told'.result = Thrown("key_log_conflict") => restarts' > 0
    BY <1>1, <1>8, <2>1
  <2>4. told'.call.body.kind \in SelfKinds /\ told'.result = Thrown("record_signature_invalid")
           => ~Alone(Last(stored'), told'.call.body.key)
    BY <1>9, <2>1
  <2> QED
    BY <2>2, <2>3, <2>4 DEF OwnWordsAreTaken
<1>11. HonestCall(call') /\ ~SendsLog(call')
  BY <1>1 DEF HonestCall, SendsLog, NoCall
<1>12. \A r \in made' : HonestRecord(r)
  BY <1>1 DEF WordsInvariant
<1> QED
  BY <1>4, <1>10, <1>11, <1>12 DEF WordsInvariant

LEMMA ReadingKeepsWords ==
  ASSUME HolderInvariant, WordsInvariant, call = [op |-> "getKeyState"],
         NEW result, Told(result), UNCHANGED <<stored, served>>
  PROVE  WordsInvariant'
<1>1. /\ told' = [to |-> "holder", call |-> call, result |-> result]
      /\ call' = NoCall /\ UNCHANGED <<identity, restarts, made, stored>>
  BY DEF Told, vars, holderVars
<1>2. told'.call.op = "getKeyState"
  BY <1>1
<1>3. OwnWordsAreTaken'
  BY <1>2 DEF OwnWordsAreTaken
<1>4. HonestCall(call') /\ ~SendsLog(call')
  BY <1>1 DEF HonestCall, SendsLog, NoCall
<1> QED
  BY <1>1, <1>3, <1>4 DEF WordsInvariant

(* A call begins with what the holder keeps or has made.                       *)
LEMMA SigningKeepsWords ==
  ASSUME HoldersInvariant, WordsInvariant, host = "keeps",
         PublishKeyLog \/ PublishRecord \/ GetKeyState
  PROVE  WordsInvariant'
<1>1. /\ UNCHANGED <<identity, stored, made, restarts>> /\ told' = NoNews
  BY DEF PublishKeyLog, PublishRecord, SignedPut, GetKeyState, vars, holderVars
<1>2. OwnWordsAreTaken'
  BY <1>1 DEF OwnWordsAreTaken, NoNews
<1>3. /\ HonestCall(call')
      /\ SendsLog(call') => call'.body.events = identity.log
  <2>1. CASE PublishKeyLog
    <3> DEFINE body == [kind |-> "key-log", events |-> identity.log]
    <3>1. call' = [op |-> "publish", body |-> body, key |-> identity.currentKeys[1]]
      BY <2>1 DEF PublishKeyLog, SignedPut
    <3>2. Presentable(identity.log)
      BY HolderFacts DEF HoldersInvariant, Presentable
    <3>3. KeyLogBody(body) /\ body.events = identity.log
      BY <3>2 DEF KeyLogBody
    <3> HIDE DEF body
    <3> QED
      BY <3>1, <3>3 DEF HonestCall
  <2>2. CASE PublishRecord
    <3>1. PICK record \in made : SignedPut(record)
      BY <2>2 DEF PublishRecord
    <3>2. call' = [op |-> "publish", body |-> record, key |-> identity.currentKeys[1]]
      BY <3>1 DEF SignedPut
    <3>3. HonestRecord(record) /\ record.kind # "key-log"
      BY HonestKinds DEF WordsInvariant
    <3> QED
      BY <3>2, <3>3 DEF HonestCall, SendsLog
  <2>3. CASE GetKeyState
    BY <2>3 DEF GetKeyState, HonestCall, SendsLog
  <2> QED
    BY <2>1, <2>2, <2>3
<1>4. Continues(identity.log, identity.log)
  BY HolderFacts, ContinuesItself DEF HoldersInvariant
<1>5. /\ restarts' = 0 => Continues(stored', identity'.log)
      /\ restarts' = 0 /\ SendsLog(call') => /\ Continues(stored', call'.body.events)
                                            /\ Continues(call'.body.events, identity'.log)
  BY <1>1, <1>3, <1>4 DEF WordsInvariant
<1> QED
  BY <1>1, <1>2, <1>3, <1>5 DEF WordsInvariant

LEMMA WordsIsInductive ==
  ASSUME HoldersInvariant, WordsInvariant, [DirectoryNext]_directoryVars
  PROVE  WordsInvariant'
<1>1. /\ HoldersInvariant' /\ HolderInvariant /\ HolderInvariant' /\ restarts \in Nat
      /\ restarts' = restarts => Continues(identity.log, identity'.log)
  BY HoldersIsInductive DEF HoldersInvariant
<1>2. ASSUME UNCHANGED <<stored, call, made, restarts>>, told' = told \/ told'.to # "holder"
      PROVE  WordsInvariant'
  BY <1>1, <1>2, QuietStepKeepsWords
<1>3. NoNews.to # "holder"
  BY DEF NoNews
<1>4. CASE host = "answers" /\ Next /\ UNCHANGED kept
  BY <1>2, <1>4 DEF kept
<1>5. CASE UNCHANGED directoryVars
  BY <1>2, <1>5 DEF directoryVars, kept
<1>6. CASE host = "keeps" /\ CounterpartyNext
  <2>1. UNCHANGED <<stored, call, made, restarts>>
    BY <1>6 DEF CounterpartyNext, ConsumeAgentCard, ReadEdge, ReadLog, ReadRevocations, ReadFails,
                UnchangedByReader
  <2>2. told' = NoNews \/ told'.to = "counterparty"
    BY <1>6 DEF CounterpartyNext, ConsumeAgentCard, ReadEdge, ReadLog, ReadRevocations, ReadFails,
                Verdict, Read
  <2> QED
    BY <1>2, <1>3, <2>1, <2>2
<1>7. CASE host = "keeps" /\ HolderNext
  <2>1. CASE RotateIdentity \/ SaveIdentity
    BY <1>2, <1>3, <2>1 DEF RotateIdentity, SaveIdentity
  <2>2. CASE Restart
    <3>1. /\ restarts' = restarts + 1 /\ call' = NoCall /\ told' = NoNews
          /\ UNCHANGED <<made, stored>>
      BY <2>2 DEF Restart
    <3>2. restarts' # 0
      BY <1>1, <3>1
    <3>3. HonestCall(call')
      BY <3>1 DEF HonestCall
    <3>4. OwnWordsAreTaken'
      BY <1>3, <3>1 DEF OwnWordsAreTaken
    <3> QED
      BY <3>1, <3>2, <3>3, <3>4 DEF WordsInvariant
  <2>3. CASE MakeRecord
    <3>1. /\ UNCHANGED <<identity, stored, call, restarts>> /\ told' = NoNews
      BY <2>3 DEF MakeRecord, vars, holderVars
    <3>2. \A r \in made' : HonestRecord(r)
      BY <2>3, MadeRecordsAreHonest DEF WordsInvariant
    <3>3. OwnWordsAreTaken'
      BY <1>3, <3>1 DEF OwnWordsAreTaken
    <3> QED
      BY <3>1, <3>2, <3>3 DEF WordsInvariant, SendsLog
  <2>4. CASE PublishKeyLog \/ PublishRecord \/ GetKeyState
    BY <1>7, <2>4, SigningKeepsWords
  <2>5. CASE Arrives \/ IsLost \/ ProxyAnswers
    <3>1. call # NoCall /\ HonestCall(call)
      BY <2>5 DEF Arrives, IsLost, ProxyAnswers, WordsInvariant
    <3>2. CASE call = [op |-> "getKeyState"]
      <4>1. PICK result : Told(result) /\ UNCHANGED <<stored, served>>
        BY <2>5, <3>2, ReadingEnds
      <4> QED
        BY <1>1, <3>2, <4>1, ReadingKeepsWords
    <3>3. CASE call.op = "publish" /\ (KeyLogBody(call.body) \/ HonestRecord(call.body))
      <4>1. PICK result : Told(result) /\ (Taken(result) \/ NotTaken(result))
        BY <1>1, <2>5, <3>3, HolderFacts, PublishingEnds
      <4> QED
        BY <1>1, <3>3, <4>1, PublishingKeepsWords
    <3> QED
      BY <3>1, <3>2, <3>3 DEF HonestCall
  <2> QED
    BY <1>7, <2>1, <2>2, <2>3, <2>4, <2>5 DEF HolderNext
<1> QED
  BY <1>4, <1>5, <1>6, <1>7 DEF DirectoryNext

LEMMA InitEstablishesWords == DirectoryInit => WordsInvariant
<1> SUFFICES ASSUME DirectoryInit PROVE WordsInvariant
  OBVIOUS
<1>1. /\ stored = << >> /\ made = {} /\ call = NoCall /\ told = NoNews
  BY DEF DirectoryInit
<1>2. HonestCall(call) /\ ~SendsLog(call)
  BY <1>1 DEF HonestCall, SendsLog, NoCall
<1>3. Len(identity.log) \in Nat
  BY InitEstablishesHolders, HolderFacts DEF HoldersInvariant
<1>4. Continues(stored, identity.log)
  BY <1>1, <1>3 DEF Continues
<1>5. OwnWordsAreTaken
  BY <1>1 DEF OwnWordsAreTaken, NoNews
<1> QED
  BY <1>1, <1>2, <1>4, <1>5 DEF WordsInvariant

(* The directory refuses none of the holder's own words for what they are,     *)
(* whatever is lost, repeated or forgotten on the way: a log it minted replays,*)
(* it conflicts with what is stored only after a restart, and a self-record is *)
(* the record that was signed once it is parsed.                               *)
THEOREM HoldersWordsAreTaken == DirectorySpec => []OwnWordsAreTaken
<1>1. HoldersInvariant /\ WordsInvariant /\ [DirectoryNext]_directoryVars
      => HoldersInvariant' /\ WordsInvariant'
  BY HoldersIsInductive, WordsIsInductive
<1>2. WordsInvariant => OwnWordsAreTaken
  BY DEF WordsInvariant
<1> QED
  BY <1>1, <1>2, InitEstablishesHolders, InitEstablishesWords, PTL DEF DirectorySpec

(* Where two logs of one identity part they still reveal the same keys, be the *)
(* other one what a verifier accepted from others or what the holder published *)
(* before it was restored from an old file.                                    *)
THEOREM ForksShareCommitments == DirectorySpec => []ForksRevealTheSameKeys
<1>1. HoldersInvariant /\ WordsInvariant /\ [DirectoryNext]_directoryVars
      => HoldersInvariant' /\ WordsInvariant'
  BY HoldersIsInductive, WordsIsInductive
<1>2. HoldersInvariant /\ WordsInvariant => ForksRevealTheSameKeys
  <2> SUFFICES ASSUME HoldersInvariant, WordsInvariant, NEW log \in {accepted, stored},
                      ~IsPrefix(log, identity.log), ~IsPrefix(identity.log, log)
               PROVE  /\ log[Parting(log)].keys = identity.log[Parting(log)].keys
                      /\ log[Parting(log)].threshold = identity.log[Parting(log)].threshold
    BY DEF ForksRevealTheSameKeys
  <2>1. /\ Chain(identity.log) /\ identity.log[1].id = InceptionEvent.id
        /\ IsSequence(identity.log) /\ Len(identity.log) \in Nat
    BY HolderFacts DEF HoldersInvariant
  <2>2. IsSequence(log)
    BY StoredIsSequence DEF HoldersInvariant, AcceptedInvariant, Chain, WordsInvariant
  <2>3. log # << >>
    <3>1. log = << >> => IsPrefix(log, identity.log)
      BY <2>1, <2>2, PrefixFacts
    <3> QED
      BY <3>1
  <2>4. Chain(log) /\ log[1].id = InceptionEvent.id /\ Len(log) \in Nat
    BY <2>2, <2>3 DEF HoldersInvariant, AcceptedInvariant, WordsInvariant, Presentable, IsSequence
  <2>5. PICK i : i = Parting(log)
    OBVIOUS
  <2>6. /\ i \in 1 .. Len(log)
        /\ \A j \in 1 .. i - 1 : j <= Len(identity.log) /\ log[j] = identity.log[j]
    BY <2>1, <2>4, <2>5, PartingFacts
  <2>7. i <= Len(identity.log)
    <3>1. ASSUME ~(i <= Len(identity.log))
          PROVE  Len(identity.log) <= Len(log) /\ \A j \in 1 .. Len(identity.log) : identity.log[j] = log[j]
      BY <2>1, <2>4, <2>6, <3>1
    <3> QED
      BY <2>1, <2>2, <3>1, PrefixFacts
  <2> QED
    BY <2>1, <2>4, <2>5, <2>6, <2>7, SameCommitmentSameState
<1> QED
  BY <1>1, <1>2, InitEstablishesHolders, InitEstablishesWords, PTL DEF DirectorySpec

-------------------------------------------------------------------------------
(* Revocations.  One that was confirmed stays good: what the directory holds   *)
(* in its place is another good one of the same edge, and the log it is judged *)
(* against only gets longer.                                                   *)
AnchoredGood(record, log) ==
    LET states == AnchoredStates(log, record.anchor)
        state == CHOOSE s \in states : TRUE
    IN  /\ states # {}
        /\ Judgement(state.keys, state.threshold, Len(record.signers),
                     MadeBy(state, record.signers)) = "ok"

Revoked(edge, records, log) ==
    \E r \in records :
        /\ r.kind = "revocation"
        /\ r.revokes = edge
        /\ AnchoredGood(r, log)

RevocationsInvariant ==
    /\ \A edge \in withdrawn : Revoked(edge, served, stored)
    /\ check.at \in {"edge", "log", "revocations"} => check.withdrawn \subseteq withdrawn
    /\ RevocationTakesEffect

LEMMA JudgedAtAnchor ==
  ASSUME NEW record, NEW log
  PROVE  /\ CheckAnchored(record, log) = "ok" => AnchoredGood(record, log)
         /\ AnchoredGood(record, log) /\ ReplaysFor(identity.id, log) => CheckAnchored(record, log) = "ok"
  BY DEF CheckAnchored, AnchoredGood

LEMMA NothingIsAnchoredNowhere ==
  ASSUME NEW record
  PROVE  ~AnchoredGood(record, << >>)
<1>1. IsSequence(<< >>)
  BY DEF IsSequence
<1>2. AnchoredStates(<< >>, record.anchor) = {}
  BY <1>1, UnknownAnchor
<1> QED
  BY <1>2 DEF AnchoredGood

LEMMA GoodForTheLongerLog ==
  ASSUME NEW record, NEW log, NEW longer, IsSequence(log), IsSequence(longer),
         Continues(log, longer), AnchoredGood(record, log)
  PROVE  AnchoredGood(record, longer)
<1>1. AnchoredStates(log, record.anchor) # {}
  BY DEF AnchoredGood
<1>2. AnchoredStates(longer, record.anchor) = AnchoredStates(log, record.anchor)
  BY <1>1, ContinuationKeepsStates
<1> QED
  BY <1>2 DEF AnchoredGood

(* What the directory keeps of a revocation when it takes another record.      *)
LEMMA TakenRecordKeepsRevocations ==
  ASSUME NEW record, HonestRecord(record),
         record.kind = "revocation" => AnchoredGood(record, stored),
         NEW edge, Revoked(edge, served, stored)
  PROVE  Revoked(edge, Keep(record), stored)
<1>1. PICK r \in served : r.kind = "revocation" /\ r.revokes = edge /\ AnchoredGood(r, stored)
  BY DEF Revoked
<1>2. CASE Place(r) # Place(record)
  BY <1>1, <1>2 DEF Keep, Revoked
<1>3. CASE Place(r) = Place(record)
  <2>1. Place(r) = <<"revocation", edge>>
    BY <1>1 DEF Place
  <2>2. Place(record)[1] = record.kind /\ (record.kind = "revocation" => Place(record)[2] = record.revokes)
    BY DEF Place
  <2>3. record.kind = "revocation" /\ record.revokes = edge
    BY <1>3, <2>1, <2>2
  <2>4. record \in Keep(record)
    BY DEF Keep
  <2> QED
    BY <2>3, <2>4 DEF Revoked
<1> QED
  BY <1>2, <1>3

LEMMA PublishingKeepsRevocations ==
  ASSUME HolderInvariant, WordsInvariant, RevocationsInvariant, call.op = "publish",
         KeyLogBody(call.body) \/ HonestRecord(call.body),
         NEW result, Told(result), Taken(result) \/ NotTaken(result)
  PROVE  RevocationsInvariant'
<1>1. /\ told' = [to |-> "holder", call |-> call, result |-> result]
      /\ withdrawn' = IF result.kind = "revocation" THEN withdrawn \cup {result.revokes} ELSE withdrawn
      /\ check' = check
  BY DEF Told
<1>2. /\ KeyLogBody(call.body) <=> call.body.kind = "key-log"
      /\ call.body.kind # "key-log" => HonestRecord(call.body)
  BY HonestKinds DEF KeyLogBody
<1>3. ASSUME NEW edge, Revoked(edge, served, stored)
      PROVE  Revoked(edge, served', stored')
  <2>1. CASE stored' = stored /\ served' = served
    BY <1>3, <2>1
  <2>2. CASE Taken(result) /\ call.body.kind = "key-log"
    <3>1. KeyLogRefusal(call.body.events, call.key) = "none" /\ Presentable(call.body.events)
      BY <1>2, <2>2 DEF Taken, Refusal, KeyLogBody
    <3>2. IsPrefix(stored, call.body.events)
      BY <3>1, HolderFacts, RefusedLogs
    <3>3. IsSequence(stored) /\ IsSequence(call.body.events)
      BY <3>1, StoredIsSequence DEF WordsInvariant
    <3>4. Continues(stored, call.body.events)
      BY <3>2, <3>3, PrefixFacts DEF Continues
    <3>5. Revoked(edge, served, call.body.events)
      BY <1>3, <3>3, <3>4, GoodForTheLongerLog DEF Revoked
    <3> QED
      BY <2>2, <3>5 DEF Taken
  <2>3. CASE Taken(result) /\ call.body.kind # "key-log"
    <3>1. RecordRefusal(call.body, call.key) = "none" /\ HonestRecord(call.body)
      BY <1>2, <2>3 DEF Taken, Refusal
    <3>2. call.body.kind = "revocation" => AnchoredGood(call.body, stored)
      BY <3>1, RefusedRecords, JudgedAtAnchor
    <3>3. Revoked(edge, Keep(call.body), stored)
      BY <1>3, <3>1, <3>2, TakenRecordKeepsRevocations
    <3> QED
      BY <2>3, <3>3 DEF Taken
  <2> QED
    BY <2>1, <2>2, <2>3 DEF NotTaken
<1>4. ASSUME result.kind = "revocation"
      PROVE  Revoked(result.revokes, served', stored')
  <2>1. \A code : Thrown(code).kind = "thrown"
    BY DEF Thrown
  <2>2. StateOf(call.body.events).kind = "state"
    BY DEF StateOf
  <2>3. ~NotTaken(result)
    BY <1>4, <2>1, <2>2 DEF NotTaken
  <2>4. Taken(result) /\ call.body.kind # "key-log" /\ result = call.body
    BY <1>4, <2>1, <2>2, <2>3 DEF Taken
  <2>5. /\ RecordRefusal(result, call.key) = "none"
        /\ served' = Keep(result) /\ stored' = stored
    BY <2>4 DEF Taken, Refusal
  <2>6. AnchoredGood(result, stored)
    BY <1>4, <2>5, RefusedRecords, JudgedAtAnchor
  <2>7. result \in served'
    BY <2>5 DEF Keep
  <2> QED
    BY <1>4, <2>5, <2>6, <2>7 DEF Revoked
<1>5. \A edge \in withdrawn' : Revoked(edge, served', stored')
  BY <1>1, <1>3, <1>4 DEF RevocationsInvariant
<1>6. RevocationTakesEffect'
  <2>1. told'.to = "holder"
    BY <1>1
  <2> QED
    BY <2>1 DEF RevocationTakesEffect
<1>7. check'.at \in {"edge", "log", "revocations"} => check'.withdrawn \subseteq withdrawn'
  BY <1>1 DEF RevocationsInvariant
<1> QED
  BY <1>5, <1>6, <1>7 DEF RevocationsInvariant

(* The counterparty's last read finds a revocation that was confirmed before   *)
(* its verification began, unless the log has grown since.                     *)
LEMMA CounterpartyKeepsRevocations ==
  ASSUME HolderInvariant, WordsInvariant, RevocationsInvariant, CounterpartyNext
  PROVE  RevocationsInvariant'
<1>1. UNCHANGED <<served, stored, withdrawn>>
  BY DEF CounterpartyNext, ConsumeAgentCard, ReadEdge, ReadLog, ReadRevocations, ReadFails,
         UnchangedByReader
<1>2. \A edge \in withdrawn' : Revoked(edge, served', stored')
  BY <1>1 DEF RevocationsInvariant
<1>3. check'.at \in {"edge", "log", "revocations"} => check'.withdrawn \subseteq withdrawn'
  <2>1. NoCheck.at = "idle"
    BY DEF NoCheck
  <2>2. CASE ConsumeAgentCard
    BY <1>1, <2>1, <2>2 DEF ConsumeAgentCard, Verdict, Read
  <2>3. CASE ReadEdge
    <3>1. check.withdrawn \subseteq withdrawn
      BY <2>3 DEF ReadEdge, RevocationsInvariant
    <3>2. check' = NoCheck \/ check'.withdrawn = check.withdrawn
      BY <2>3 DEF ReadEdge, Verdict, Read
    <3> QED
      BY <1>1, <2>1, <3>1, <3>2
  <2>4. CASE ReadLog
    <3>1. check.withdrawn \subseteq withdrawn
      BY <2>4 DEF ReadLog, RevocationsInvariant
    <3>2. check' = NoCheck \/ check'.withdrawn = check.withdrawn
      BY <2>4 DEF ReadLog, Verdict, Read
    <3> QED
      BY <1>1, <2>1, <3>1, <3>2
  <2>5. CASE ReadRevocations \/ ReadFails
    BY <2>1, <2>5 DEF ReadRevocations, ReadFails, Verdict
  <2> QED
    BY <2>2, <2>3, <2>4, <2>5 DEF CounterpartyNext
<1>4. RevocationTakesEffect'
  <2>1. CASE ReadRevocations
    <3>1. CASE told'.status = "verified"
      <4>1. /\ check.at = "revocations"
            /\ ~\E r \in served : Place(r) = <<"revocation", check.edge>> /\ CheckAnchored(r, check.log) = "ok"
            /\ told' = [to |-> "counterparty", status |-> "verified", edges |-> {check.edge}, check |-> check]
        BY <2>1, <3>1 DEF ReadRevocations, Verdict
      <4>2. ASSUME check.edge \in check.withdrawn, stored = check.log PROVE FALSE
        <5>1. Revoked(check.edge, served, stored)
          BY <4>1, <4>2 DEF RevocationsInvariant
        <5>2. PICK r \in served : r.kind = "revocation" /\ r.revokes = check.edge /\ AnchoredGood(r, stored)
          BY <5>1 DEF Revoked
        <5>3. Presentable(stored)
          BY <5>2, NothingIsAnchoredNowhere DEF WordsInvariant
        <5>4. ReplaysFor(identity.id, stored)
          BY <5>3, HolderFacts, ChainReplays DEF Presentable, ReplaysFor
        <5>5. CheckAnchored(r, check.log) = "ok"
          BY <4>2, <5>2, <5>4, JudgedAtAnchor
        <5>6. Place(r) = <<"revocation", check.edge>>
          BY <5>2 DEF Place
        <5> QED
          BY <4>1, <5>2, <5>5, <5>6
      <4>3. told'.edges = {check.edge} /\ told'.check = check
        BY <4>1
      <4>4. \A edge \in told'.edges : edge \in told'.check.withdrawn => stored' # told'.check.log
        BY <1>1, <4>2, <4>3
      <4> QED
        BY <4>4 DEF RevocationTakesEffect
    <3>2. CASE told'.status # "verified"
      BY <3>2 DEF RevocationTakesEffect
    <3> QED
      BY <3>1, <3>2
  <2>2. CASE ~ReadRevocations
    <3>1. told' = NoNews \/ told'.edges = {}
      BY <2>2 DEF CounterpartyNext, ConsumeAgentCard, ReadEdge, ReadLog, ReadFails, Verdict, Read
    <3>2. NoNews.to # "counterparty"
      BY DEF NoNews
    <3> QED
      BY <3>1, <3>2 DEF RevocationTakesEffect
  <2> QED
    BY <2>1, <2>2
<1> QED
  BY <1>2, <1>3, <1>4 DEF RevocationsInvariant

LEMMA RevocationsIsInductive ==
  ASSUME HoldersInvariant, WordsInvariant, RevocationsInvariant, [DirectoryNext]_directoryVars
  PROVE  RevocationsInvariant'
<1>1. HolderInvariant
  BY DEF HoldersInvariant
<1>2. ASSUME UNCHANGED <<stored, served, withdrawn, check>>, told' = told \/ told'.to # "counterparty"
      PROVE  RevocationsInvariant'
  <2>1. \A edge \in withdrawn' : Revoked(edge, served', stored')
    BY <1>2 DEF RevocationsInvariant
  <2>2. RevocationTakesEffect'
    BY <1>2 DEF RevocationsInvariant, RevocationTakesEffect
  <2> QED
    BY <1>2, <2>1, <2>2 DEF RevocationsInvariant
<1>3. NoNews.to # "counterparty"
  BY DEF NoNews
<1>4. CASE host = "answers" /\ Next /\ UNCHANGED kept
  BY <1>2, <1>4 DEF kept
<1>5. CASE UNCHANGED directoryVars
  BY <1>2, <1>5 DEF directoryVars, kept
<1>6. CASE host = "keeps" /\ CounterpartyNext
  BY <1>1, <1>6, CounterpartyKeepsRevocations
<1>7. CASE host = "keeps" /\ HolderNext
  <2>1. CASE RotateIdentity \/ SaveIdentity \/ Restart \/ MakeRecord
    BY <1>2, <1>3, <2>1 DEF RotateIdentity, SaveIdentity, Restart, MakeRecord
  <2>2. CASE PublishKeyLog \/ PublishRecord \/ GetKeyState
    BY <1>2, <1>3, <2>2 DEF PublishKeyLog, PublishRecord, SignedPut, GetKeyState
  <2>3. CASE Arrives \/ IsLost \/ ProxyAnswers
    <3>1. call # NoCall /\ HonestCall(call)
      BY <2>3 DEF Arrives, IsLost, ProxyAnswers, WordsInvariant
    <3>2. CASE call = [op |-> "getKeyState"]
      <4>1. PICK result : Told(result) /\ result.kind # "revocation" /\ UNCHANGED <<stored, served>>
        BY <2>3, <3>2, ReadingEnds
      <4>2. UNCHANGED <<withdrawn, check>> /\ told'.to = "holder"
        BY <4>1 DEF Told
      <4> QED
        BY <1>2, <4>1, <4>2
    <3>3. CASE call.op = "publish" /\ (KeyLogBody(call.body) \/ HonestRecord(call.body))
      <4>1. PICK result : Told(result) /\ (Taken(result) \/ NotTaken(result))
        BY <1>1, <2>3, <3>3, HolderFacts, PublishingEnds
      <4> QED
        BY <1>1, <3>3, <4>1, PublishingKeepsRevocations
    <3> QED
      BY <3>1, <3>2, <3>3 DEF HonestCall
  <2> QED
    BY <1>7, <2>1, <2>2, <2>3 DEF HolderNext
<1> QED
  BY <1>4, <1>5, <1>6, <1>7 DEF DirectoryNext

LEMMA InitEstablishesRevocations == DirectoryInit => RevocationsInvariant
  BY DEF DirectoryInit, RevocationsInvariant, RevocationTakesEffect, NoCheck, NoNews

(* An organization that was told its revocation of an edge is published need   *)
(* not wait: a card that anyone starts to verify after that is never verified  *)
(* on that edge, unless the organization's log grew in between.                *)
THEOREM ConfirmedRevocationsCount == DirectorySpec => []RevocationTakesEffect
<1>1. HoldersInvariant /\ WordsInvariant /\ RevocationsInvariant /\ [DirectoryNext]_directoryVars
      => HoldersInvariant' /\ WordsInvariant' /\ RevocationsInvariant'
  BY HoldersIsInductive, WordsIsInductive, RevocationsIsInductive
<1>2. RevocationsInvariant => RevocationTakesEffect
  BY DEF RevocationsInvariant
<1> QED
  BY <1>1, <1>2, InitEstablishesHolders, InitEstablishesWords, InitEstablishesRevocations,
     PTL DEF DirectorySpec
===============================================================================
