-------------------------------- MODULE KeyLog --------------------------------
(***************************************************************************)
(* The key history of packages/crypto/src/log.ts: key events, the digests  *)
(* that chain and commit them, replay, and the holder's side of it         *)
(* (createIdentity, rotateIdentity and the custody handover).              *)
(*                                                                         *)
(* A digest is an injective function of what it digests: here, the thing   *)
(* itself with a tag.  A key stands for its key pair; event.signers is the *)
(* sequence of keys that signed exactly this event, in signature order.    *)
(***************************************************************************)
EXTENDS SignatureSet, SequencesExt

CONSTANTS
    MaxKeys,     \* MAX_KEY_EVENT_KEYS
    MaxEvents,   \* MAX_KEY_LOG_EVENTS
    Shapes,      \* <<keys, threshold>> the holder rotates to
    Outside,     \* a key that is none of the holder's
    MaxMinted    \* bound: key pairs the holders generate

ASSUME KeyLogAssumption ==
    /\ MaxKeys \in Nat \ {0}
    /\ MaxEvents \in Nat \ {0}
    /\ Shapes \subseteq Nat \X Int
    /\ MaxMinted \in Nat \ {0, 1}
    /\ Outside \notin 1 .. MaxMinted

VARIABLES
    identity,   \* Identity: what the current holder keeps, and the published log
    heir,       \* the next key state handed to another holder, or NoHeir
    minted      \* key pairs generated so far; they are numbered from one

holderVars == <<identity, heir, minted>>

NoPrior == << >>
NoHeir == [keys |-> << >>, threshold |-> NoThreshold]

-------------------------------------------------------------------------------
(* Digests. *)
EventDigest(event) == <<"event", event>>

(* A fault to be caught: the commitment covers the keys and not the threshold. *)
FaultyCommitToKeyState(keys, text) == <<"state", keys>>

CommitToKeyState(keys, text) == <<"state", keys, text>>

EstablishmentData(event) ==
    [seq |-> event.seq, kind |-> event.kind, keys |-> event.keys,
     threshold |-> event.threshold, next |-> event.next]

DeriveParticipantId(establishment) == <<"pk", establishment>>

(* The states commitToKeyState agrees to commit. *)
Committable(keys, text) ==
    /\ Len(keys) <= MaxKeys
    /\ CheckKeyState(keys, text) = "ok"

-------------------------------------------------------------------------------
(* verifyEventSignatures: the event judged against its own keys and threshold. *)
SignedBy(event) ==
    [i \in DOMAIN event.signers |->
        {j \in DOMAIN event.keys : event.keys[j] = event.signers[i]}]

SignaturesVerify(event) ==
    /\ Len(event.signers) <= Len(event.keys)
    /\ Judgement(event.keys, event.threshold, Len(event.signers), SignedBy(event)) = "ok"

InceptionReplays(event) ==
    /\ event.kind = "icp"
    /\ event.seq = 0
    /\ event.prior = NoPrior
    /\ Len(event.keys) <= MaxKeys
    /\ event.id = DeriveParticipantId(EstablishmentData(event))
    /\ SignaturesVerify(event)

(* A fault to be caught: a rotation need not reveal what was committed. *)
FaultyRotationReplays(previous, event, id) ==
    /\ event.kind = "rot"
    /\ event.id = id
    /\ event.seq = previous.seq + 1
    /\ event.prior = EventDigest(previous)
    /\ Committable(event.keys, event.threshold)
    /\ SignaturesVerify(event)

RotationReplays(previous, event, id) ==
    /\ event.kind = "rot"
    /\ event.id = id
    /\ event.seq = previous.seq + 1
    /\ event.prior = EventDigest(previous)
    /\ Committable(event.keys, event.threshold)
    /\ CommitToKeyState(event.keys, event.threshold) = previous.next
    /\ SignaturesVerify(event)

(* replay: throws on the first event that breaks a rule. *)
Replays(log) ==
    /\ Len(log) \in 1 .. MaxEvents
    /\ InceptionReplays(log[1])
    /\ \A i \in 2 .. Len(log) : RotationReplays(log[i - 1], log[i], log[1].id)

(* replayKeyLogFor: the log must also be the one asked for. *)
ReplaysFor(id, log) == Replays(log) /\ log[1].id = id

(* The states a replayed log commits, each named by its event's digest. *)
KeyStateOf(event) ==
    [id |-> event.id, keys |-> event.keys, threshold |-> event.threshold,
     seq |-> event.seq, anchor |-> EventDigest(event)]

(* A fault to be caught: only the current state is looked at. *)
FaultyAnchoredStates(log, anchor) ==
    {KeyStateOf(Last(log)) : i \in {j \in {Len(log)} : EventDigest(log[j]) = anchor}}

(* findAnchoredKeyState: the one state the anchor names, if any. *)
AnchoredStates(log, anchor) ==
    {KeyStateOf(log[i]) : i \in {j \in DOMAIN log : EventDigest(log[j]) = anchor}}

KeyLogAnchor(log) == EventDigest(Last(log))

-------------------------------------------------------------------------------
(* generateKeyPair: the next unused keys. *)
FreshKeys(from, count) == [i \in 1 .. count |-> from + i]

(* The first event of a log, which names the log's identity. *)
Inception(keys, threshold, next) ==
    LET establishment == [seq |-> 0, kind |-> "icp", keys |-> keys,
                          threshold |-> threshold, next |-> next]
    IN  [id |-> DeriveParticipantId(establishment), seq |-> 0, prior |-> NoPrior,
         kind |-> "icp", keys |-> keys, threshold |-> threshold, next |-> next,
         signers |-> keys]

(* createIdentity: one key, one next key, threshold one. *)
InceptionEvent == Inception(<<1>>, 1, CommitToKeyState(<<2>>, 1))

CreateIdentity ==
    /\ identity = [id |-> InceptionEvent.id, log |-> <<InceptionEvent>>,
                   currentKeys |-> <<1>>, nextKeys |-> <<2>>, nextThreshold |-> 1]
    /\ heir = NoHeir
    /\ minted = 2

(* The event rotateIdentity mints: the committed keys and threshold, and the *)
(* first threshold-many of those keys as signers.                            *)
RotationEvent(next) ==
    [id |-> identity.id,
     seq |-> Last(identity.log).seq + 1,
     prior |-> EventDigest(Last(identity.log)),
     kind |-> "rot",
     keys |-> identity.nextKeys,
     threshold |-> identity.nextThreshold,
     next |-> next,
     signers |-> SubSeq(identity.nextKeys, 1, ParseThreshold(identity.nextThreshold))]

CanRotate ==
    /\ identity.nextKeys # << >>
    /\ identity.nextThreshold # NoThreshold
    /\ ParseThreshold(identity.nextThreshold) \in 1 .. Len(identity.nextKeys)

(* rotateIdentity with nextKeyCount and nextThreshold. *)
Rotate(nextKeyCount, nextThreshold) ==
    LET newNext == FreshKeys(minted, nextKeyCount)
        event == RotationEvent(CommitToKeyState(newNext, nextThreshold))
    IN  /\ CanRotate
        /\ nextKeyCount \in 1 .. MaxKeys
        /\ ParseThreshold(nextThreshold) \in 1 .. nextKeyCount
        /\ minted + nextKeyCount <= MaxMinted
        /\ identity' = [id |-> identity.id,
                        log |-> Append(identity.log, event),
                        currentKeys |-> identity.nextKeys,
                        nextKeys |-> newNext,
                        nextThreshold |-> nextThreshold]
        /\ minted' = minted + nextKeyCount
        /\ UNCHANGED heir

(* rotateIdentity with nextCommitment: the custody exit.  The committed state *)
(* is built by its holder, through commitToKeyState.                          *)
HandOver(keyCount, threshold) ==
    LET committed == FreshKeys(minted, keyCount)
        event == RotationEvent(CommitToKeyState(committed, threshold))
    IN  /\ CanRotate
        /\ minted + keyCount <= MaxMinted
        /\ Committable(committed, threshold)
        /\ identity' = [id |-> identity.id,
                        log |-> Append(identity.log, event),
                        currentKeys |-> identity.nextKeys,
                        nextKeys |-> << >>,
                        nextThreshold |-> NoThreshold]
        /\ heir' = [keys |-> committed, threshold |-> threshold]
        /\ minted' = minted + keyCount

(* The committed holder takes the published log up with its own next keys. *)
TakeOver ==
    /\ heir # NoHeir
    /\ identity' = [identity EXCEPT !.currentKeys = << >>,
                                    !.nextKeys = heir.keys,
                                    !.nextThreshold = heir.threshold]
    /\ heir' = NoHeir
    /\ UNCHANGED minted

HolderStep(shapes) ==
    \/ \E shape \in shapes : Rotate(shape[1], shape[2]) \/ HandOver(shape[1], shape[2])
    \/ TakeOver

===============================================================================
