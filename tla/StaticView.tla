------------------------------ MODULE StaticView ------------------------------
(***************************************************************************)
(* createStaticTrustView of packages/verify/src/static-view.ts: a view over *)
(* records already in hand.  It verifies nothing; its lookups decide which  *)
(* of the records in hand a verifier gets to see.                          *)
(*                                                                         *)
(* An event of a key log is a record                                        *)
(* [derives, id, keys, threshold, sound, price]: derives is the id its      *)
(* establishment data digests to, id the one it names, sound says that it   *)
(* follows from the event before it, and price is the number of curve       *)
(* checks after which a replay knows: none when its structure already fails.*)
(* Edges and revocations carry one signature.                               *)
(***************************************************************************)
EXTENDS Integers, Sequences, FiniteSets

CONSTANTS
    KeyLogs,         \* options.keyLogs: logs in the order they were given
    Relationships,   \* options.relationships, in order
    Revocations      \* options.revocations, in order

IsSequence(s) == s \in Seq({s[i] : i \in DOMAIN s})

ASSUME StaticViewAssumption ==
    /\ IsSequence(KeyLogs) /\ IsSequence(Relationships) /\ IsSequence(Revocations)
    /\ \A i \in DOMAIN KeyLogs :
          /\ IsSequence(KeyLogs[i])
          /\ \A j \in DOMAIN KeyLogs[i] :
                /\ IsSequence(KeyLogs[i][j].keys)
                /\ KeyLogs[i][j].price \in 0 .. Len(KeyLogs[i][j].keys)

NoLog == << >>
NoState == [keys |-> << >>, threshold |-> 0]

(* The last of the places in s, or the first; there is one. *)
LastOf(places) == CHOOSE i \in places : \A j \in places : j <= i
FirstOf(places) == CHOOSE i \in places : \A j \in places : i <= j

FiledUnder(id) == {i \in DOMAIN KeyLogs : KeyLogs[i] # NoLog /\ KeyLogs[i][1].derives = id}

(* getKeyLog: a log is filed under the id its inception derives, whether or   *)
(* not it replays; a later one takes the place of an earlier one.             *)
GetKeyLog(id) ==
    IF FiledUnder(id) = {} THEN NoLog ELSE KeyLogs[LastOf(FiledUnder(id))]

Follows(id, event) == event.sound /\ event.id = id
ReplaysAs(id, log) == \A i \in DOMAIN log : Follows(id, log[i])

Resolves(id) == GetKeyLog(id) # NoLog /\ ReplaysAs(id, GetKeyLog(id))

(* The curve checks of a replay, up to the end or the first event that fails. *)
ReplayCost(id) ==
    LET log == GetKeyLog(id)
        judged == {i \in DOMAIN log : \A j \in 1 .. i - 1 : Follows(id, log[j])}
    IN  Cardinality(UNION {{i} \X (1 .. log[i].price) : i \in judged})

(* getKeyState for an operation: the last state of the log, bound to the id.  *)
GetKeyState(id) ==
    LET log == GetKeyLog(id)
    IN  IF ~Resolves(id) THEN NoState
        ELSE [keys |-> log[Len(log)].keys, threshold |-> log[Len(log)].threshold]

(* One signature satisfies a state of threshold 1, under one of its keys; a   *)
(* state of another threshold refuses it by its count, before any curve work. *)
SatisfiedBy(state, signer) ==
    state.threshold = 1 /\ \E j \in DOMAIN state.keys : state.keys[j] = signer

(* The keys the walk tries: all of them, or up to the one that matches.       *)
KeysTried(state, signer) ==
    {j \in DOMAIN state.keys :
        state.threshold = 1 /\ \A i \in 1 .. j - 1 : state.keys[i] # signer}

(* signedAtAnchor: the state the anchor names, and no other.                  *)
SignedAt(id, anchor, signer) ==
    /\ Resolves(id)
    /\ anchor \in DOMAIN GetKeyLog(id)
    /\ SatisfiedBy(GetKeyLog(id)[anchor], signer)

AnchoredCost(id, anchor, signer) ==
    IF Resolves(id) /\ anchor \in DOMAIN GetKeyLog(id)
    THEN Cardinality(KeysTried(GetKeyLog(id)[anchor], signer)) ELSE 0

(* signedByAnyState: the newest state first, each state once.                 *)
SignedAtAnyTime(id, signer) ==
    \E anchor \in DOMAIN GetKeyLog(id) : SignedAt(id, anchor, signer)

SearchCost(id, signer) ==
    LET log == GetKeyLog(id)
        same(i, j) == log[i].keys = log[j].keys /\ log[i].threshold = log[j].threshold
        reached == {i \in DOMAIN log : \A j \in DOMAIN log :
                        j > i => ~same(i, j) /\ ~SatisfiedBy(log[j], signer)}
    IN  IF Resolves(id)
        THEN Cardinality(UNION {{i} \X KeysTried(log[i], signer) : i \in reached})
        ELSE 0

(* getRelationshipEdge: the last edge given for the whole decision tuple. *)
EdgesOn(issuer, subject, object) ==
    {i \in DOMAIN Relationships :
        /\ Relationships[i].issuer = issuer
        /\ Relationships[i].subject = subject
        /\ Relationships[i].object = object}

GetRelationshipEdge(issuer, subject, object) ==
    {Relationships[i] : i \in {j \in EdgesOn(issuer, subject, object) :
                                  j = LastOf(EdgesOn(issuer, subject, object))}}

(* getRevocations: of each issuer asked about, the first record that names    *)
(* the digest.                                                                *)
Naming(digest, issuer) ==
    {i \in DOMAIN Revocations :
        Revocations[i].revokes = digest /\ Revocations[i].issuer = issuer}

(* A fault to be caught: the first record answers, whoever it is by. *)
FaultyGetRevocations(digest, issuers) ==
    LET found == {i \in DOMAIN Revocations : Revocations[i].revokes = digest}
    IN  {Revocations[i] : i \in {j \in found : j = FirstOf(found)}}

GetRevocations(digest, issuers) ==
    {Revocations[i] :
        i \in UNION {{j \in Naming(digest, issuer) : j = FirstOf(Naming(digest, issuer))} :
                        issuer \in issuers}}
===============================================================================
