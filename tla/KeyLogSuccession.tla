--------------------------- MODULE KeyLogSuccession ---------------------------
(***************************************************************************)
(* Who may continue a key log.  Beside the holder there are other parties, *)
(* who come to hold some of the holder's keys (held) and a key of their    *)
(* own, and who present logs to a verifier: any prefix of the published    *)
(* log, or of a log accepted before, with an event of theirs on the end,   *)
(* signed with what they hold.  The verifier replays what it is presented  *)
(* for the participant it asked about and remembers what it accepted.      *)
(***************************************************************************)
EXTENDS KeyLog

CONSTANT
    MaxHeld       \* bound: how many of the holder's keys get into other hands

VARIABLES
    held,         \* the holder's keys that others hold as well
    accepted      \* the log the verifier accepted last

vars == <<holderVars, held, accepted>>

Init ==
    /\ CreateIdentity
    /\ held = {}
    /\ accepted = identity.log

Usable == held \cup {Outside}

(* The key state a log's last event is committed to, as its holder knows it. *)
CommittedKeys == IF heir = NoHeir THEN identity.nextKeys ELSE heir.keys
CommittedThreshold == IF heir = NoHeir THEN identity.nextThreshold ELSE heir.threshold

(* Lists of at most two keys, which suffices for every shape below. *)
Lists(keys) == {<<k>> : k \in keys} \cup {<<k, l>> : k, l \in keys}

(* What the other parties may put on the end of base: a rotation that reveals *)
(* any keys at any threshold, commits to a state of their own, and is signed  *)
(* with keys they hold; or an event taken from the published log; or, on its  *)
(* own, an inception under the holder's id.                                   *)
ForeignRotation(base, keys, text, signers) ==
    [id |-> identity.id, seq |-> Len(base),
     prior |-> EventDigest(Last(base)),
     kind |-> "rot", keys |-> keys, threshold |-> text,
     next |-> CommitToKeyState(<<Outside>>, 1), signers |-> signers]

ForeignInception(keys, text, next, signers) ==
    [id |-> identity.id, seq |-> 0, prior |-> NoPrior, kind |-> "icp",
     keys |-> keys, threshold |-> text, next |-> next, signers |-> signers]

Bases(log) == Prefixes(log) \ {<< >>}

Accept(log) ==
    /\ ReplaysFor(identity.id, log)
    /\ accepted' = log
    /\ UNCHANGED <<holderVars, held>>

PresentRotation ==
    \E base \in Bases(identity.log) \cup Bases(accepted) :
        /\ Len(base) < MaxEvents
        /\ \E keys \in Lists(1 .. minted \cup {Outside}), text \in {Malformed, 1, 2},
              signers \in Lists(Usable) :
              Accept(Append(base, ForeignRotation(base, keys, text, signers)))

PresentReordered ==
    \E base \in Bases(identity.log), i \in DOMAIN identity.log :
        Accept(Append(base, identity.log[i]))

PresentInception ==
    \E keys \in Lists({1, Outside}), text \in {1, 2}, signers \in Lists(Usable),
       next \in {CommitToKeyState(<<Outside>>, 1), identity.log[1].next} :
        Accept(<<ForeignInception(keys, text, next, signers)>>)

(* A key of the holder's gets into other hands. *)
LoseKey ==
    /\ Cardinality(held) < MaxHeld
    /\ \E key \in 1 .. minted : held' = held \cup {key}
    /\ UNCHANGED <<holderVars, accepted>>

Next ==
    \/ HolderStep(Shapes) /\ UNCHANGED <<held, accepted>>
    \/ LoseKey
    \/ PresentRotation
    \/ PresentReordered
    \/ PresentInception

Spec == Init /\ [][Next]_vars

-------------------------------------------------------------------------------
(* Where a log the verifier accepted parts from the holder's: the first      *)
(* event they do not share.                                                  *)
Parting(log) ==
    CHOOSE i \in 1 .. Len(log) :
        /\ \A j \in 1 .. i - 1 : j <= Len(identity.log) /\ log[j] = identity.log[j]
        /\ i > Len(identity.log) \/ log[i] # identity.log[i]

QuorumHeld(keys, threshold) == Cardinality(held \cap ToSet(keys)) >= threshold

(* A log that parts from the holder's is accepted only when others hold a    *)
(* quorum of the very state the log had committed to at that point: fewer    *)
(* keys than the committed threshold do not suffice, keys of any other state *)
(* do not help, and the bar cannot be lowered (spec 003: "an attacker        *)
(* holding fewer than the committed threshold of the next keys cannot rotate *)
(* either, and cannot lower the bar").                                       *)
SuccessionNeedsQuorum ==
    ~IsPrefix(accepted, identity.log) =>
        LET i == Parting(accepted)
        IN  IF i <= Len(identity.log)
            THEN QuorumHeld(identity.log[i].keys, identity.log[i].threshold)
            ELSE QuorumHeld(CommittedKeys, CommittedThreshold)
===============================================================================
