---------------------------- MODULE RecordIssuing ----------------------------
(***************************************************************************)
(* Records that carry a signature set and an anchor: packages/trust/src/   *)
(* issue.ts mints them with the holder's current keys, records.ts judges   *)
(* them against the one key state the anchor names.  The holder goes on    *)
(* rotating.                                                               *)
(***************************************************************************)
EXTENDS AnchoredRecords

VARIABLE issued   \* the records minted so far, less the fields nothing here reads

issuingVars == <<holderVars, issued>>

IssuingInit == CreateIdentity /\ issued = {}

-------------------------------------------------------------------------------
(* issueRevocation: signed by all the current keys, anchored to the log's end. *)
IssueRevocation ==
    /\ issued' = issued \cup {[anchor |-> KeyLogAnchor(identity.log),
                               signers |-> identity.currentKeys]}
    /\ UNCHANGED holderVars

(* issueGrant: the same, and assertGrant refuses a record without signatures. *)
IssueGrant ==
    /\ identity.currentKeys # << >>
    /\ IssueRevocation

IssuingNext ==
    \/ HolderStep(Shapes) /\ UNCHANGED issued
    \/ IssueRevocation
    \/ IssueGrant

IssuingSpec == IssuingInit /\ [][IssuingNext]_issuingVars

-------------------------------------------------------------------------------
(* A log longer than its bound has no states to judge a record against. *)
WithinBound(log) == Len(log) <= MaxEvents

(* The verdict on a record never changes: a rotation, a handover or a takeover *)
(* orphans no record and rescues none ("Anchoring does NOT orphan a record     *)
(* when its issuer rotates", records.ts).                                      *)
VerdictsAreFinal ==
    [][WithinBound(identity'.log) => \A record \in issued :
           CheckAnchored(record, identity'.log) = CheckAnchored(record, identity.log)]_issuingVars

(* What issue.ts says of a committee: signing with all the current keys, "an   *)
(* issuer running a signing committee satisfies its own threshold".            *)
CommitteeSatisfiesItsThreshold ==
    WithinBound(identity.log) => \A record \in issued :
        record.signers # << >> => CheckAnchored(record, identity.log) = "ok"
===============================================================================
