------------------------------ MODULE RecordUnit ------------------------------
(***************************************************************************)
(* verifyUnit of packages/verify/src/record-unit.ts: a conversation record *)
(* travels with, or without, the chain that authorizes it, and everyone    *)
(* who holds the same bytes must come to the same verdict.  The verifier's *)
(* view has seen a part of the principal's key log and catches up with it; *)
(* the principal goes on rotating.  A unit that waits is judged again.     *)
(*                                                                         *)
(* The chain is one grant, from the principal to a session key: longer     *)
(* ones are GrantChain's.  A record says which ability it asks for.        *)
(***************************************************************************)
EXTENDS RecordIssuing

CONSTANTS
    Session,     \* the key grants are made to
    Allowances   \* what a call may spend

ASSUME RecordUnitAssumption == Allowances \subseteq Nat

VARIABLES
    view,        \* "honest": the part of the log it has seen; "any": any answer
    role,        \* "node" checks revocations, "member" does not
    allowance,   \* options.budget
    unit,        \* the unit that was received, or NoUnit
    seen,        \* events of the principal's log the view has seen
    revocation,  \* the view knows of a revocation of the grant
    verdict      \* what verifyUnit last said of the unit, or "none"

verifierVars == <<view, role, allowance, unit, seen, revocation, verdict>>
unitVars == <<issuingVars, verifierVars>>

NoUnit == << >>
NoAnchor == << >>
NoChain == << >>
Throws == <<[throws |-> TRUE]>>

(* Another participant's log, of one event. *)
OtherInception == Inception(<<Outside>>, 1, CommitToKeyState(<<Outside>>, 1))

-------------------------------------------------------------------------------
(* The units that are received: made of what the principal issued, and what    *)
(* others make of them.                                                        *)
OwnerUnit(record) ==
    [kind |-> "update", anchor |-> record.anchor, signers |-> record.signers, chain |-> NoChain]

Link(record) ==
    [anchor |-> record.anchor, signers |-> record.signers, subject |-> identity.id,
     audience |-> [key |-> Session], abilities |-> {"msg/conversation-update", "msg/conversation"},
     inWindow |-> TRUE]

DelegatedUnit(record) ==
    [kind |-> "update", anchor |-> NoAnchor, signers |-> <<Session>>, chain |-> <<Link(record)>>]

Relink(u, link) == [u EXCEPT !.chain = <<link>>]

(* The same grant, made by another participant for itself. *)
Resign(link, inception) ==
    [link EXCEPT !.subject = inception.id, !.anchor = EventDigest(inception),
                 !.signers = inception.signers]

OwnerVariants(u) ==
    {u, [u EXCEPT !.signers = @ \o <<Outside>>], [u EXCEPT !.anchor = NoAnchor],
     [u EXCEPT !.anchor = EventDigest(OtherInception), !.signers = <<Outside>>]}

DelegatedVariants(u) ==
    LET link == u.chain[1]
    IN  {u, [u EXCEPT !.kind = "conversation"], [u EXCEPT !.kind = "departure"],
         Relink([u EXCEPT !.kind = "departure"],
                [link EXCEPT !.abilities = {"conversation/self-remove"}]),
         Relink(u, [link EXCEPT !.abilities = {"conversation/self-remove"}]),
         [u EXCEPT !.signers = <<Session, Session>>], [u EXCEPT !.signers = <<Outside>>],
         [u EXCEPT !.anchor = KeyLogAnchor(identity.log)],
         Relink(u, Resign(link, OtherInception)),
         Relink(u, [link EXCEPT !.audience = [participant |-> identity.id]]),
         Relink(u, [link EXCEPT !.inWindow = FALSE])}

Units ==
    UNION {OwnerVariants(OwnerUnit(r)) \cup DelegatedVariants(DelegatedUnit(r)) : r \in issued}

-------------------------------------------------------------------------------
(* replayedStates: what becomes of the answer to getKeyLog(id), of a call that  *)
(* affords so many verifications.                                              *)
ReplayCost(log) == Len(log) * MaxKeys

ReplayedStates(id, log, affords) ==
    IF log \in {<< >>, Throws} THEN "unresolved"
    ELSE IF ReplayCost(log) > affords THEN "too_expensive"
    ELSE IF ~Replays(log) THEN "unresolved"
    ELSE IF log[1].id # id THEN "mismatched"
    ELSE "ok"

(* signedAtAnchor, of the record or of the link: one state is tried, if the    *)
(* log has it.                                                                 *)
SignedAtAnchor(record, log, affords) ==
    IF AnchoredStates(log, record.anchor) = {} THEN "anchor_unknown"
    ELSE IF ReplayCost(log) + MaxKeys > affords THEN "too_expensive"
    ELSE LET state == CHOOSE s \in AnchoredStates(log, record.anchor) : TRUE
         IN  IF Judgement(state.keys, state.threshold, Len(record.signers),
                          MadeBy(state, record.signers)) = "ok"
             THEN "ok" ELSE "signature_invalid"

(* The owner mode.  The reasons carry actor_ or creator_ in front, after the   *)
(* record's profile.                                                           *)
OwnerVerdict(u, log, affords) ==
    LET resolved == ReplayedStates(identity.id, log, affords)
        signed == SignedAtAnchor(u, log, affords)
    IN  CASE resolved = "unresolved" -> "key_log_unresolved"
          [] resolved = "too_expensive" -> "key_log_too_expensive"
          [] resolved = "mismatched" -> "key_log_participant_mismatch"
          [] resolved = "ok" /\ signed = "ok" -> "valid"
          [] resolved = "ok" /\ signed = "anchor_unknown" -> "key_log_anchor_unknown"
          [] resolved = "ok" /\ signed = "too_expensive" -> "key_log_too_expensive"
          [] resolved = "ok" /\ signed = "signature_invalid" -> "signature_invalid"

(* verifyGrantChain at record purpose, of a chain of one grant: the window at  *)
(* the record's time, the issuer's log, the link at its anchor, and for a node *)
(* the revocations.  It catches nothing the view throws.                       *)
ChainVerdict(link, log, affords) ==
    LET resolved == ReplayedStates(link.subject, log, affords)
        signed == SignedAtAnchor(link, log, affords)
    IN  CASE ~link.inWindow -> "grant_expired"
          [] link.inWindow /\ log = Throws -> "threw"
          [] link.inWindow /\ log # Throws /\ resolved = "unresolved"
                -> "grant_issuer_key_log_unresolved"
          [] link.inWindow /\ resolved = "too_expensive" -> "grant_issuer_key_log_too_expensive"
          [] link.inWindow /\ resolved = "mismatched"
                -> "grant_issuer_key_log_participant_mismatch"
          [] link.inWindow /\ resolved = "ok" /\ signed = "anchor_unknown"
                -> "grant_issuer_anchor_unknown"
          [] link.inWindow /\ resolved = "ok" /\ signed = "too_expensive"
                -> "grant_signature_check_too_expensive"
          [] link.inWindow /\ resolved = "ok" /\ signed = "signature_invalid"
                -> "grant_signature_invalid"
          [] link.inWindow /\ resolved = "ok" /\ signed = "ok"
                -> IF role = "node" /\ revocation THEN "grant_revoked" ELSE "valid"

(* signedByLeafKey: exactly one signature, or nothing is spent; then one        *)
(* verification of it.                                                         *)
(* A fault to be caught: any member of the signature may be the leaf key's.    *)
FaultySignedByLeafKey(u, leafKey, left) ==
    IF left < 1 THEN "too_expensive"
    ELSE IF leafKey \in ToSet(u.signers) THEN "ok" ELSE "signature_invalid"

SignedByLeafKey(u, leafKey, left) ==
    IF Len(u.signers) # 1 THEN "signature_invalid"
    ELSE IF left < 1 THEN "too_expensive"
    ELSE IF u.signers = <<leafKey>> THEN "ok" ELSE "signature_invalid"

(* A fault to be caught: leaving is an update like any other. *)
FaultyRequiredAbility(u) ==
    IF u.kind = "conversation" THEN "msg/conversation" ELSE "msg/conversation-update"

RequiredAbility(u) ==
    CASE u.kind = "departure" -> "conversation/self-remove"
      [] u.kind = "update" -> "msg/conversation-update"
      [] u.kind = "conversation" -> "msg/conversation"

LeafVerdict(u, link, log, affords) ==
    LET left == affords - ReplayCost(log) - MaxKeys
        signed == SignedByLeafKey(u, Session, left)
    IN  IF link.subject # identity.id THEN "subject_mismatch"
        ELSE IF link.audience # [key |-> Session] THEN "audience_not_key"
        ELSE IF signed = "too_expensive" THEN "grant_signature_check_too_expensive"
        ELSE IF signed = "signature_invalid" THEN "leaf_key_signature_invalid"
        ELSE IF RequiredAbility(u) \notin link.abilities THEN "abilities_insufficient"
        ELSE "valid"

VerifyUnit(u, log, affords) ==
    IF (u.anchor = NoAnchor) = (u.chain = NoChain) THEN "mode_conflict"
    ELSE IF u.chain = NoChain THEN OwnerVerdict(u, log, affords)
    ELSE IF ChainVerdict(u.chain[1], log, affords) # "valid"
    THEN ChainVerdict(u.chain[1], log, affords)
    ELSE LeafVerdict(u, u.chain[1], log, affords)

(* A fault to be caught: a log that is refused for its cost is a bad unit. *)
FaultyIsUnitWaitReason(reason) ==
    reason \in {"key_log_unresolved", "key_log_anchor_unknown",
                "grant_issuer_key_log_unresolved"}

IsUnitWaitReason(reason) ==
    reason \in {"key_log_unresolved", "key_log_anchor_unknown",
                "grant_issuer_key_log_unresolved", "key_log_too_expensive",
                "grant_issuer_key_log_too_expensive", "grant_signature_check_too_expensive"}

-------------------------------------------------------------------------------
UnitInit ==
    /\ IssuingInit
    /\ view \in {"honest", "any"}
    /\ role \in {"node", "member"}
    /\ allowance \in Allowances
    /\ unit = NoUnit
    /\ seen = 1
    /\ revocation = FALSE
    /\ verdict = "none"

(* Bound: one record is issued, before a unit made of it is received. *)
Principal ==
    /\ \/ HolderStep(Shapes) /\ UNCHANGED issued
       \/ unit = NoUnit /\ issued = {} /\ (IssueRevocation \/ IssueGrant)
    /\ UNCHANGED verifierVars

Receive ==
    /\ unit = NoUnit
    /\ unit' \in Units
    /\ UNCHANGED <<issuingVars, view, role, allowance, seen, revocation, verdict>>

CatchUp ==
    /\ unit # NoUnit
    /\ seen < Len(identity.log)
    /\ seen' = seen + 1
    /\ UNCHANGED <<issuingVars, view, role, allowance, unit, revocation, verdict>>

LearnRevocation ==
    /\ unit # NoUnit /\ unit.chain # NoChain
    /\ revocation' = TRUE
    /\ UNCHANGED <<issuingVars, view, role, allowance, unit, seen, verdict>>

(* The log asked for, as far as a view that has seen n events of it answers. *)
HonestLog(u, n) ==
    IF u.chain # NoChain /\ u.chain[1].subject # identity.id
    THEN <<OtherInception>>
    ELSE SubSeq(identity.log, 1, n)

LogAnswers ==
    IF view = "honest" THEN {HonestLog(unit, seen)}
    ELSE {SubSeq(identity.log, 1, seen), SubSeq(identity.log, 2, seen),
          << >>, Throws, <<OtherInception>>}

(* A verdict that is not a wait is acted upon; a wait is held, and an          *)
(* exception leaves the unit where it is.                                      *)
Undecided == verdict \in {"none", "threw"} \/ IsUnitWaitReason(verdict)

Judge ==
    /\ unit # NoUnit
    /\ Undecided
    /\ \E log \in LogAnswers : verdict' = VerifyUnit(unit, log, allowance)
    /\ UNCHANGED <<issuingVars, view, role, allowance, unit, seen, revocation>>

UnitNext == Principal \/ Receive \/ CatchUp \/ LearnRevocation \/ Judge

UnitSpec == UnitInit /\ [][UnitNext]_unitVars

(* The view catches up, and what is held is judged again. *)
FairUnitSpec == UnitSpec /\ WF_unitVars(CatchUp) /\ WF_unitVars(Judge)

-------------------------------------------------------------------------------
(* Whatever the view answers, a unit is accepted only on the principal's own   *)
(* authority: the record, or the grant over it, is one the principal issued;   *)
(* a delegate signed alone, within the window, and with an ability for just    *)
(* this kind of record, so that nobody is made to leave a conversation on the  *)
(* strength of an everyday grant (spec 014).                                   *)
AcceptedOnPrincipalsAuthority ==
    verdict = "valid" =>
        \/ unit.chain = NoChain /\ [anchor |-> unit.anchor, signers |-> unit.signers] \in issued
        \/ LET link == unit.chain[1]
           IN  /\ unit.anchor = NoAnchor
               /\ [anchor |-> link.anchor, signers |-> link.signers] \in issued
               /\ link.subject = identity.id
               /\ link.inWindow
               /\ unit.signers = <<Session>> /\ link.audience = [key |-> Session]
               /\ unit.kind = "departure" <=> "conversation/self-remove" \in link.abilities

(* A logical change has one accepted unit: with the signatures repeated, cut   *)
(* or extended, or the chain left out, it is not accepted ("records are        *)
(* idempotent by digest").                                                     *)
SignaturesOf(u) == UNION {[1 .. n -> ToSet(u.signers) \cup {Outside}] : n \in 0 .. 2}

Edit(u, signers, chain) == [u EXCEPT !.signers = signers, !.chain = chain]

UnitEdits(u) == {Edit(u, s, c) : s \in SignaturesOf(u), c \in {u.chain, NoChain}}

OneAcceptedSpelling ==
    verdict = "valid" =>
        \A edit \in UnitEdits(unit) :
            VerifyUnit(edit, HonestLog(edit, seen), allowance) = "valid" => edit = unit

(* Members who hold the same unit and look at honest views never decide it     *)
(* differently, however much of the log each has seen, whatever each can       *)
(* afford and whatever revocations each knows of: running out of the allowance *)
(* is no decision, and neither is any other wait.  The one exception is a link *)
(* whose anchor the view has not seen yet.                                     *)
Decided == unit # NoUnit /\ ~Undecided

MembersAgree ==
    Decided /\ view = "honest" /\ role = "member" =>
        \A n \in 1 .. Len(identity.log), affords \in Allowances :
            LET other == VerifyUnit(unit, HonestLog(unit, n), affords)
            IN  \/ other = verdict
                \/ IsUnitWaitReason(other)
                \/ "grant_issuer_anchor_unknown" \in {verdict, other}

(* A unit that waits for an event the principal published is decided in the    *)
(* end, when the allowance covers the log.                                     *)
PublishedAnchor(anchor) == \E i \in DOMAIN identity.log : EventDigest(identity.log[i]) = anchor

Ample == allowance >= (MaxEvents + 1) * MaxKeys + 1

WaitsEnd ==
    (/\ unit # NoUnit
     /\ view = "honest" /\ Ample
     /\ unit.anchor = NoAnchor \/ PublishedAnchor(unit.anchor))
        ~> (Decided \/ ~WithinBound(identity.log))

(* Spec 014: an anchor the verifier's log does not reach "waits here too, where a *)
(* request-time verifier rejects it": a member rejects no unit that the whole     *)
(* log makes valid.                                                               *)
LaggingViewsWait ==
    Decided /\ view = "honest" /\ role = "member" /\ verdict # "valid" =>
        VerifyUnit(unit, HonestLog(unit, Len(identity.log)), allowance) # "valid"
===============================================================================
