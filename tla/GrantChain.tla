------------------------------ MODULE GrantChain ------------------------------
(***************************************************************************)
(* verifyGrantChain and findRevocation of packages/trust/src/resolver.ts:  *)
(* one chain of grants, leaf first, verified against a trust view that may *)
(* answer anything.  The loops of the function are the steps; it awaits    *)
(* the view for a key log and for the revocations of a link, and others    *)
(* publish revocations meanwhile.                                          *)
(*                                                                         *)
(* A digest is the thing digested, tagged.  An ability path is a sequence  *)
(* of segments.  A record carries who signed it (by) instead of its        *)
(* signatures, and the sequence number of the key event its anchor names.  *)
(* The caveats of a link are those apart from aud; the options name the    *)
(* action that the evaluator of caveats was made for, if there is one.     *)
(***************************************************************************)
EXTENDS FinancialCaveats, Sequences

CONSTANTS
    Participant,   \* principals with a key log
    Key,           \* principals that are bare keys
    LogLength,     \* LogLength[p]: events of p's key log
    Calls,         \* a chain, the options, and a view: "honest" answers what is
                   \* published, "any" whatever it likes
    MaxLinks,      \* MAX_GRANT_CHAIN_LINKS
    MaxLog,        \* MAX_KEY_LOG_EVENTS
    MaxKeys,       \* MAX_KEY_EVENT_KEYS
    MaxRevoked     \* bound: revocations published

Chains == {c.chain : c \in Calls}

ASSUME GrantChainAssumption ==
    /\ Participant \cap Key = {} /\ "nobody" \notin Participant
    /\ MaxLinks \in Nat /\ MaxLog \in Nat /\ MaxKeys \in Nat \ {0}
    /\ LogLength \in [Participant -> 1 .. MaxLog]
    /\ \A c \in Chains :
          /\ Len(c) \in Nat /\ DOMAIN c = 1 .. Len(c)
          /\ \A i \in DOMAIN c : \A ability \in c[i].abilities : Len(ability) \in Nat
    /\ \A c \in Calls : c.options.limit \in Nat

VARIABLES
    chain, options, view,   \* the call, and the kind of view it is made against
    pc,                     \* where verifyGrantChain is
    index,                  \* the link it is at; 1 is the leaf
    effective,              \* effectiveAud
    memo,                   \* signerStates that are kept: events replayed, or Unasked
    local,                  \* operation.local.remaining
    allowance,              \* candidateAllowance.remaining of this lookup
    pending,                \* candidates of this lookup not yet looked at
    verdict,                \* "none" until it returns or throws
    revoked,                \* the revocations published so far
    revokedBefore,          \* history: those published before the call
    spent                   \* history: verifications performed

call == <<chain, options, view>>
vars == <<call, pc, index, effective, memo, local, allowance, pending, verdict,
          revoked, revokedBefore, spent>>

Principal == Participant \cup Key
NoAud == {"unrestricted"}
NoProof == << >>
NoCaveats == << >>
NoAnchor == 0
NoTime == -1
Never == -1
Unasked == 0

(* What a view answers for a key log: the number of events of the genuine log *)
(* it gives (all or a prefix), or one of these.                               *)
Absent == 0
Unreplayable == -1
Substituted == -2

Digest(link) == <<"grant", link>>

-------------------------------------------------------------------------------
(* abilityCovers: equal, or a whole-segment prefix. *)
AbilityCovers(parent, child) ==
    /\ Len(parent) <= Len(child)
    /\ \A i \in 1 .. Len(parent) : parent[i] = child[i]

IsE2eeAbility(ability) == ability[1] = "e2ee"

Carries(link) == link.aud # NoAud

(* grantSchema's rules across fields; the types of the fields are those of     *)
(* the model's records.                                                        *)
WellFormed(link) ==
    LET credential == \A ability \in link.abilities : IsE2eeAbility(ability)
    IN  /\ link.abilities # {}
        /\ link.audience \in Key => link.expiresAt # Never
        /\ credential => ~Carries(link) /\ DOMAIN link.caveats = {}
        /\ link.audience \in Key /\ ~credential => Carries(link)
        /\ Carries(link) => link.aud # {}
        /\ link.issuer \in Participant <=> link.anchor # NoAnchor

Root == chain[Len(chain)]

(* The checks before the loops, in their order. *)
ShapeVerdict ==
    IF Len(chain) = 0 THEN "grant_chain_empty"
    ELSE IF Len(chain) > MaxLinks THEN "grant_chain_too_long"
    ELSE IF \E i \in DOMAIN chain : ~WellFormed(chain[i]) THEN "grant_malformed"
    ELSE IF /\ options.purpose = "request"
            /\ \E i \in DOMAIN chain : \E ability \in chain[i].abilities : IsE2eeAbility(ability)
         THEN "grant_e2ee_not_request_valid"
    ELSE IF options.purpose = "record" /\ options.at = NoTime
         THEN "grant_record_time_required"
    ELSE IF Root.proof # NoProof THEN "grant_chain_incomplete"
    ELSE IF Root.issuer # Root.subject THEN "grant_root_not_self_issued"
    ELSE "ok"

Covered(link, parent) ==
    \A ability \in link.abilities :
        \E parentAbility \in parent.abilities : AbilityCovers(parentAbility, ability)

PairVerdict(link, parent) ==
    IF link.issuer # parent.audience THEN "grant_issuer_not_parent_audience"
    ELSE IF link.subject # parent.subject THEN "grant_subject_drift"
    ELSE IF ~Covered(link, parent) THEN "grant_ability_escalation"
    ELSE "ok"

AudVerdict ==
    IF effective # NoAud
    THEN IF options.verifierId \in effective THEN "ok" ELSE "grant_audience_not_admitted"
    ELSE IF options.requireAud /\ options.purpose = "request" THEN "grant_audience_required"
    ELSE "ok"

(* A link with caveats is admitted by an evaluator only. *)
CaveatsAdmitted(link) ==
    \/ DOMAIN link.caveats = {}
    \/ options.evaluates /\ EvaluateFinancialCaveats(link.caveats, options.action)

WindowVerdict(link) ==
    IF link.expiresAt # Never /\ link.expiresAt <= options.at THEN "grant_expired"
    ELSE IF options.purpose = "record" /\ options.at < link.issuedAt
         THEN "grant_not_yet_issued"
    ELSE IF options.purpose # "record" /\ ~CaveatsAdmitted(link)
         THEN "grant_caveat_rejected"
    ELSE "ok"

ChecksRevocation == options.purpose = "record" => options.checkRevocation

(* A fault to be caught: only the issuer of the link may revoke it. *)
FaultyAuthorizedRevokers(i) == {chain[i].issuer} \cap Participant

(* The participant issuers of a link and of all above it. *)
AuthorizedRevokers(i) == {chain[j].issuer : j \in i .. Len(chain)} \cap Participant

-------------------------------------------------------------------------------
(* What is paid: every walk costs the most it can, one verification per key,   *)
(* and a log is replayed to the event that fails or to its end.                *)
ReplayCost(answer) ==
    CASE answer = Absent -> 0
      [] answer > 0 -> answer * MaxKeys
      [] OTHER -> MaxLog * MaxKeys

WalkCost(principal) == IF principal \in Key THEN 1 ELSE MaxKeys

CandidateAllowance == 2 * MaxKeys

Init ==
    /\ \E c \in Calls : chain = c.chain /\ options = c.options /\ view = c.view
    /\ pc = "shape"
    /\ index = 1
    /\ effective = NoAud
    /\ memo = [p \in Participant |-> Unasked]
    /\ local = options.limit
    /\ allowance = 0
    /\ pending = << >>
    /\ verdict = "none"
    /\ revoked = {}
    /\ revokedBefore = {}
    /\ spent = 0

(* A participant revokes a link of the chain, before the call or during it. *)
Revocation(p, i) ==
    [issuer |-> p, revokes |-> Digest(chain[i]), anchor |-> LogLength[p], by |-> p]

PublishRevocation ==
    /\ Cardinality(revoked) < MaxRevoked
    /\ \E p \in Participant, i \in DOMAIN chain :
          /\ Revocation(p, i) \notin revoked
          /\ revoked' = revoked \cup {Revocation(p, i)}
    /\ revokedBefore' = IF pc = "shape" THEN revoked' ELSE revokedBefore
    /\ UNCHANGED <<call, pc, index, effective, memo, local, allowance, pending,
                   verdict, spent>>

-------------------------------------------------------------------------------
(* How a step ends. *)
Unmetered == UNCHANGED <<local, allowance, spent>>
World == UNCHANGED <<call, revoked, revokedBefore>>

Return(reason) ==
    /\ verdict' = reason
    /\ pc' = "done"
    /\ UNCHANGED <<index, effective>>

GoTo(place, i) ==
    /\ pc' = place
    /\ index' = i
    /\ UNCHANGED verdict

Affords(cost) == cost <= local

Charge(cost) ==
    /\ local' = local - cost
    /\ spent' = spent + cost

Exhaust ==
    /\ local' = 0
    /\ spent' = spent + local

CheckShape ==
    /\ pc = "shape"
    /\ IF ShapeVerdict # "ok" THEN Return(ShapeVerdict)
       ELSE GoTo("pairs", 1) /\ UNCHANGED effective
    /\ Unmetered /\ World /\ UNCHANGED <<memo, pending>>

CheckPair ==
    /\ pc = "pairs"
    /\ IF index < Len(chain)
       THEN IF PairVerdict(chain[index], chain[index + 1]) # "ok"
            THEN Return(PairVerdict(chain[index], chain[index + 1]))
            ELSE GoTo("pairs", index + 1) /\ UNCHANGED effective
       ELSE /\ IF options.purpose = "record" THEN GoTo("window", 1)
               ELSE GoTo("aud", Len(chain))
            /\ UNCHANGED effective
    /\ Unmetered /\ World /\ UNCHANGED <<memo, pending>>

(* A fault to be caught: a link's own aud replaces the one it inherits. *)
FaultyNarrowAud ==
    /\ pc = "aud"
    /\ index > 0
    /\ effective' = IF Carries(chain[index]) THEN chain[index].aud ELSE effective
    /\ GoTo("aud", index - 1)
    /\ Unmetered /\ World /\ UNCHANGED <<memo, pending>>

(* From the root to the leaf: an aud may only narrow the one inherited. *)
NarrowAud ==
    /\ pc = "aud"
    /\ index > 0
    /\ LET link == chain[index]
       IN  IF Carries(link) /\ effective # NoAud /\ ~(link.aud \subseteq effective)
           THEN Return("grant_aud_escalation")
           ELSE /\ effective' = IF Carries(link) THEN link.aud ELSE effective
                /\ GoTo("aud", index - 1)
    /\ Unmetered /\ World /\ UNCHANGED <<memo, pending>>

AdmitVerifier ==
    /\ pc = "aud"
    /\ index = 0
    /\ IF AudVerdict # "ok" THEN Return(AudVerdict)
       ELSE GoTo("window", 1) /\ UNCHANGED effective
    /\ Unmetered /\ World /\ UNCHANGED <<memo, pending>>

CheckWindow ==
    /\ pc = "window"
    /\ IF WindowVerdict(chain[index]) # "ok" THEN Return(WindowVerdict(chain[index]))
       ELSE GoTo("issuer", index) /\ UNCHANGED effective
    /\ Unmetered /\ World /\ UNCHANGED <<memo, pending>>

(* What the view may answer when asked for the key log of p.  A genuine log    *)
(* can be cut short; nobody can lengthen it.                                   *)
LogAnswers(p) ==
    IF view = "honest" THEN {LogLength[p]}
    ELSE 1 .. LogLength[p] \cup {Absent, Unreplayable, Substituted}

LogVerdict(answer) ==
    CASE answer = Substituted -> "grant_issuer_key_log_participant_mismatch"
      [] answer > 0 -> "ok"
      [] OTHER -> "grant_issuer_key_log_unresolved"

(* Only a replayed log is kept in the memo. *)
Remember(p, answer) == memo' = [memo EXCEPT ![p] = answer]

(* signerStates for the issuer of the link, which no earlier step resolved. *)
ResolveIssuer(answer) ==
    LET p == chain[index].issuer
    IN  /\ pc = "issuer"
        /\ p \in Participant
        /\ memo[p] = Unasked
        /\ answer \in LogAnswers(p)
        /\ IF ~Affords(ReplayCost(answer))
           THEN /\ Exhaust
                /\ Return("grant_issuer_key_log_too_expensive")
                /\ UNCHANGED memo
           ELSE /\ Charge(ReplayCost(answer))
                /\ IF LogVerdict(answer) # "ok"
                   THEN Return(LogVerdict(answer)) /\ UNCHANGED memo
                   ELSE /\ Remember(p, answer)
                        /\ GoTo("judge", index)
                        /\ UNCHANGED effective
        /\ World /\ UNCHANGED <<allowance, pending>>

(* The memo has the issuer's states, or the issuer is a key and has no log. *)
RecallIssuer ==
    /\ pc = "issuer"
    /\ chain[index].issuer \in Participant => memo[chain[index].issuer] # Unasked
    /\ GoTo("judge", index)
    /\ Unmetered /\ World /\ UNCHANGED <<effective, memo, pending>>

(* The anchor names an event of the log that was replayed. *)
AnchorKnown(record) == record.anchor <= memo[record.issuer]

(* After the link at index: the next one, or the end. *)
NextLink ==
    IF index < Len(chain)
    THEN GoTo("window", index + 1) /\ UNCHANGED effective
    ELSE Return("valid")

(* The signature set at its anchor, then the child's proof pointer, which may  *)
(* be compared only now.                                                       *)
JudgeLink ==
    LET link == chain[index]
        cost == WalkCost(link.issuer)
    IN  /\ pc = "judge"
        /\ IF link.issuer \in Participant /\ ~AnchorKnown(link)
           THEN Return("grant_issuer_anchor_unknown") /\ UNCHANGED <<local, spent>>
           ELSE IF ~Affords(cost)
           THEN Return("grant_signature_check_too_expensive") /\ Exhaust
           ELSE /\ Charge(cost)
                /\ IF link.by # link.issuer
                   THEN Return(IF link.issuer \in Participant
                               THEN "grant_signature_invalid"
                               ELSE "grant_key_issuer_signature_invalid")
                   ELSE IF index > 1 /\ chain[index - 1].proof # Digest(link)
                   THEN Return("grant_proof_mismatch")
                   ELSE IF ChecksRevocation
                   THEN GoTo("lookup", index) /\ UNCHANGED effective
                   ELSE NextLink
        /\ World /\ UNCHANGED <<memo, allowance, pending>>

-------------------------------------------------------------------------------
(* findRevocation for the link at index. *)
Published == {r \in revoked : /\ r.revokes = Digest(chain[index])
                              /\ r.issuer \in AuthorizedRevokers(index)}

(* What a view that answers anything can put in its answer: what is published, *)
(* and records that carry somebody's id but not their signature.               *)
Forged(p, revokes, anchor) ==
    [issuer |-> p, revokes |-> revokes, anchor |-> anchor, by |-> "nobody"]

Candidates ==
    revoked
    \cup {Forged(p, Digest(chain[index]), anchor) :
             p \in AuthorizedRevokers(index), anchor \in {1, MaxLog + 1}}
    \cup {Forged(Root.issuer, NoProof, 1)}

RevocationAnswers ==
    IF view = "honest"
    THEN {s \in [1 .. Cardinality(Published) -> Published] :
             \A i, j \in DOMAIN s : s[i] = s[j] => i = j}
    ELSE LET asked == Cardinality(AuthorizedRevokers(index))
         IN  (UNION {[1 .. n -> Candidates] : n \in 0 .. asked})
             \cup {[i \in 1 .. asked + 1 |-> c] : c \in Candidates}

(* A fault to be caught: as many records are looked at as the view sends. *)
FaultyOversized(answer) == FALSE

(* More records than issuers asked about: the call throws. *)
Oversized(answer) == Len(answer) > Cardinality(AuthorizedRevokers(index))

AskRevocations ==
    /\ pc = "lookup"
    /\ \E answer \in RevocationAnswers :
          IF Oversized(answer)
          THEN Return("threw") /\ UNCHANGED <<pending, allowance>>
          ELSE /\ pending' = answer
               /\ allowance' = CandidateAllowance
               /\ GoTo("candidates", index)
               /\ UNCHANGED effective
    /\ World /\ UNCHANGED <<memo, local, spent>>

Skip ==
    /\ pending' = Tail(pending)
    /\ GoTo("candidates", index)
    /\ UNCHANGED effective

Candidate == Head(pending)

Relevant ==
    /\ Candidate.revokes = Digest(chain[index])
    /\ Candidate.issuer \in AuthorizedRevokers(index)

AtCandidate == pc = "candidates" /\ pending # << >>

SkipIrrelevant ==
    /\ AtCandidate
    /\ ~Relevant
    /\ Skip
    /\ Unmetered /\ World /\ UNCHANGED memo

(* signerStates for a revoker no earlier step resolved.  A log that does not   *)
(* replay, or is somebody else's, makes the candidate void, and is not kept.   *)
ResolveRevoker(answer) ==
    /\ AtCandidate
    /\ Relevant
    /\ memo[Candidate.issuer] = Unasked
    /\ answer \in LogAnswers(Candidate.issuer)
    /\ IF ~Affords(ReplayCost(answer))
       THEN /\ Exhaust
            /\ Return("grant_signature_check_too_expensive")
            /\ UNCHANGED <<memo, pending>>
       ELSE /\ Charge(ReplayCost(answer))
            /\ IF answer > 0
               THEN /\ Remember(Candidate.issuer, answer)
                    /\ GoTo("candidates", index)
                    /\ UNCHANGED <<effective, pending>>
               ELSE Skip /\ UNCHANGED memo
    /\ World /\ UNCHANGED allowance

Draw(cost) == allowance' = allowance - cost

(* The tighter of the two meters stops the walk; both are charged. *)
Unaffordable ==
    LET paid == IF local <= allowance THEN local ELSE allowance
    IN  /\ Charge(paid)
        /\ Draw(paid)
        /\ Return("grant_signature_check_too_expensive")
        /\ UNCHANGED pending

(* A fault to be caught: an anchored candidate counts, whoever signed it. *)
FaultySignedAtAnchor(record) == AnchorKnown(record)

SignedAtAnchor(record) == AnchorKnown(record) /\ record.by = record.issuer

JudgeCandidate ==
    /\ AtCandidate
    /\ Relevant
    /\ memo[Candidate.issuer] # Unasked
    /\ IF ~AnchorKnown(Candidate)
       THEN Skip /\ UNCHANGED <<local, allowance, spent>>
       ELSE IF MaxKeys > local \/ MaxKeys > allowance
       THEN Unaffordable
       ELSE /\ Charge(MaxKeys)
            /\ Draw(MaxKeys)
            /\ IF SignedAtAnchor(Candidate)
               THEN Return("grant_revoked") /\ UNCHANGED pending
               ELSE Skip
    /\ World /\ UNCHANGED memo

(* A view that is asked may be unreachable: the call throws. *)
AtView ==
    \/ pc = "lookup"
    \/ /\ pc = "issuer"
       /\ chain[index].issuer \in Participant
       /\ memo[chain[index].issuer] = Unasked
    \/ AtCandidate /\ Relevant /\ memo[Candidate.issuer] = Unasked

ViewThrows ==
    /\ view = "any"
    /\ AtView
    /\ Return("threw")
    /\ Unmetered /\ World /\ UNCHANGED <<memo, pending>>

NotRevoked ==
    /\ pc = "candidates"
    /\ pending = << >>
    /\ NextLink
    /\ Unmetered /\ World /\ UNCHANGED <<memo, pending>>

LogAnswer == 0 .. MaxLog \cup {Unreplayable, Substituted}

Step ==
    \/ CheckShape \/ CheckPair \/ NarrowAud \/ AdmitVerifier
    \/ CheckWindow \/ RecallIssuer \/ JudgeLink
    \/ \E answer \in LogAnswer : ResolveIssuer(answer) \/ ResolveRevoker(answer)
    \/ AskRevocations \/ ViewThrows
    \/ SkipIrrelevant \/ JudgeCandidate \/ NotRevoked

Next == Step \/ PublishRevocation

Spec == Init /\ [][Next]_vars

-------------------------------------------------------------------------------
(* An accepted chain hands down the root's authority and no more, whatever the *)
(* view answered: every link is its issuer's own and names its parent, every   *)
(* link is covered by every link above it and not only by its parent, all      *)
(* windows are open, and outside stored records the verifier is admitted by    *)
(* every aud along the chain (specs 009, 011, 014).                            *)
AcceptedChainNarrows ==
    verdict = "valid" =>
        /\ Root.issuer = Root.subject
        /\ \A i \in DOMAIN chain :
              /\ chain[i].by = chain[i].issuer
              /\ chain[i].subject = Root.subject
              /\ chain[i].expiresAt = Never \/ ~(chain[i].expiresAt <= options.at)
              /\ options.purpose = "record" => ~(options.at < chain[i].issuedAt)
              /\ options.purpose # "record" => CaveatsAdmitted(chain[i])
              /\ i < Len(chain) => /\ chain[i].proof = Digest(chain[i + 1])
                                   /\ chain[i].issuer = chain[i + 1].audience
        /\ \A i, j \in DOMAIN chain : i < j =>
              \A ability \in chain[i].abilities :
                 \E above \in chain[j].abilities : AbilityCovers(above, ability)
        /\ options.purpose # "record" =>
              \A i \in DOMAIN chain :
                 Carries(chain[i]) => options.verifierId \in chain[i].aud
        /\ options.purpose = "request" /\ options.requireAud =>
              \E i \in DOMAIN chain : Carries(chain[i])

(* A delegated action costs what every grantor agreed to, and goes where every *)
(* grantor let it: whatever caps, currencies, payees and tiers the links of an *)
(* accepted chain name, the action is under the least cap, in the currency of  *)
(* each, to a payee of all and approved at the highest tier; and no link has a *)
(* caveat nobody evaluates.  A cap and an amount are compared as the rationals *)
(* they are, whatever trailing zeros either is written with.                   *)
SpendingWithinEveryLink ==
    verdict = "valid" /\ options.purpose # "record" =>
        \A i \in DOMAIN chain :
            LET caveats == chain[i].caveats
                action == options.action
            IN  /\ DOMAIN caveats # {} => options.evaluates
                /\ DOMAIN caveats \subseteq ADMITTED_KEYS
                /\ "maxAmount" \in DOMAIN caveats =>
                      /\ {"amount", "currency"} \subseteq DOMAIN action
                      /\ "currency" \in DOMAIN caveats
                      /\ action.amount.units * TenTo[caveats.maxAmount.places]
                            <= caveats.maxAmount.units * TenTo[action.amount.places]
                /\ \A j \in DOMAIN chain :
                      LET others == chain[j].caveats
                      IN  /\ {"currency"} \subseteq DOMAIN caveats \cap DOMAIN others
                             => caveats.currency = others.currency
                          /\ {"beneficiary"} \subseteq DOMAIN caveats \cap DOMAIN others
                             => action.beneficiary \in caveats.beneficiary \cap others.beneficiary
                          /\ {"actionId"} \subseteq DOMAIN caveats \cap DOMAIN others
                             => caveats.actionId = others.actionId
                /\ "approvalTier" \in DOMAIN caveats =>
                      /\ "approvalTier" \in DOMAIN action
                      /\ action.approvalTier \in caveats.approvalTier .. MaxTier

(* Nobody withdraws somebody else's grant: a chain is refused as revoked only  *)
(* when a participant issuer at or above one of its links published a          *)
(* revocation of that link.                                                    *)
ForgedRevocationNeverCounts ==
    verdict = "grant_revoked" =>
        \E i \in DOMAIN chain : \E r \in revoked :
            r.revokes = Digest(chain[i]) /\ r.issuer \in {chain[j].issuer : j \in i .. Len(chain)}

(* A view that answers what is published: a revocation that was there before   *)
(* the call is noticed, at whatever link and by whatever issuer above it, also *)
(* when the allowance runs out ("nothing" must not read as "not revoked").     *)
RevocationIsNoticed ==
    verdict = "valid" /\ view = "honest" /\ ChecksRevocation =>
        ~ \E i \in DOMAIN chain : \E r \in revokedBefore :
              /\ r.revokes = Digest(chain[i])
              /\ r.issuer \in {chain[j].issuer : j \in i .. Len(chain)}

(* What a chain may cost, over the links i with u(i) revokers asked about, as  *)
(* the comment on verifyGrantChain adds it up for an honest view, and with a   *)
(* replay for every candidate for one that answers anything.                   *)
HonestCeiling == Len(chain) * MaxLog * MaxKeys + Len(chain) * MaxKeys + MaxKeys

Least(m, n) == IF m <= n THEN m ELSE n

LookupCost(i) == Least(CandidateAllowance, Cardinality(AuthorizedRevokers(i)) * MaxKeys)

SumOverLinks(f(_)) ==
    LET sum[n \in 0 .. Len(chain)] == IF n = 0 THEN 0 ELSE sum[n - 1] + f(n)
    IN  sum[Len(chain)]

(* Issuers above link i that no link up to i has put in the memo. *)
Unreplayed(i) == AuthorizedRevokers(i) \ {chain[j].issuer : j \in 1 .. i}

OneReplayPerCandidate ==
    LET replays(i) == 1 + (IF Unreplayed(i) = {} THEN 0 ELSE Cardinality(AuthorizedRevokers(i)))
        cost(i) == replays(i) * MaxLog * MaxKeys + MaxKeys + LookupCost(i)
    IN  SumOverLinks(cost)

(* What is spent comes off the allowance of the call, to the last              *)
(* verification; it stays under the honest ceiling when the view answers what  *)
(* is published, and is bounded by the chain, not by how much the view sends,  *)
(* when it does not.                                                           *)
WorkBounded ==
    /\ spent + local = options.limit
    /\ spent <= (IF view = "honest" THEN HonestCeiling ELSE OneReplayPerCandidate)
===============================================================================
