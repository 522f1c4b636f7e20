------------------------------ MODULE Directory ------------------------------
(***************************************************************************)
(* A directory and those who speak to it through                           *)
(* packages/discovery-client/src/index.ts and packages/a2a/src/consume.ts: *)
(* the holder of an identity (an organization), who publishes its key log, *)
(* its self-records, the edge that lets an agent represent it, and the     *)
(* revocation of such an edge; and a counterparty who verifies the agent's *)
(* card.  The holder's program stops and starts again from its identity    *)
(* file; requests and answers get lost, and a proxy may answer instead.    *)
(*                                                                         *)
(* The directory is not in this repository.  One that keeps its contract   *)
(* (host = "keeps") does what index.ts and the tests of the client say of  *)
(* it; of one that does not (host = "answers"), KeyLogSuccession says what *)
(* key logs it can make a reader accept.                                   *)
(***************************************************************************)
EXTENDS KeyLogSuccession, IdentityFile, AnchoredRecords

CONSTANTS
    SelfKinds,      \* the self-records the holder makes, of {"profile", "node"}
    Cards,          \* agent cards: sequences of extension entries
    KeptShapes,     \* <<keys, threshold>> the holder rotates to, before a directory that keeps
    MaxKeptEvents,  \* bound: events of the holder's log, before such a directory
    MaxMade,        \* bound: records made
    MaxRestarts     \* bound: restarts of the holder's program

(* rotateIdentity itself does not stop at MAX_KEY_LOG_EVENTS; what follows     *)
(* when a holder goes on beyond it is not asked here.                          *)
ASSUME DirectoryAssumption ==
    /\ SelfKinds \subseteq {"profile", "node"}
    /\ KeptShapes \subseteq Nat \X Int
    /\ MaxKeptEvents \in 1 .. MaxEvents
    /\ MaxMade \in Nat
    /\ MaxRestarts \in Nat

VARIABLES
    host,       \* which directory this behaviour is about
    file,       \* the identity file as it was saved last
    restarts,
    made,       \* every record the holder has made
    stored,     \* the key log the directory holds, << >> if none
    served,     \* the records the directory holds
    call,       \* the holder's request under way, or NoCall
    told,       \* what the last step told somebody, or NoNews
    withdrawn,  \* the edges whose revocation the directory has confirmed
    check       \* the verification of a card under way, or NoCheck

kept == <<host, file, restarts, made, stored, served, call, told, withdrawn, check>>
directoryVars == <<vars, kept>>

NoCall == [op |-> "none"]
NoNews == [to |-> "nobody"]
NoCheck == [at |-> "idle"]

-------------------------------------------------------------------------------
(* What the schemas add to a record that lacks it. *)
SchemaDefaults(kind) ==
    IF kind = "profile" THEN {"capabilities", "verifiedDomains"} ELSE {}

Parse(record) ==
    IF record.kind = "revocation" THEN record
    ELSE [record EXCEPT !.fields = @ \cup SchemaDefaults(record.kind)]

(* A record under a scalar signature: covers is what was signed. *)
Signed(kind, fields) ==
    [kind |-> kind, fields |-> fields, covers |-> fields, key |-> identity.currentKeys[1]]

(* A fault to be caught: what the schema would add is left to the schema. *)
FaultySelfRecord(kind) == Signed(kind, {})

(* createProfileRecord, createNodeRecord: the defaults are written out. *)
SelfRecord(kind) == Signed(kind, SchemaDefaults(kind))

(* issueRepresentsEdge, through issueRelationship. *)
RepresentsEdge == Signed("relationship", {})

(* issueRevocation: every current key signs, anchored to the log's end. *)
RevocationOf(edge) ==
    [kind |-> "revocation", revokes |-> edge,
     anchor |-> KeyLogAnchor(identity.log), signers |-> identity.currentKeys]

(* One self-record of a kind and one edge are enough for what is asked here;  *)
(* an edge may be revoked at every state of the log.                          *)
Makes(kind) == \A r \in made : r.kind # kind

MakeRecord ==
    /\ identity.currentKeys # << >>
    /\ Cardinality(made) < MaxMade
    /\ \E record \in {SelfRecord(kind) : kind \in {k \in SelfKinds : Makes(k)}}
                     \cup {RepresentsEdge : k \in {k \in {"relationship"} : Makes(k)}}
                     \cup {RevocationOf(edge) : edge \in {r \in made : r.kind = "relationship"}} :
           made' = made \cup {record}
    /\ told' = NoNews
    /\ UNCHANGED <<vars, host, file, restarts, stored, served, call, withdrawn, check>>

-------------------------------------------------------------------------------
(* The holder's program between two requests. *)
RotateIdentity ==
    /\ HolderStep(KeptShapes)
    /\ Len(identity'.log) <= MaxKeptEvents
    /\ told' = NoNews
    /\ UNCHANGED <<held, accepted, host, file, restarts, made, stored, served, call, withdrawn, check>>

SaveIdentity ==
    /\ restarts < MaxRestarts
    /\ file' = ToIdentityFile(identity)
    /\ told' = NoNews
    /\ UNCHANGED <<vars, host, restarts, made, stored, served, call, withdrawn, check>>

(* The program starts again from the file, however old; a request under way *)
(* is forgotten.                                                            *)
Restart ==
    /\ restarts < MaxRestarts
    /\ FromIdentityFile(file) # Unloadable
    /\ identity' = FromIdentityFile(file)
    /\ restarts' = restarts + 1
    /\ heir' = NoHeir
    /\ call' = NoCall
    /\ told' = NoNews
    /\ UNCHANGED <<minted, held, accepted, host, file, made, stored, served, withdrawn, check>>

(* signedPut: the body as it is now, signed with the first current key as it *)
(* is now.                                                                   *)
SignedPut(body) ==
    /\ call = NoCall
    /\ identity.currentKeys # << >>
    /\ call' = [op |-> "publish", body |-> body, key |-> identity.currentKeys[1]]
    /\ told' = NoNews
    /\ UNCHANGED <<vars, host, file, restarts, made, stored, served, withdrawn, check>>

PublishKeyLog == SignedPut([kind |-> "key-log", events |-> identity.log])

(* publishProfile, publishNode, publishClaim, publishRelationship,            *)
(* publishRevocation: one form.  A record may be published at any time after  *)
(* it was made, and again.                                                    *)
PublishRecord == \E record \in made : SignedPut(record)

GetKeyState ==
    /\ call = NoCall
    /\ call' = [op |-> "getKeyState"]
    /\ told' = NoNews
    /\ UNCHANGED <<vars, host, file, restarts, made, stored, served, withdrawn, check>>

-------------------------------------------------------------------------------
(* The directory.  A request bears one signature, so it is good for a state   *)
(* of threshold one that lists the key.                                       *)
Alone(event, key) == event.threshold = 1 /\ key \in ToSet(event.keys)

KeyLogRefusal(events, key) ==
    IF ~ReplaysFor(identity.id, events) THEN "key_log_rejected"
    ELSE IF ~Alone(Last(events), key) THEN "invalid_signature"
    ELSE IF ~IsPrefix(stored, events) THEN "key_log_conflict"
    ELSE "none"

RecordRefusal(record, key) ==
    IF stored = << >> THEN "unknown_participant"
    ELSE IF ~Alone(Last(stored), key) THEN "invalid_signature"
    ELSE IF record.kind = "revocation"
         THEN CASE CheckAnchored(record, stored) = "ok" -> "none"
                [] CheckAnchored(record, stored) = "anchor_unknown" -> "revocation_anchor_unknown"
                [] OTHER -> "revocation_signature_invalid"
         ELSE IF record.fields = record.covers /\ Alone(Last(stored), record.key) THEN "none"
         ELSE "record_signature_invalid"

Ok(body) == [status |-> 200, body |-> body]
Refused(status, code) == [status |-> status, body |-> [kind |-> "error", error |-> code]]
ProxyPage == [kind |-> "page"]

(* One record per place: a profile, an edge's id, an issuer's revocation of a digest. *)
Place(record) ==
    IF record.kind = "revocation" THEN <<record.kind, record.revokes>> ELSE <<record.kind>>

Keep(record) == {r \in served : Place(r) # Place(record)} \cup {record}

(* What the directory does with the request, and what it answers. *)
Answer ==
    IF call.op = "getKeyState"
    THEN IF stored = << >> THEN Refused(404, "key_log_not_found")
         ELSE Ok([kind |-> "key-log", events |-> stored])
    ELSE LET body == IF call.body.kind = "key-log" THEN call.body ELSE Parse(call.body)
             refusal == IF body.kind = "key-log" THEN KeyLogRefusal(body.events, call.key)
                        ELSE RecordRefusal(body, call.key)
         IN  IF refusal = "none" THEN Ok(body) ELSE Refused(422, refusal)

Handle ==
    IF call.op = "publish" /\ Answer.status = 200
    THEN IF call.body.kind = "key-log"
         THEN stored' = call.body.events /\ UNCHANGED served
         ELSE served' = Keep(Answer.body) /\ UNCHANGED stored
    ELSE UNCHANGED <<stored, served>>

-------------------------------------------------------------------------------
(* The client, on what came back: a reply, or Nothing when fetch rejected. *)
Nothing == [status |-> 0]
Thrown(code) == [kind |-> "thrown", code |-> code]
Null == [kind |-> "null"]

(* DiscoveryClientError.code: what the body says, when it says it as JSON. *)
ErrorCode(body) == IF body.kind = "error" THEN body.error ELSE "none"

(* request and get. *)
Request(reply) ==
    IF reply = Nothing THEN Thrown("fetch_failed")
    ELSE IF reply.status = 200 THEN reply.body
    ELSE Thrown(ErrorCode(reply.body))

GetOrNull(reply) ==
    IF reply # Nothing /\ reply.status = 404 THEN Null ELSE Request(reply)

(* What a replayed log is to its reader. *)
StateOf(events) == [kind |-> "state", state |-> KeyStateOf(Last(events))]

(* readKeyLog and getKeyState: what is not a log does not parse, and a log is *)
(* replayed for the participant it was asked for.                             *)
KeyStateFrom(reply) ==
    LET body == GetOrNull(reply)
    IN  IF body.kind \in {"null", "thrown"} THEN body
        ELSE IF body.kind # "key-log" THEN Thrown("invalid_body")
        ELSE IF ~ReplaysFor(identity.id, body.events) THEN Thrown("key_log_invalid")
        ELSE StateOf(body.events)

(* A fault to be caught: a revocation is taken back from any answer that has a body. *)
FaultyPublished(body, reply) ==
    IF reply # Nothing THEN body ELSE Thrown("fetch_failed")

(* The publishing calls: the state of the log that was sent, without a look   *)
(* at the answer's body; or the record the body parses to.                    *)
Published(body, reply) ==
    IF Request(reply).kind = "thrown" THEN Request(reply)
    ELSE IF body.kind = "key-log"
         THEN IF ReplaysFor(identity.id, body.events)
              THEN StateOf(body.events)
              ELSE Thrown("key_log_invalid")
    ELSE IF Request(reply).kind = body.kind THEN Parse(Request(reply))
    ELSE Thrown("invalid_body")

Settle(reply) ==
    LET result == IF call.op = "publish" THEN Published(call.body, reply) ELSE KeyStateFrom(reply)
    IN  /\ told' = [to |-> "holder", call |-> call, result |-> result]
        /\ withdrawn' = IF result.kind = "revocation" THEN withdrawn \cup {result.revokes}
                        ELSE withdrawn
        /\ call' = NoCall
        /\ UNCHANGED <<vars, host, file, restarts, made, check>>

(* The request arrives and is answered; or the answer is lost on the way; or  *)
(* the request is; or a proxy answers in the directory's place.               *)
Arrives ==
    /\ call # NoCall
    /\ Handle
    /\ Settle(Answer) \/ Settle(Nothing)

IsLost == call # NoCall /\ Settle(Nothing) /\ UNCHANGED <<stored, served>>

ProxyAnswers ==
    /\ call # NoCall
    /\ \E status \in {200, 502} : Settle([status |-> status, body |-> ProxyPage])
    /\ UNCHANGED <<stored, served>>

-------------------------------------------------------------------------------
(* The counterparty: verifyAgentCard, one read of the directory at a time.    *)
(* An entry of a card is no Kinnet extension ("other"), a malformed one, or   *)
(* one that names the agent and perhaps the organization.                     *)
WellFormed == {"agent", "agent_for_org"}

ParseKinnetExtension(card) ==
    IF ToSet(card) \cap WellFormed = {} THEN "none"
    ELSE card[CHOOSE i \in DOMAIN card :
                  card[i] \in WellFormed /\ \A j \in 1 .. i - 1 : card[j] \notin WellFormed]

BuildAgentCard(representing) == <<IF representing THEN "agent_for_org" ELSE "agent">>

Verdict(status, edges) ==
    /\ told' = [to |-> "counterparty", status |-> status, edges |-> edges,
                check |-> check]
    /\ check' = NoCheck

Read(next) == check' = next /\ told' = NoNews

UnchangedByReader == UNCHANGED <<vars, host, file, restarts, made, stored, served, call, withdrawn>>

(* verifyAgentCard up to the organization: the agent's own log, which is not   *)
(* part of this model, resolves or not (view.getKeyState).                     *)
AgentVerdict(card, resolves) ==
    CASE ParseKinnetExtension(card) = "none" -> "no_kinnet_extension"
      [] ParseKinnetExtension(card) # "none" /\ ~resolves -> "unverified"
      [] ParseKinnetExtension(card) = "agent" /\ resolves -> "verified"
      [] OTHER -> "undecided"

(* consumeAgentCard: the card is fetched from the agent. *)
ConsumeAgentCard ==
    /\ check = NoCheck
    /\ \E card \in Cards, resolves \in BOOLEAN :
           IF AgentVerdict(card, resolves) # "undecided"
           THEN Verdict(AgentVerdict(card, resolves), {})
           ELSE Read([at |-> "edge", withdrawn |-> withdrawn])
    /\ UnchangedByReader

Edges == {r \in served : r.kind = "relationship"}

(* view.getRelationshipEdge for the tuple the card names. *)
ReadEdge ==
    /\ check.at = "edge"
    /\ IF Edges = {} THEN Verdict("unverified", {})
       ELSE \E edge \in Edges : Read([at |-> "log", withdrawn |-> check.withdrawn, edge |-> edge])
    /\ UnchangedByReader

(* verifyRepresentsChain: the organization's log, and the edge under any of   *)
(* its states.                                                                *)
ReadLog ==
    /\ check.at = "log"
    /\ IF /\ stored # << >>
          /\ ReplaysFor(identity.id, stored)
          /\ check.edge.fields = check.edge.covers
          /\ \E i \in DOMAIN stored : Alone(stored[i], check.edge.key)
       THEN Read([at |-> "revocations", withdrawn |-> check.withdrawn,
                   edge |-> check.edge, log |-> stored])
       ELSE Verdict("unverified", {})
    /\ UnchangedByReader

(* findRevocation: a candidate counts when the log read before has its anchor. *)
ReadRevocations ==
    /\ check.at = "revocations"
    /\ IF \E r \in served : /\ Place(r) = <<"revocation", check.edge>>
                            /\ CheckAnchored(r, check.log) = "ok"
       THEN Verdict("unverified", {})
       ELSE Verdict("verified", {check.edge})
    /\ UnchangedByReader

ReadFails ==
    /\ check # NoCheck
    /\ Verdict("failed", {})
    /\ UnchangedByReader

-------------------------------------------------------------------------------
DirectoryInit ==
    /\ Init
    /\ host \in {"keeps", "answers"}
    /\ file = ToIdentityFile(identity)
    /\ restarts = 0
    /\ made = {}
    /\ stored = << >>
    /\ served = {}
    /\ call = NoCall
    /\ told = NoNews
    /\ withdrawn = {}
    /\ check = NoCheck

HolderNext ==
    \/ RotateIdentity
    \/ SaveIdentity
    \/ Restart
    \/ MakeRecord
    \/ PublishKeyLog
    \/ PublishRecord
    \/ GetKeyState
    \/ Arrives
    \/ IsLost
    \/ ProxyAnswers

CounterpartyNext ==
    \/ ConsumeAgentCard
    \/ ReadEdge
    \/ ReadLog
    \/ ReadRevocations
    \/ ReadFails

DirectoryNext ==
    \/ host = "keeps" /\ (HolderNext \/ CounterpartyNext)
    \/ host = "answers" /\ Next /\ UNCHANGED kept

DirectorySpec == DirectoryInit /\ [][DirectoryNext]_directoryVars

-------------------------------------------------------------------------------
(* An organization that was told its revocation of an edge is published need  *)
(* not wait: a card that anyone starts to verify after that is never verified *)
(* on that edge, whatever was lost, retried, rotated or restarted, unless the *)
(* organization's log grew while the card was being verified.                 *)
RevocationTakesEffect ==
    told.to = "counterparty" /\ told.status = "verified" =>
        \A edge \in told.edges : edge \in told.check.withdrawn => stored # told.check.log

(* The directory refuses none of the holder's own words for what they are: a  *)
(* log the holder minted replays, across rotations, handovers and restarts;   *)
(* it conflicts with what is stored only if the holder was restored from a    *)
(* file; and a self-record made with a key that may speak for the identity    *)
(* now is the record that was signed once it is parsed (index.ts: "A schema   *)
(* default is not in the bytes; only what is signed is").                     *)
OwnWordsAreTaken ==
    told.to = "holder" /\ told.call.op = "publish" =>
        /\ told.result # Thrown("key_log_rejected")
        /\ told.result = Thrown("key_log_conflict") => restarts > 0
        /\ told.call.body.kind \in SelfKinds /\ told.result = Thrown("record_signature_invalid")
               => ~Alone(Last(stored), told.call.body.key)

(* Whenever the holder's program stops, the file it saved last loads, as the  *)
(* identity that was saved: with the staged keys the next rotation reveals,   *)
(* or with none after the log was handed over.                                *)
SavedIdentityLoads ==
    file.currentKeys # << >> => FromIdentityFile(file) = file

(* Where two logs of one identity part they still reveal the same keys: that  *)
(* is so of a log some verifier accepted from others, and of what a holder    *)
(* that was restored from an old identity file mints beside what it has       *)
(* published.                                                                 *)
ForksRevealTheSameKeys ==
    \A log \in {accepted, stored} :
        ~IsPrefix(log, identity.log) /\ ~IsPrefix(identity.log, log) =>
            LET i == Parting(log)
            IN  /\ log[i].keys = identity.log[i].keys
                /\ log[i].threshold = identity.log[i].threshold
===============================================================================
