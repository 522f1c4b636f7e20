--------------------------- MODULE DiscoveryLookups ---------------------------
(***************************************************************************)
(* What a discovery view answers, packages/verify/src/discovery-view.ts:   *)
(* getKeyState with its memo of replayed key states, and getRevocations    *)
(* asked in pieces.  Each lookup asks the cache first and goes through the *)
(* throttle for what it fetches, and is refused with it; several are under *)
(* way at once, and some of them spend from one allowance.                 *)
(*                                                                         *)
(* Of the cache, DiscoveryCache's, this module keeps the entries of the    *)
(* revocation lookups, and how long each is good for.  A key log that      *)
(* comes from it is one the host sent a while ago.                         *)
(***************************************************************************)
EXTENDS FetchThrottle, Functions, Integers

CONSTANTS
    Participant,
    MaxVersion,     \* bound: MaxVersion[p] lengths of p's key log, one event more each
    MaxKeyStates,   \* maxCacheEntries, which bounds the memo too
    MaxSignatureVerifications,  \* the view's own ceiling on a replay
    Budget,         \* the budgets callers bring, or the operations: a request has one
    Allowance,      \* Allowance[b]: what a new request may spend under b
    Issuers,        \* the issuers a revocation lookup names, sorted and without repeats
    MaxIssuers,     \* MAX_ISSUERS_PER_REQUEST
    Revokers,       \* bound: those of them who may revoke the record
    Ttl,            \* ttlMs, in steps of the clock
    FetchDeadline,  \* fetchDeadlineMs, in the same steps
    KeyLookup,      \* the lookups that call getKeyState; the others, getRevocations
    AsksAbout,      \* AsksAbout[l]: bound: whose key state l asks for
    Brings          \* Brings[l]: bound: under which budgets, or NoBudget

NoBudget == "none"

ASSUME DiscoveryLookupsAssumption ==
    /\ MaxVersion \in [Participant -> Nat \ {0}]
    /\ MaxKeyStates \in Nat \ {0}
    /\ MaxSignatureVerifications \in Nat
    /\ NoBudget \notin Budget /\ Allowance \in [Budget -> Nat]
    /\ Issuers \in Seq(Participant) \ {<< >>}   \* naming nobody, it returns at once
    /\ MaxIssuers \in Nat \ {0}
    /\ Revokers \subseteq ToSet(Issuers)
    /\ Ttl \in Nat /\ FetchDeadline \in Nat
    /\ KeyLookup \subseteq Lookup
    /\ AsksAbout \in [KeyLookup -> SUBSET Participant]
    /\ Brings \in [KeyLookup -> SUBSET (Budget \cup {NoBudget})]

VARIABLES
    version,     \* the service: events of each key log
    published,   \* the service: how long ago each revoker revoked the record, or NotYet
    cache,       \* the entry of each piece of the issuers: what it holds, for how long yet
    keyStates,   \* the entries of the memo: participant -> the log it was replayed from
    order,       \* its keys, in the order the Map iterates in
    remaining,   \* budget.remaining of each budget
    job,         \* job[l]: what lookup l is at, or NoJob
    returned     \* history: what the last step returned, or NoJob

serviceVars == <<version, published>>
memoVars == <<keyStates, order>>
lookupVars == <<serviceVars, cache, memoVars, remaining, job, returned>>
vars == <<throttleVars, lookupVars>>

NoJob == [call |-> "none"]

(* A log as it is received: whose it is, its events, whether it replays.       *)
Log(p, n) == [of |-> p, events |-> n, replays |-> TRUE]
Broken(p, n) == [of |-> p, events |-> n, replays |-> FALSE]
NoLog == [of |-> "nobody", events |-> 0, replays |-> FALSE]

(* Ages are counted up to the one at which a revocation must be known. *)
NotYet == -1
Oldest == Ttl + FetchDeadline

(* Who revoked the record this long ago, or longer. *)
RevokedFor(age) == {p \in Revokers : published[p] >= age}

NoEntry == [found |-> {}, left |-> 0]

(* A fault to be caught: what does not fit into one request is not asked.      *)
FaultyChunks == <<SubSeq(Issuers, 1, MaxIssuers)>>

(* The sorted issuers, cut into the pieces one request may name. *)
Chunks ==
    [c \in 1 .. (Len(Issuers) + MaxIssuers - 1) \div MaxIssuers |->
        SubSeq(Issuers, (c - 1) * MaxIssuers + 1,
               IF c * MaxIssuers < Len(Issuers) THEN c * MaxIssuers ELSE Len(Issuers))]

Init ==
    /\ ThrottleInit
    /\ version = [p \in Participant |-> 1]
    /\ published = [p \in Revokers |-> NotYet]
    /\ cache = [c \in 1 .. Len(Chunks) |-> NoEntry]
    /\ keyStates = << >>
    /\ order = << >>
    /\ remaining = Allowance
    /\ job = [l \in Lookup |-> NoJob]
    /\ returned = NoJob

Service ==
    /\ \/ \E p \in Participant :
             /\ version[p] < MaxVersion[p]
             /\ version' = [version EXCEPT ![p] = @ + 1]
             /\ UNCHANGED published
       \/ \E p \in Revokers :
             /\ published[p] = NotYet
             /\ published' = [published EXCEPT ![p] = 0]
             /\ UNCHANGED version
    /\ returned' = NoJob
    /\ UNCHANGED <<throttleVars, cache, memoVars, remaining, job>>

Older(age) == IF age \in 0 .. Oldest - 1 THEN age + 1 ELSE age

Wear(entry) == IF entry.left <= 1 THEN NoEntry ELSE [entry EXCEPT !.left = @ - 1]

(* Time passes, to the entries and to what is published. *)
Tick ==
    /\ published' = [p \in Revokers |-> Older(published[p])]
    /\ cache' = [c \in 1 .. Len(Chunks) |-> Wear(cache[c])]
    /\ returned' = NoJob
    /\ UNCHANGED <<throttleVars, version, memoVars, remaining, job>>

(* An entry makes room for another's: DiscoveryCache says when. *)
Evict(c) ==
    /\ cache[c] # NoEntry
    /\ cache' = [cache EXCEPT ![c] = NoEntry]
    /\ returned' = NoJob
    /\ UNCHANGED <<throttleVars, serviceVars, memoVars, remaining, job>>

Uses(l, b) == job[l].call = "getKeyState" /\ job[l].budget = b

(* The request spends under its budget elsewhere, whatever is under way; or it *)
(* is over, and the next one comes with an allowance of its own.               *)
Request(b) ==
    /\ \/ /\ remaining[b] > 0
          /\ remaining' = [remaining EXCEPT ![b] = @ - 1]
       \/ /\ \A l \in Lookup : ~Uses(l, b)
          /\ remaining' = [remaining EXCEPT ![b] = Allowance[b]]
    /\ returned' = NoJob
    /\ UNCHANGED <<throttleVars, serviceVars, cache, memoVars, job>>

-------------------------------------------------------------------------------
(* getJson, from the cache miss on: a slot, a place in the queue, or neither,  *)
(* and then the lookup throws.                                                 *)
Fetch(l, asking) ==
    \/ (AcquireAtOnce(l) \/ Enqueue(l)) /\ job' = [job EXCEPT ![l] = asking]
    \/ RefuseAtCapacity(l) /\ job' = [job EXCEPT ![l] = NoJob]

AskKeyState(l, p, b) ==
    /\ job[l] = NoJob
    /\ Fetch(l, [call |-> "getKeyState", id |-> p, budget |-> b])
    /\ returned' = NoJob
    /\ UNCHANGED <<serviceVars, cache, memoVars, remaining>>

Fresh(c) == cache[c].left > 0

(* getJson for a piece: the cache's entry, and else the host's answer. *)
AskPiece(l, asking) ==
    IF Fresh(asking.chunk)
    THEN /\ job' = [job EXCEPT ![l] = [asking EXCEPT !.at = "answered",
                                          !.found = @ \cup cache[asking.chunk].found]]
         /\ UNCHANGED throttleVars
    ELSE Fetch(l, asking)

AskRevocations(l) ==
    /\ l \notin KeyLookup
    /\ job[l] = NoJob
    /\ AskPiece(l, [call |-> "getRevocations", chunk |-> 1, at |-> "fetch", found |-> {},
                    before |-> RevokedFor(Oldest)])
    /\ returned' = NoJob
    /\ UNCHANGED <<serviceVars, cache, memoVars, remaining>>

(* The queue timer or the deadline fires, or the exchange ends in a transport  *)
(* error, a redirect, an error status, a body past the cap or one that does    *)
(* not parse: getJson throws and the lookup with it, whatever it had found.    *)
Throws(l) ==
    /\ DeadlineFires(l) \/ QueueTimeout(l) \/ ExchangeEnds(l)
    /\ job' = [job EXCEPT ![l] = NoJob]
    /\ returned' = NoJob
    /\ UNCHANGED <<serviceVars, cache, memoVars, remaining>>

(* The service looked at some instant of the exchange, which its deadline      *)
(* bounds; the lifetime of the entry begins now.                               *)
RevocationsArrive(l) ==
    LET c == job[l].chunk
        asked == ToSet(Chunks[c])
    IN  /\ job[l].call = "getRevocations"
        /\ ExchangeEnds(l)
        /\ \E found \in SUBSET (asked \cap RevokedFor(0)) :
              /\ asked \cap RevokedFor(FetchDeadline) \subseteq found
              /\ cache' = [cache EXCEPT ![c] = [found |-> found, left |-> Ttl]]
              /\ job' = [job EXCEPT ![l].at = "answered", ![l].found = @ \cup found]
        /\ returned' = NoJob
        /\ UNCHANGED <<serviceVars, memoVars, remaining>>

(* The next piece is asked for, or all that was found is returned. *)
Answered(l) == job[l].call = "getRevocations" /\ job[l].at = "answered"

NextChunk(l) ==
    /\ Answered(l)
    /\ job[l].chunk < Len(Chunks)
    /\ AskPiece(l, [job[l] EXCEPT !.chunk = @ + 1, !.at = "fetch"])
    /\ returned' = NoJob
    /\ UNCHANGED <<serviceVars, cache, memoVars, remaining>>

RevocationsEnd(l) ==
    /\ Answered(l)
    /\ job[l].chunk >= Len(Chunks)
    /\ job' = [job EXCEPT ![l] = NoJob]
    /\ returned' = job[l]
    /\ UNCHANGED <<throttleVars, serviceVars, cache, memoVars, remaining>>

-------------------------------------------------------------------------------
(* getKeyState, when getKeyLog has answered.  From there on it waits only for  *)
(* promises that are resolved already: it is one step, with the answer.        *)
(* A host may send an older log, none, one whose last signature is forged, and *)
(* somebody else's.                                                            *)
KeyLogAnswers(p) ==
    {NoLog} \cup {Broken(p, n) : n \in 1 .. version[p]}
    \cup UNION {{Log(q, n) : n \in 1 .. version[q]} : q \in Participant}

(* The replay is held against what is left of the budget, or for a caller that *)
(* brought none against the view's own ceiling.                                *)
ReplayCost(log) == log.events

Affords(b) == IF b = NoBudget THEN MaxSignatureVerifications ELSE remaining[b]

Outrun(b, log) == ReplayCost(log) > Affords(b)

(* What was spent is gone, whatever came of it; who runs out has spent it all. *)
Spend(b, log) ==
    remaining' = IF b = NoBudget THEN remaining
                 ELSE [remaining EXCEPT ![b] = IF Outrun(b, log) THEN 0 ELSE @ - ReplayCost(log)]

Resolves(p, log) == log.replays /\ log.of = p

Returns(p, b, log, state) ==
    returned' = [call |-> "getKeyState", id |-> p, log |-> log,
                 budget |-> b, affords |-> Affords(b), state |-> state]

(* A fault to be caught: any entry for the participant will do. *)
FaultyRemembered(p, log) == p \in DOMAIN keyStates

(* The memo has the state for just these events. *)
Remembered(p, log) == p \in DOMAIN keyStates /\ keyStates[p] = log

NoLogResolves(p, b, log) ==
    /\ log = NoLog
    /\ Returns(p, b, log, NoLog)
    /\ UNCHANGED <<memoVars, remaining>>

(* A hit costs nothing and moves the entry to the back. *)
MemoHit(p, b, log) ==
    /\ log # NoLog /\ Remembered(p, log)
    /\ order' = Append(RemoveFirst(order, p), p)
    /\ Returns(p, b, log, keyStates[p])
    /\ UNCHANGED <<keyStates, remaining>>

(* rememberKeyState, after the stale entry was dropped: at the ceiling the     *)
(* first entry goes.                                                           *)
Remember(p, log) ==
    LET others == RemoveFirst(order, p)
        kept == IF Len(others) >= MaxKeyStates THEN Tail(others) ELSE others
    IN  /\ keyStates' = [q \in ToSet(kept) \cup {p} |-> IF q = p THEN log ELSE keyStates[q]]
        /\ order' = Append(kept, p)

(* A miss replays.  What does not resolve leaves no entry behind: null, also   *)
(* for a log past the view's ceiling; but whose own budget ran out is told.    *)
MemoMiss(p, b, log) ==
    /\ log # NoLog /\ ~Remembered(p, log)
    /\ Spend(b, log)
    /\ IF Resolves(p, log) /\ ~Outrun(b, log)
       THEN Remember(p, log) /\ Returns(p, b, log, log)
       ELSE /\ keyStates' = Restrict(keyStates, DOMAIN keyStates \ {p})
            /\ order' = RemoveFirst(order, p)
            /\ Returns(p, b, log, IF Outrun(b, log) /\ b # NoBudget THEN NoJob ELSE NoLog)

Judge(p, b, log) == NoLogResolves(p, b, log) \/ MemoHit(p, b, log) \/ MemoMiss(p, b, log)

(* The log is in the cache, as the host sent it a while ago: no slot is asked. *)
KeyLogCached(l, p, b) ==
    /\ job[l] = NoJob
    /\ \E log \in KeyLogAnswers(p) : Judge(p, b, log)
    /\ UNCHANGED <<throttleVars, serviceVars, cache, job>>

KeyLogArrives(l) ==
    /\ job[l].call = "getKeyState"
    /\ ExchangeEnds(l)
    /\ \E log \in KeyLogAnswers(job[l].id) : Judge(job[l].id, job[l].budget, log)
    /\ job' = [job EXCEPT ![l] = NoJob]
    /\ UNCHANGED <<serviceVars, cache>>

Goes(l) ==
    Throws(l) \/ KeyLogArrives(l) \/ RevocationsArrive(l) \/ NextChunk(l) \/ RevocationsEnd(l)

Next ==
    \/ Service
    \/ Tick
    \/ \E c \in 1 .. Len(Chunks) : Evict(c)
    \/ \E b \in Budget : Request(b)
    \/ \E l \in Lookup :
          \/ l \in KeyLookup /\ \E p \in AsksAbout[l], b \in Brings[l] :
                                  AskKeyState(l, p, b) \/ KeyLogCached(l, p, b)
          \/ AskRevocations(l)
          \/ Goes(l)

Spec == Init /\ [][Next]_vars

(* The runtime fires an armed deadline, and fetch honours the abort signal;   *)
(* what is resolved is resumed.  Nothing is assumed of the service or of the  *)
(* queue timers.                                                              *)
FairSpec ==
    /\ Spec
    /\ \A l \in Lookup :
          /\ WF_vars(DeadlineFires(l) /\ Throws(l))
          /\ WF_vars(Answered(l) /\ Goes(l))

-------------------------------------------------------------------------------
(* Whatever the memo holds and whoever filled it, an answer is about the log   *)
(* this very lookup was sent: the state that log replays to if it is the       *)
(* participant's, and otherwise no state.  A caller is refused for the cost    *)
(* only when the log does not fit into what its request has left by then; and  *)
(* one that brought no budget, which is told of no state instead, only when    *)
(* the log does not fit under the view's ceiling.                              *)
AnswersTheLogInHand ==
    returned.call = "getKeyState" =>
        LET affordable == ReplayCost(returned.log) <= returned.affords
            resolves == Resolves(returned.id, returned.log)
        IN  \/ returned.state = NoJob /\ returned.budget # NoBudget /\ ~affordable
            \/ returned.state = returned.log /\ resolves
            \/ returned.state = NoLog /\ ~resolves
            \/ returned.state = NoLog /\ returned.budget = NoBudget /\ ~affordable

(* From a service that keeps nothing back, a revocation lookup that returns    *)
(* missed nothing that was published one lifetime of the cache and one fetch   *)
(* deadline before it was made, however many pieces it was asked in and        *)
(* whichever of them came from the cache: one that fails in the middle returns *)
(* nothing.                                                                    *)
RevocationsComplete ==
    returned.call = "getRevocations" => returned.before \subseteq returned.found
===============================================================================
