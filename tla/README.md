# A verification project for Kinnet

Kinnet (`packages/`) gives software agents a cryptographic identity: a key log that survives
rotation (003), records signed by a set of keys (015) and anchored to one state of the log
(016), grants that delegate abilities along a chain (009/011), and a verifier that a service
puts in front of its requests (004). Numbers in parentheses name specifications under
`packages/protocol/spec/`.

The project holds TLA+ modules translated from the code, TLC configurations that check them on
small instances, and proofs that TLAPS checks for every value of the constants.

## 1. The system and its parts

| Component | Code | State it keeps | Operations | Speaks to |
|---|---|---|---|---|
| Replay-nonce guard | `crypto/src/nonce-guard.ts` | a bounded `Map` nonce to deadline, the last sweep | `check`, `peek` | request verifier |
| Request verifier and its surfaces | `verify/src/verifier.ts`, `crypto/src/http-signature.ts` | none but the guard; per call: the request, one clock reading | `verify` (two awaits), `verifyFetch`, the middleware | guard, a trust view, resolver |
| Static view | `verify/src/static-view.ts` | records in hand, filed once | `getKeyState`, `getRelationship`, `getRevocations` | request verifier |
| Discovery view, throttle | `verify/src/discovery-view.ts` | slots in flight, FIFO of waiters, timers | acquire, release, time out | discovery service |
| Discovery view, cache | same | a bounded `Map` path to body and deadline | hit, miss, store, evict, sweep | throttle |
| Discovery view, memo and paging | same | a bounded memo of replayed key states | `getKeyState`, `getRevocations` | throttle, key history |
| Signature sets | `crypto/src/signature-set.ts`, `records.ts` | none | structural checks, the greedy walk, the diagnosis | key history, resolver |
| Key history | `crypto/src/log.ts` | the holder's identity; the published log | `createIdentity`, `rotateIdentity`, `commitToKeyState`, replay, anchor lookup | signature sets |
| Issuing and identity files | `trust/src/issue.ts`, `crypto/src/records.ts`, `identity-file.ts` | the file | `issueGrant`, `issueRelationship`, `issueRevocation`, write, read | key history |
| Discovery client and agent cards | `discovery-client/src/index.ts`, `a2a/src/consume.ts` | none | publish, signed put, read back; verify a card | the directory |
| Grant chains | `trust/src/resolver.ts` | per call: two budgets, the signer-state memo | `verifyGrantChain`, `findRevocation` | any trust view, key history |
| Request context | `trust/src/resolver.ts` | per request: an outer budget, a memo of pending replays | `verifyClaim`, `verifyRelationship`, `verifyRepresentsChain` | several views |
| Financial caveats | `trust/src/financial-caveats.ts` | none | whether a link's caveats admit an action | resolver |
| Stream re-authorization | `verify/src/reauthorize-stream.ts` | none between calls | one re-check | view, resolver |
| Record units | `verify/src/record-unit.ts` | none | judge a record with its chain: accept, reject or wait | view, resolver |
| Everything else | encodings, schemas, MLS adapter, command line, Express glue | none | conversions and I/O | |

Behaviours that are hard here:

* **Interleaving.** JavaScript runs each handler to its next `await`; between awaits anything may
  happen. `verify` awaits between looking at the nonce and recording it; a lookup awaits between
  missing the cache and storing the answer; concurrent operations share one pending promise; a
  re-check of a stream, and the check of an agent card, read several things one after the other
  while those things change.
* **Two clocks.** Freshness is read off the wall clock, which operators and NTP move; retention,
  cache lifetimes and timers run on a monotonic clock.
* **Bounds.** Every Map, queue, log and budget has a ceiling, and every ceiling has a policy:
  refuse (nonces), evict (cache), refuse or time out (queue), fail closed (budgets).
* **Untrusted inputs.** The discovery service may withhold, substitute or repeat anything; a
  presenter may cut, extend or reorder logs and chains, and edit a record in transit.
* **Lost calls and restarts.** A publication may be carried out and its answer lost, or answered
  by somebody else. Only the identity file is persisted; it may be older than the last rotation.

`PROJECT.json` lists the hazards at their lines with the properties that watch each one.

## 2. The modules

One action is one event-loop step: the code between two awaits, with everything it calls.

### A service and its requests

* `ReplayWindow` states what a nonce guard promises: a window per nonce, and the answers fresh,
  replayed, at capacity, clock invalid.
* `NonceGuard` is `createNonceGuard`: `seen` is the Map (its order is the field `pos`), `lastSweep`,
  the monotonic clock, `Check` and `Peek`. `NonceGuardCaller` puts it under any sequence of calls
  and refines `ReplayWindow`.
* `RequestVerifier` is the order of the steps in `verify`, concurrent handlers, both clocks, and
  the guard. What the awaited work decides is nondeterministic there.
* `HttpSignature` has the message: what a signature covers, the digest of the body, the two refusals
  a verification ends in, and its price in verifications. `StaticView` has the records in hand, and
  what it costs to replay a log or to check a signature against it.
* `RelyingParty` puts the three together: a delivered message comes in by one of the adapters
  (`verifyFetch`, or the middleware with octets, with text, or with a body somebody already parsed),
  runs through the checks in their order, and is answered with a status. One allowance is drained
  rung by rung: the key state, the request's signature, the chain, the edge with its revocations; the
  first that does not fit into what is left refuses. It refines
  `RequestVerifier`, so what is shown of the order of steps holds of the surface.

### A service and its view

* `FetchThrottle` has slots, the FIFO queue, queue timers and fetch deadlines. `DiscoveryLookups`
  extends it with the callers: `getKeyState` through the memo that is keyed by the very log in hand,
  `getRevocations` asked in chunks, each of them answered by its entry in the cache or fetched through
  the throttle. Lookups of one request spend from one budget, which others of it drain meanwhile; a
  caller without a budget is held to the view's own ceiling and told of no state beyond it. A log
  that arrives is replayed and answered in one step: nothing between waits for the host.
* `BoundedStaleness` states what a cached view promises: a read is at most `Bound` behind what was
  published. `DiscoveryCache` is `getJson` over the cache and refines it.

### Keys and records

* `SignatureSet` writes the rules of 015 as pure operators; `SignatureWalk` is the code's greedy walk
  under a budget, one verification per step; `AssignmentDiagnosis` adds the full matrix and the
  augmenting paths that name the broken rule when a caller asks for it: the recursion of `augment`
  is a stack of calls (`asking` and `waiting`), one step per key that is asked for and per call that
  gives up, and the assignments a success makes on its way back are one step.
* `KeyLog` is `log.ts`: pure replay, and the holder's steps `Rotate`, `HandOver`, `TakeOver`.
  `KeyLogSuccession` adds parties that hold some of the keys and present logs of their own.
* `AnchoredRecords` judges a record against the one state its anchor names, `IdentityFile` writes and
  loads the file, `RecordIssuing` issues records while the holder rotates.
* `Directory` composes these: a holder that rotates, saves, restarts from an old file, makes records
  and publishes them; a request that arrives, gets lost before or after it was carried out, or is
  answered by a proxy; and a counterparty that verifies an agent's card, one read per step. The
  directory is not in this repository: `host = "keeps"` is one that does what the client and its
  tests say of it, and `host = "answers"` one that answers anything.

### Chains, contexts, streams, units

* `GrantChain` is `verifyGrantChain` and `findRevocation`: the phases of the function are values of
  `pc`, one link, pair or candidate per step; the view is a set of possible answers. The caveats of
  a link are judged by `FinancialCaveats`.
* `RequestContext` has what `GrantChain` leaves out: several operations of one request, interleaved at
  their awaits, over one outer allowance and one memo of promises per view. A call is judged record by
  record: the claim or the edge, then the links of a chain, each with its lookup of revocations, whose
  candidates spend from an allowance of their own besides the other two. What the links say of each
  other, and links issued by bare keys, are `GrantChain`'s.
* `StreamReauthorization` is one stream: re-checks, the reads inside each, rotations, revocations and
  expiry between them. The timer that starts a re-check is the caller's.
* `RecordUnit` extends `RecordIssuing`: units that travel with a chain or without, are edited on the
  way, and are judged by nodes and members whose view has seen a part of a log that goes on growing.

`MC*` modules give the constants their values, and modules named `*Proofs` hold proofs, one for each
group of components that share their lemmas: `RelyingPartyProofs` (nonce guard, verifier, surface),
`DiscoveryLookupsProofs` (throttle, memo, paging), `DiscoveryCacheProofs`, `SignatureWalkProofs`,
`KeyHistoryProofs` (key logs, issuing, record units, the directory), `GrantChainProofs` (with the
caveats), `RequestContextProofs` and `StreamReauthorizationProofs`.

### Conventions

**Faults.** A definition named `Faulty...` stands right before the one it corrupts. No
specification uses it: it is a plausible bug of that line (a dropped guard, a missing `delete`, a
wrong comparison), kept to show that a property breaks when the code is wrong.

**Abstractions.** Digests and canonical encodings are injective: a digest is a tag and the thing
digested. A key stands for its pair; a signature is the key that made it, over exactly that
record. A threshold is the number its text denotes, or `Malformed`, which stands for every text
outside `^[1-9][0-9]*$` and for numbers beyond 2^53. In `GrantChain` an ability is its path segments,
an anchor the sequence number of the event it names. There and in `RequestContext` work is charged at
its worst: a walk costs one verification per key, a log that does not replay costs a whole one. In
`StaticView` it is counted key by key; its edges and revocations carry one signature. An amount is its digits as
a number and how many of them stand after the point.

**Views.** An honest view answers what is published. One that answers anything gives what it can
make: genuine logs cut short or substituted, published revocations, and records that name an
issuer without its signature. Nobody makes a signature with a key they do not hold.

## 3. The runs

| Run | Shows | Bounds, and why they are enough |
|---|---|---|
| `nonce_guard` | the Map implements open windows; `peek` foresees `check` | three nonces over two entries, retention of 3 ticks, 9 ticks: capacity, expiry, re-recording and three windows in a row; clock readings that are no integers |
| `relying_party` | at most once; a replay is refused before the authorization work; a refused request leaves no trace; what is accepted was signed as delivered; a refusal blames whom it concerns; an accepted request may act for the organization | two handlers, half-second ticks, skew 1 s, one place in the Map, the wall clock stepped forward once by 3 ticks, 11 ticks: the whole window of a request and its expiry while another runs. A participant that rotated, one with two keys, one whose log does not replay, and an allowance of seven verifications beside logs of several lengths, so that each rung is the one that refuses for cost; every adapter; bodies rewritten, headers lost, chains added. Four of the deliveries may be under verification at the same time as another (`FewMeet`): the two that are accepted, one with the nonce of the first, and one with a foreign chain |
| `discovery_lookups` | no slot idle while a lookup waits; every lookup settles; the memo answers for the log in hand, and tells of a budget only one that is short; no revocation older than a lifetime and a fetch deadline is missed | one slot, a queue of one, three lookups (the third meets a full queue), a memo of one state for two participants, one of whom rotates; a budget of 3 that two lookups and the rest of the request share, a view's ceiling that a rotated log exceeds; revocations of two issuers in two chunks, lifetime 1 and deadline 1: an entry may be up to two ticks behind |
| `discovery_cache` | bounded staleness; a live entry goes only from a Map full of live ones | two lookups at once, three paths over two entries (eviction), lifetime 2, deadline 1, one supersession, 4 ticks: longer than the bound of staleness |
| `signature_walk` | the walk decides what 015 states, at one verification per key; the diagnosis names the broken rule | up to three members, four keys (a repeated one too) and every relation between them, allowances 0, 2, 8 and 16, with and without diagnosis. |
| `directory` | who may continue a log; what forks share; a confirmed revocation counts; own records are taken; a saved file loads | three events; 1-of-1, 1-of-2, 2-of-2 and impossible shapes and two keys in other hands before a directory that answers anything; two events, one restart and three records (an edge, a self-record, a revocation) before one that keeps its contract |
| `record_units` | only the principal's authority is accepted, in one spelling; members agree; waiting ends; verdicts are final | one and two keys, logs one event past the limit; each member has an allowance of its own, one that affords a short log (4) and one that affords any (9), so that a decision meets a cost refusal |
| `grant_chain` | only narrowing chains are accepted; payments stay within every link; a published revocation is noticed and a forged one never counts; cost | three participants and a key, up to three links (inheritance along a chain needs three). With ample allowances and an honest view: chains around sound ones with each link off in any one field, and combinations of `aud`, abilities and caveats along the chain. For sound chains: both kinds of view and allowances from none to plenty. One revocation, published at any moment |
| `stream` | a stream is closed in its window, for a reason that is true, at one allowance per re-check | a re-check every 2 ticks that may take 1, a view 1 tick behind, 6 ticks: two re-checks after any change; three key states each; one and two links |
| `request_context` | no verification is paid twice or forgotten; nobody is served from another view; a refusal for cost means a spent meter, that of the lookup included; the memo keeps what replayed; operations end | three operations over three views, one of them honest; outer allowances 8 (short) and 20 (ample), local ceilings 7, 3 and 16; a chain of three issuers, for whose leaf a view may send three forged candidates where the allowance of a lookup pays two. Each of the three meters runs out first in some behaviour |
| `committee` | *violated*: committees below unanimity | up to three keys, every threshold |
| `unit_wait` | *violated*: a lagging member waits | as `record_units`, four keys, ample allowance |

A clock that stops (`MaxTime`) and a finite supply of keys, events, records and versions are the
bounds of the models; where they end a run in a dead state, or a single call ends, the
configuration says `CHECK_DEADLOCK FALSE`.

**Fairness.** Safety is checked without any. Liveness rests on the following.

* `DiscoveryLookups` is weakly fair on the fetch deadline of a lookup and on what runs after an
  answer or a refusal, and on nothing the service or the queue timers do: `setTimeout` fires on a
  live event loop and `fetch` honours the abort signal, while an answer may never come.
* `RequestContext` is weakly fair on the next step of every running operation: the code runs to its
  next await, and the view answers or refuses within its deadlines.
* `RecordUnit` is weakly fair on the view catching up and on a waiting unit being judged again, which
  014 asks of whoever keeps it.

### What the violated runs say

* `issue.ts:18` promises that a committee satisfies its own threshold; the code signs with all
  the keys and the verifier wants exactly the threshold, so only unanimous committees do.
* 014 (line 365) says that a grant anchored to an event the member has not seen yet makes the unit
  wait. `UNIT_WAIT_REASONS` (`record-unit.ts:159`) lists the unknown anchor of the record and not
  the one of its grant, `chain_invalid:grant_issuer_anchor_unknown`; the member rejects for good what
  it would accept once its view has caught up.

### What the properties leave out on purpose

Some properties carry an exception where the code does less than one might hope.

* `AtMostOnce` assumes a wall clock that never steps backward. `nonce-guard.ts:155` speaks of a
  clock that moves in either direction; after a backward step a request is fresh again when its
  nonce was forgotten long ago.
* `WorkBounded` bounds replays by candidates, not by issuers as the comment at `resolver.ts:1103`
  does, unless the view is honest: the memo forgets a log that did not replay (`resolver.ts:812`), so
  each candidate naming its issuer pays again.
* `ActsForOrganization` excepts a shadowed record: the static view keeps the first record of an issuer
  and digest, signed or not, so a forged one given first hides the genuine one behind it.
* `RevocationsComplete` speaks of revocations published one lifetime of the cache and one fetch deadline
  before the lookup: an entry hides a newer one, as `discovery-view.ts:72` says of the lifetime.
* `RevocationTakesEffect` excepts a check that read an older log than the directory now holds. A
  revocation issued again after a rotation replaces the earlier one, and to that check its anchor is
  unknown, so it is skipped (`resolver.ts:949`).
* `RevocationTakesEffect` counts a revocation as confirmed when `publishRevocation` resolved, which
  parses the body of the answer. `publishKeyLog` resolves on any 2xx and looks at no body, so a
  proxy's page confirms a log the directory never saw; no property relies on that confirmation.
* `SavedIdentityLoads` excepts a holder that took over and has not rotated: it has no keys of the
  current state, and `identity-file.ts:100` refuses its file. Properties of the holder's log are
  stated up to 128 events; `rotateIdentity` mints the 129th, replay refuses it.
* `ForksRevealTheSameKeys`: a holder that reloads an identity file from before its last rotation can
  mint a second successor, and replay accepts either log (003 defers duplicity detection). The
  property says what two such logs still share.

## 4. The proofs

Every safety property that a run checks, invariant or action property, is also a theorem, for every
value of the constants. Each is proved from an inductive invariant, whose conjuncts are named.

**The guard, the verifier, the surface** (`RelyingPartyProofs`).

* `GuardInvariantHolds`, `GuardImplementsReplayWindow`, `PeekForeseesWhatCheckSays`. The gate
  `sweepCouldFree` looks at one entry; that this decides follows from insertion order being deadline
  order, which needs distinct places and deadlines that never exceed one window from now. These
  conjuncts are `GuardInvariant`; the refinement maps each verdict to the abstract action of its name.
* `AtMostOnceHolds`, `ReplayRefusedBeforeAuthorizationHolds`. The invariant ties an accepted request to
  a nonce retained until the request is stale, and a handler past its peek to a bounded time since. It
  assumes that `WallSteps` are naturals (`ForwardOnly`) and that `MaxLatency` is below the retention
  (`AuthorizationFitsRetention`); the code enforces neither (the commit looks at the freshness of the
  request no more).
* `AcceptedAsSignedHolds`, `SurfaceIsAVerifier`, `SurfaceAcceptsAtMostOnce`. A handler past the signature
  check holds a message whose signature base is one that was signed; ideal digests and
  `SignaturesAreUnforgeable` make it the signed message field by field. Each step of the surface is a
  step of `RequestVerifier` or a stutter, which carries at-most-once over.
* `RefusedLeaveNoTrace`, `AcceptedActForTheOrganization`, `RefusalsBlameWhomTheyConcern`. What a handler
  knows at each of its places is a conjunct of its own: which checks it passed, against which records.
  A refusal for cost is backed by numbers of verifications: what the rungs up to that one cost is
  more than the allowance. What the resolver says of a chain is a parameter (`ChainsAreVerdicts`):
  its verdict, its cost and the logs it has replayed. An organization whose revocations need several
  signatures is not modelled; `verify` is called without an outer context.

**The discovery view.**

* `SlotsAreUsed` (`DiscoveryLookupsProofs`). That nobody waits beside an idle slot is inductive only with
  the slot accounting (`Throttled`): the counter is the number of lookups that fetch, the queue and the
  timers hold those that wait, each once.
* `LookupsAnswerTheLogInHand`. The invariant of the memo (`MemoIsSound`) is that every entry is a log that
  replays, under the participant it is of, and that the order of use names the entries, each once:
  without the latter an eviction could keep a key it has no entry for. Whoever is refused for the cost,
  or without a budget told of no state, was sent a log that exceeds what was left at that instant.
* `RevocationLookupsMissNothing`. A cached piece holds what was published a lifetime, less what is left of
  it, and a deadline ago (`EntriesAreComplete`); so a lookup has found what was published a lifetime and a
  deadline before it in every piece that was answered (`NothingMissed`), and the pieces cover the
  issuers (`ChunksCoverIssuers`: the arithmetic of cutting a list into pieces).
* `CacheImplementsBoundedStaleness`, `LiveEvictedUnderPressureOnly` (`DiscoveryCacheProofs`). Every cached
  value carries the latest instant at which it could have been current: at most a deadline before it
  was stored. The bound is `cacheTtlSeconds` plus `fetchDeadlineMs`; `discovery-view.ts:72` speaks of the
  first alone. For evictions: insertion order is deadline order here too, so a Map whose first entry
  lives holds no expired one.

**Signatures** (`SignatureWalkProofs`). `WalkDecidesExactly`, `WalkWorkIsBounded`: the exchange argument, as
an invariant that says that every conforming assignment is, member by member, at or beyond the walk's.
Hence running out of keys refutes every assignment at once. `DiagnosisNamesTheBrokenRule`: in every step
of the search the keys held are a matching of the members placed so far (`Matching`), the calls are a
path from the member to be placed along keys asked for and their holders (`Path`), and a key seen is
held, by a member that is still being asked or that has no key left to try (`Exhausted`). A free key
augments the matching along the path; a search that fails has met one member more than it has seen
keys, and no member it met has another key: the pigeonhole principle refutes every assignment.

**Key history, records, units, the directory** (`KeyHistoryProofs`), for logs, key states and units of any
size, and any number of restarts and messages.

* `VerdictsOnRecordsAreFinal`, `UnitVerdictsAreFinal`. An anchor names an event by its digest, and a digest
  fixes the event: growing a log adds no second event with that digest. `IssuedInvariant` says that the
  anchor of an issued record is in the log already.
* `SuccessionTakesAQuorum`, `DirectoryNeedsAQuorum`. `HolderInvariant` says that the holder's log replays, that
  every rotation reveals what the event before it committed to, and that the keys held back are those
  the last event committed to (`SoundHolder`, `OwnKeys`, `HeirIsCommitted`, `Chain`). Where an accepted log
  parts from it, the commitment of the common prefix fixes the keys of the next event, and its
  signatures were made by whoever holds those keys (`SuccessionInvariant`).
* `IdentityFilesLoad`, `HoldersWordsAreTaken`, `ForksShareCommitments`. `HoldersInvariant` is the same of every
  file that may be loaded again and every body on its way; `WordsInvariant` ties what is stored,
  served and told to what was minted.
* `ConfirmedRevocationsCount`. `RevocationsInvariant`: for every edge whose revocation was confirmed the
  directory serves a record that is good at an anchor of the log it stores. A later revocation that
  takes its place is anchored to the log that is stored then; so a check that reads that log sees it.
* `AcceptedOnAuthority`, `MembersDecideAlike`, `ChangesHaveOneUnit`. `UnitInvariant` keeps what an
  accepted unit rests on in terms that outlast the log it was judged with (`AcceptedForOwner`,
  `AcceptedForDelegate`) and, for a member with an honest view, that the verdict is the one of some prefix
  of the log (`JudgedHonestly`). A longer prefix changes a verdict only from a reason to wait, and a
  different allowance only to or from one: a member that runs out waits, and decides nothing.

**Chains** (`GrantChainProofs`).

* `ChainNarrows`. What each phase has established when it is left is a conjunct of the invariant. The code
  compares neighbours only; the invariant carries coverage by every link above (`Down`), which one more
  pair extends because prefix covers are transitive, and the inherited `aud` as a lower bound of all
  above (`Narrowed`).
* `ChainSpendsWithinEveryLink`. The leaf is compared with the action, each link with the one above; amounts
  of different scale are compared on a common one, where being at most is transitive.
* `ForgedRevocationsNeverCount`, `RevocationsAreNoticed`. `RevocationInv`: a link is passed only when every
  candidate was judged, and a candidate counts only by a signature at the state its anchor names.
* `WorkIsBounded`. The meters and the counts of a lookup first (`Metered`): what is spent came off the
  allowance, and the memo covers every issuer the walk has passed. Then the costs of the links, as a
  sequence that adds up link by link, with what is spent at each place of the walk below it (`CostsInv`).

**Requests** (`RequestContextProofs`). `RequestMetersAddUp`, `RequestAcceptedOnOwnView`, `RequestCostRefusals`,
`RequestMemoKeepsReplayedLogs`. `MetersBalance`: the outer allowance is what was given less the sum of what
the operations spent (`Sums`, a sum over the finite set of them). `PromisesAreKept`: a shared promise
that is no replayed log has its maker still waiting at the call that made it, so whoever shares it
hears what the maker hears. `CostIsSomebodys`: a refusal for cost means that the allowance of the lookup
that was refused, or a meter of this operation or of one that ran beside it, is spent. An operation
past a record has a signed, current record behind it and its issuer's log in its view (`Passed`); a
lookup of an honest view that has no candidates left saw no revocation by the issuer (`Noticing`).

**Streams** (`StreamReauthorizationProofs`). `StreamClosesWithinWindow`, `CloseReasonsTrue`,
`RecheckHasOneAllowance`. An answer that hides a loss is given within `ViewBound` of it, so a re-check
that authorized after the loss started within `ViewBound` of it (`PassedInv`); the next starts within
`Interval` of that start, ends within `Latency` of its own (`TimeInv`), and does not authorize. A reason
names a fact that was read or an instant that has passed.

**Assumptions.** Besides the two named above: constants are of the kind their comments say, sets that
are enumerated are finite, and bounds that the code floors at one are positive. Names that stand for
nobody (`"nobody"` of `GrantChain`, `Outside` of `KeyLog`) are no participants, and other people's keys are
none the holder mints. The bounds of the model checker (`MaxTime` and the like) are constants of the
theorems, so the theorems hold for each of them. TLC evaluates every assumption in the runs.

**Only model-checked.** `EveryLookupSettles`, `WaitsEnd` and `OperationsEnd`: liveness under fairness, which the
prover cannot express.

## 5. What is not modelled, and why

* Encodings, the syntax of headers and identifiers, schemas of shapes, the MLS adapter, TLS, the
  command line, Express glue, `explain` and the mapping of MCP names, the wording of refusals: pure
  conversions or I/O with no state and no order to get wrong.
* The listing reads of the discovery client (nodes, claims, export), which parse what they are given;
  `agentCardFromProfile`, which fills text fields; `issueClaim`, which is `issueRelationship` with
  other data; `validateGrant`, which repeats the schema's verdict for the minting side.
* Restart of a verifier: its Map is in memory and the code has no recovery step. A replayed
  request is then fresh again, as the documentation of `createNonceGuard` says.
* The cache of key logs in `DiscoveryLookups`: an answer that is an older log, which the host may give
  as well, stands for it. When an entry makes room is `DiscoveryCache`'s; in `DiscoveryLookups` it may
  go at any moment.
* A view that answers a stream's re-check with a key state from before the stream was opened.
* The timer that re-checks a stream and the store that keeps waiting units are the caller's; the
  models take what 013 and 014 ask of them.

## 6. What is left

1. Two requests of one handler sharing a discovery view: `RequestContext` over `DiscoveryLookups`, with
   the cache's staleness in place of an honest view's answer.
2. Chains of more than one grant in a record unit.
