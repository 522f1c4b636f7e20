---------------------------- MODULE DiscoveryCache ----------------------------
(***************************************************************************)
(* The lookup cache of packages/verify/src/discovery-view.ts: getJson with *)
(* sweep, sweepCouldFree and admit.  Several lookups run at once; each one *)
(* that misses waits for a fetch slot, fetches, and stores what it got     *)
(* when the fetch is over.  The discovery service publishes meanwhile.     *)
(*                                                                         *)
(* A record at a path is known here by its version; version 0 is the 404   *)
(* that the code caches as null.                                           *)
(***************************************************************************)
EXTENDS Integers, FiniteSets, Sequences, Functions

CONSTANTS
    Path,             \* request paths, the keys of the cache
    Lookup,           \* calls of getJson that can be in progress at once
    Ttl,              \* ttlMs
    FetchDeadline,    \* fetchDeadlineMs
    MaxCacheEntries,  \* maxCacheEntries
    MaxVersion,       \* bound: versions published at one path
    MaxTime           \* bound: the monotonic clock stops here

ASSUME DiscoveryCacheAssumption ==
    /\ IsFiniteSet(Path)
    /\ Ttl \in Nat
    /\ FetchDeadline \in Nat
    /\ MaxCacheEntries \in Nat \ {0}
    /\ MaxVersion \in Nat
    /\ MaxTime \in Nat

VARIABLES
    mono,         \* monotonicNowMs
    publishedAt,  \* the service: path -> the instants its versions were published at
    cache,        \* the entries of the Map: path -> [value, expires]
    older,        \* pairs of its paths: the Map iterates over the first before the second
    lastSweep,    \* lastSweepMono, or NeverSwept
    lookup,       \* the lookup each caller has in progress, or Idle
    result        \* history: what the last step returned, and its path

cacheVars == <<cache, older, lastSweep>>
vars == <<mono, publishedAt, cacheVars, lookup, result>>

NeverSwept == -1
NoResult == << >>

Entry == [value : Nat, expires : Nat]

(* The stages of a lookup that missed, with what it knows at each of them. *)
Idle == [at |-> "idle"]
Queued(p) == [at |-> "queued", path |-> p]
Fetching(p, t) == [at |-> "fetching", path |-> p, startedAt |-> t]
Answered(p, t, v) == [at |-> "answered", path |-> p, startedAt |-> t, answer |-> v]

Init ==
    /\ mono = 0
    /\ publishedAt = [p \in Path |-> << >>]
    /\ cache = << >>
    /\ older = {}
    /\ lastSweep = NeverSwept
    /\ lookup = [l \in Lookup |-> Idle]
    /\ result = NoResult

-------------------------------------------------------------------------------
Live(p) == p \in DOMAIN cache /\ cache[p].expires > mono

LivePaths == {p \in DOMAIN cache : Live(p)}

Full(paths) == Cardinality(paths) >= MaxCacheEntries

After(p) == {q \in DOMAIN cache : <<p, q>> \in older}

(* sweepCouldFree: looks at the first entry of the Map and at no other. *)
SweepCouldFree == \E p \in DOMAIN cache : After(p) = DOMAIN cache \ {p} /\ ~Live(p)

PacedSweepDue == lastSweep = NeverSwept \/ mono - lastSweep >= Ttl

(* The paths that survive the sweep paced at one per lifetime. *)
Paced == IF PacedSweepDue THEN LivePaths ELSE DOMAIN cache

AdmitSweeps == Full(DOMAIN cache) /\ SweepCouldFree

(* A fault to be caught: a full Map is emptied. *)
FaultyClearing == IF Full(DOMAIN cache) THEN {} ELSE DOMAIN cache

(* The paths admit keeps: expiry first, then eviction from the front until    *)
(* there is room for one more.                                                *)
Admitted ==
    LET swept == IF AdmitSweeps THEN LivePaths ELSE DOMAIN cache
    IN  IF Full(swept)
        THEN {p \in swept : Cardinality(After(p) \cap swept) < MaxCacheEntries - 1}
        ELSE swept

(* Only these paths stay in the Map, where they are. *)
Keep(paths) ==
    /\ cache' = Restrict(cache, paths)
    /\ older' = older \cap (paths \X paths)

(* delete, then set: an entry that is replaced moves to the back. *)
KeepAndStore(paths, p, v) ==
    /\ cache' = [q \in paths \cup {p} |->
                    IF q = p THEN [value |-> v, expires |-> mono + Ttl] ELSE cache[q]]
    /\ older' = LET rest == paths \ {p} IN (older \cap (rest \X rest)) \cup (rest \X {p})

-------------------------------------------------------------------------------
(* The service publishes the next version of a record. *)
Publish(p) ==
    /\ Len(publishedAt[p]) < MaxVersion
    /\ publishedAt' = [publishedAt EXCEPT ![p] = Append(@, mono)]
    /\ result' = NoResult
    /\ UNCHANGED <<mono, cacheVars, lookup>>

InExchange(l) == lookup[l].at \in {"fetching", "answered"}

(* Time passes; no exchange outlives the deadline that aborts it. *)
Tick ==
    /\ mono < MaxTime
    /\ \A l \in Lookup : InExchange(l) => mono - lookup[l].startedAt < FetchDeadline
    /\ mono' = mono + 1
    /\ result' = NoResult
    /\ UNCHANGED <<publishedAt, cacheVars, lookup>>

(* A fault to be caught: being read renews an entry. *)
FaultyHit(p) ==
    /\ Live(p)
    /\ KeepAndStore(Paced, p, cache[p].value)
    /\ lastSweep' = IF PacedSweepDue THEN mono ELSE lastSweep
    /\ result' = [path |-> p, value |-> cache[p].value]
    /\ UNCHANGED <<mono, publishedAt, lookup>>

(* getJson finds a live entry and answers without waiting for anything. *)
Hit(p) ==
    /\ Live(p)
    /\ Keep(Paced)
    /\ lastSweep' = IF PacedSweepDue THEN mono ELSE lastSweep
    /\ result' = [path |-> p, value |-> cache[p].value]
    /\ UNCHANGED <<mono, publishedAt, lookup>>

(* getJson finds none, drops an expired one, and waits for a fetch slot. *)
Miss(l, p) ==
    /\ lookup[l] = Idle
    /\ ~Live(p)
    /\ Keep(Paced \ {p})
    /\ lastSweep' = IF PacedSweepDue THEN mono ELSE lastSweep
    /\ lookup' = [lookup EXCEPT ![l] = Queued(p)]
    /\ result' = NoResult
    /\ UNCHANGED <<mono, publishedAt>>

(* The slot is won: the deadline starts and the request goes out. *)
StartFetch(l) ==
    /\ lookup[l].at = "queued"
    /\ lookup' = [lookup EXCEPT ![l] = Fetching(@.path, mono)]
    /\ result' = NoResult
    /\ UNCHANGED <<mono, publishedAt, cacheVars>>

(* The service answers with what is published at that instant. *)
ServiceAnswers(l) ==
    /\ lookup[l].at = "fetching"
    /\ lookup' = [lookup EXCEPT ![l] =
                     Answered(@.path, @.startedAt, Len(publishedAt[@.path]))]
    /\ result' = NoResult
    /\ UNCHANGED <<mono, publishedAt, cacheVars>>

(* The body is in hand: the lifetime is counted from now, room is made, the  *)
(* entry stored and the value returned, with no await in between.            *)
Complete(l) ==
    /\ lookup[l].at = "answered"
    /\ KeepAndStore(Admitted, lookup[l].path, lookup[l].answer)
    /\ lastSweep' = IF AdmitSweeps THEN mono ELSE lastSweep
    /\ result' = [path |-> lookup[l].path, value |-> lookup[l].answer]
    /\ lookup' = [lookup EXCEPT ![l] = Idle]
    /\ UNCHANGED <<mono, publishedAt>>

(* No slot, the deadline, a transport error or a refused response: getJson   *)
(* throws and stores nothing.                                                *)
Fail(l) ==
    /\ lookup[l] # Idle
    /\ lookup' = [lookup EXCEPT ![l] = Idle]
    /\ result' = NoResult
    /\ UNCHANGED <<mono, publishedAt, cacheVars>>

Next ==
    \/ Tick
    \/ \E p \in Path : Publish(p) \/ Hit(p)
    \/ \E l \in Lookup :
          \/ \E p \in Path : Miss(l, p)
          \/ StartFetch(l)
          \/ ServiceAnswers(l)
          \/ Complete(l)
          \/ Fail(l)

Spec == Init /\ [][Next]_vars

-------------------------------------------------------------------------------
(* A flood of lookups evicts a live entry only when the Map is full of live  *)
(* entries, and then never more than one.                                    *)
LiveEvictedOnlyUnderPressure ==
    [][LET lost == LivePaths \ DOMAIN cache'
       IN  lost # {} =>
             /\ Cardinality(lost) = 1
             /\ Cardinality(LivePaths) = MaxCacheEntries
             /\ LivePaths = DOMAIN cache]_vars

(* The cache implements a view whose reads are at most one lifetime and one  *)
(* fetch deadline behind what is published.                                  *)
View == INSTANCE BoundedStaleness WITH Bound <- Ttl + FetchDeadline

ImplementsBoundedStaleness == View!Spec
===============================================================================
