-------------------------- MODULE DiscoveryCacheProofs --------------------------
(***************************************************************************)
(* How old an answer of the cached view may be, for every set of paths and *)
(* lookups, every lifetime, deadline and ceiling: the cache implements     *)
(* BoundedStaleness with Bound = Ttl + FetchDeadline.                      *)
(*                                                                         *)
(* The argument follows one answer from the service to the reader.  While  *)
(* it is in flight, whatever it lacks was published after its fetch        *)
(* started; when it is stored, its fetch started at most FetchDeadline     *)
(* ago, so its entry expires within Ttl + FetchDeadline of anything it     *)
(* lacks; and an entry is returned only before it expires.                 *)
(***************************************************************************)
EXTENDS DiscoveryCache, FiniteSetTheorems, WellFoundedInduction, TLAPS

(* The part of TypeOK the argument needs. *)
StalenessTypeOK ==
    /\ mono \in Nat
    /\ publishedAt \in [Path -> Seq(Nat)]
    /\ DOMAIN cache \subseteq Path
    /\ \A p \in DOMAIN cache : cache[p] \in [value : 0 .. MaxVersion, expires : Nat]
    /\ \A p \in Path : Len(publishedAt[p]) <= MaxVersion

(* What a lookup in each stage is: which path, since when, with which answer. *)
Stage(job) ==
    \/ job = Idle
    \/ \E p \in Path : job = Queued(p)
    \/ \E p \in Path, t \in Nat : job = Fetching(p, t)
    \/ \E p \in Path, t \in Nat, v \in 0 .. MaxVersion : job = Answered(p, t, v)

LookupTypeOK ==
    /\ DOMAIN lookup = Lookup
    /\ \A l \in Lookup : Stage(lookup[l])

(* No exchange started in the future or is older than its deadline. *)
ExchangesWithinDeadline ==
    \A l \in Lookup : InExchange(l) =>
        /\ lookup[l].startedAt <= mono
        /\ mono <= lookup[l].startedAt + FetchDeadline

(* What an answer in flight lacks was published since its fetch started. *)
AnswersCurrentSinceStart ==
    \A l \in Lookup : lookup[l].at = "answered" =>
        \A v \in lookup[l].answer + 1 .. Len(publishedAt[lookup[l].path]) :
            lookup[l].startedAt <= publishedAt[lookup[l].path][v]

(* An entry expires within Ttl + FetchDeadline of anything it lacks. *)
EntriesExpireInTime ==
    \A p \in DOMAIN cache :
        /\ cache[p].expires <= mono + Ttl
        /\ \A v \in cache[p].value + 1 .. Len(publishedAt[p]) :
              cache[p].expires <= publishedAt[p][v] + (Ttl + FetchDeadline)

StalenessInvariant ==
    /\ StalenessTypeOK
    /\ LookupTypeOK
    /\ ExchangesWithinDeadline
    /\ AnswersCurrentSinceStart
    /\ EntriesExpireInTime

-------------------------------------------------------------------------------
(* What comes after position v of a sequence of instants is an instant. *)
LEMMA ElementAfter ==
  ASSUME NEW s \in Seq(Nat), NEW v \in Nat, NEW w \in v + 1 .. Len(s)
  PROVE  s[w] \in Nat
<1>1. Len(s) \in Nat
  OBVIOUS
<1>2. w \in 1 .. Len(s)
  BY <1>1
<1> QED
  BY <1>2

(* A step that leaves the service alone and only drops entries keeps the     *)
(* entries' part of the invariant.                                           *)
LEMMA DroppingEntries ==
  ASSUME StalenessInvariant, NEW paths, paths \subseteq DOMAIN cache, Keep(paths),
         UNCHANGED <<mono, publishedAt>>
  PROVE  StalenessTypeOK' /\ EntriesExpireInTime'
<1>1. /\ DOMAIN cache' = paths
      /\ \A p \in DOMAIN cache' : p \in DOMAIN cache /\ cache'[p] = cache[p]
  BY DEF Keep, Restrict
<1>2. StalenessTypeOK'
  BY <1>1 DEF StalenessInvariant, StalenessTypeOK
<1>3. EntriesExpireInTime'
  BY <1>1 DEF StalenessInvariant, EntriesExpireInTime
<1> QED
  BY <1>2, <1>3

(* The paced sweep only ever drops entries. *)
LEMMA PacedDrops == Paced \subseteq DOMAIN cache
  BY DEF Paced, LivePaths

(* A lookup that moves to a stage outside the exchange disturbs no other.    *)
LEMMA LookupMovesOutsideExchange ==
  ASSUME LookupTypeOK, ExchangesWithinDeadline, AnswersCurrentSinceStart,
         NEW l \in Lookup, NEW job, Stage(job), job.at \notin {"fetching", "answered"},
         lookup' = [lookup EXCEPT ![l] = job], UNCHANGED <<mono, publishedAt>>
  PROVE  LookupTypeOK' /\ ExchangesWithinDeadline' /\ AnswersCurrentSinceStart'
<1>1. /\ DOMAIN lookup' = Lookup
      /\ lookup'[l] = job
      /\ \A m \in Lookup : m # l => lookup'[m] = lookup[m]
  BY DEF LookupTypeOK
<1> QED
  BY <1>1 DEF LookupTypeOK, ExchangesWithinDeadline, InExchange, AnswersCurrentSinceStart

(* In particular one that ends. *)
LEMMA LookupGoesIdle ==
  ASSUME StalenessInvariant, NEW l \in Lookup,
         lookup' = [lookup EXCEPT ![l] = Idle], UNCHANGED <<mono, publishedAt>>
  PROVE  LookupTypeOK' /\ ExchangesWithinDeadline' /\ AnswersCurrentSinceStart'
<1>1. Stage(Idle) /\ Idle.at = "idle"
  BY DEF Stage, Idle
<1> QED
  BY <1>1, LookupMovesOutsideExchange DEF StalenessInvariant

(* The invariant holds at the start. *)
LEMMA InitEstablishesStaleness == Init => StalenessInvariant
<1> SUFFICES ASSUME Init PROVE StalenessInvariant
  OBVIOUS
<1>0. DOMAIN cache = {}
  BY DEF Init
<1>1. StalenessTypeOK
  BY <1>0, DiscoveryCacheAssumption DEF Init, StalenessTypeOK
<1>2. LookupTypeOK
  BY DEF Init, LookupTypeOK, Stage
<1>3. \A l \in Lookup : lookup[l].at = "idle"
  BY DEF Init, Idle
<1> QED
  BY <1>0, <1>1, <1>2, <1>3
     DEF StalenessInvariant, ExchangesWithinDeadline, InExchange,
         AnswersCurrentSinceStart, EntriesExpireInTime

(* The service publishes: what is new was published now. *)
LEMMA PublishKeepsStaleness ==
  ASSUME StalenessInvariant, NEW p \in Path, Publish(p)
  PROVE  StalenessInvariant'
<1>1. /\ UNCHANGED <<mono, cache, lookup>>
      /\ \A q \in Path : q # p => publishedAt'[q] = publishedAt[q]
      /\ publishedAt'[p] = Append(publishedAt[p], mono)
      /\ publishedAt' = [publishedAt EXCEPT ![p] = Append(@, mono)]
      /\ Len(publishedAt[p]) < MaxVersion
      /\ mono \in Nat /\ \A q \in Path : publishedAt[q] \in Seq(Nat)
  BY DEF Publish, cacheVars, StalenessInvariant, StalenessTypeOK
<1>2. /\ Len(publishedAt'[p]) = Len(publishedAt[p]) + 1
      /\ \A v \in 1 .. Len(publishedAt[p]) : publishedAt'[p][v] = publishedAt[p][v]
      /\ publishedAt'[p][Len(publishedAt[p]) + 1] = mono
      /\ publishedAt'[p] \in Seq(Nat)
  BY <1>1
<1>3. StalenessTypeOK'
  <2>1. publishedAt' \in [Path -> Seq(Nat)]
    BY <1>1, <1>2 DEF StalenessInvariant, StalenessTypeOK
  <2>2. \A q \in Path : Len(publishedAt'[q]) <= MaxVersion
    <3> TAKE q \in Path
    <3>1. CASE q = p
      BY <3>1, <1>1, <1>2, DiscoveryCacheAssumption
    <3>2. CASE q # p
      BY <3>2, <1>1 DEF StalenessInvariant, StalenessTypeOK
    <3> QED
      BY <3>1, <3>2
  <2> QED
    BY <1>1, <2>1, <2>2 DEF StalenessInvariant, StalenessTypeOK
<1>4. ASSUME NEW q \in Path, NEW from \in Nat, NEW v \in from + 1 .. Len(publishedAt'[q]),
             NEW t \in Int, t <= mono,
             \A w \in from + 1 .. Len(publishedAt[q]) : t <= publishedAt[q][w]
      PROVE  t <= publishedAt'[q][v]
  <2>1. CASE q # p
    BY <2>1, <1>1, <1>4
  <2>2. CASE q = p /\ v = Len(publishedAt[p]) + 1
    BY <2>2, <1>2, <1>4
  <2>3. CASE q = p /\ v # Len(publishedAt[p]) + 1
    <3>1. v \in from + 1 .. Len(publishedAt[p]) /\ v \in 1 .. Len(publishedAt[p])
      BY <2>3, <1>1, <1>2, <1>4
    <3> QED
      BY <3>1, <2>3, <1>2, <1>4
  <2> QED
    BY <2>1, <2>2, <2>3
<1>5. LookupTypeOK' /\ ExchangesWithinDeadline'
  BY <1>1 DEF StalenessInvariant, LookupTypeOK, ExchangesWithinDeadline, InExchange
<1>6. AnswersCurrentSinceStart'
  <2> SUFFICES ASSUME NEW l \in Lookup, lookup[l].at = "answered",
                      NEW v \in lookup[l].answer + 1 .. Len(publishedAt'[lookup[l].path])
               PROVE  lookup[l].startedAt <= publishedAt'[lookup[l].path][v]
    BY <1>1 DEF AnswersCurrentSinceStart
  <2>1. /\ lookup[l].path \in Path /\ lookup[l].startedAt \in Nat
        /\ lookup[l].answer \in Nat /\ lookup[l].startedAt <= mono
    BY DEF StalenessInvariant, LookupTypeOK, Stage, Idle, Queued, Fetching, Answered,
           ExchangesWithinDeadline, InExchange
  <2>2. \A w \in lookup[l].answer + 1 .. Len(publishedAt[lookup[l].path]) :
            lookup[l].startedAt <= publishedAt[lookup[l].path][w]
    BY DEF StalenessInvariant, AnswersCurrentSinceStart
  <2>3. lookup[l].startedAt \in Int
    BY <2>1
  <2> QED
    BY <2>1, <2>2, <2>3, <1>4
<1>7. EntriesExpireInTime'
  <2> SUFFICES ASSUME NEW q \in DOMAIN cache
               PROVE  /\ cache[q].expires <= mono + Ttl
                      /\ \A v \in cache[q].value + 1 .. Len(publishedAt'[q]) :
                            cache[q].expires <= publishedAt'[q][v] + (Ttl + FetchDeadline)
    BY <1>1 DEF EntriesExpireInTime
  <2>1. /\ q \in Path /\ cache[q].value \in Nat /\ cache[q].expires \in Nat
        /\ cache[q].expires <= mono + Ttl
        /\ \A v \in cache[q].value + 1 .. Len(publishedAt[q]) :
              cache[q].expires <= publishedAt[q][v] + (Ttl + FetchDeadline)
    BY DEF StalenessInvariant, StalenessTypeOK, EntriesExpireInTime
  <2>2. \A v \in cache[q].value + 1 .. Len(publishedAt'[q]) : publishedAt'[q][v] \in Nat
    <3>1. publishedAt'[q] \in Seq(Nat)
      BY <2>1, <1>3 DEF StalenessTypeOK
    <3> QED
      BY <3>1, <2>1, ElementAfter
  <2>3. \A v \in cache[q].value + 1 .. Len(publishedAt[q]) : publishedAt[q][v] \in Nat
    <3>1. publishedAt[q] \in Seq(Nat)
      BY <2>1, <1>1
    <3> QED
      BY <3>1, <2>1, ElementAfter
  <2> DEFINE t == cache[q].expires - (Ttl + FetchDeadline)
  <2>4. /\ Ttl \in Nat /\ FetchDeadline \in Nat /\ t \in Int /\ t <= mono
        /\ \A v \in cache[q].value + 1 .. Len(publishedAt[q]) : t <= publishedAt[q][v]
    <3>1. Ttl \in Nat /\ FetchDeadline \in Nat /\ mono \in Nat
      BY <1>1, DiscoveryCacheAssumption
    <3>2. t \in Int /\ t <= mono
      BY <3>1, <2>1
    <3>3. ASSUME NEW v \in cache[q].value + 1 .. Len(publishedAt[q])
          PROVE  t <= publishedAt[q][v]
      <4> DEFINE w == publishedAt[q][v]
      <4>1. cache[q].expires <= w + (Ttl + FetchDeadline)
        BY <3>3, <2>1
      <4>2. cache[q].expires \in Nat /\ w \in Nat
        BY <3>3, <2>1, <2>3
      <4> HIDE DEF w
      <4>3. t <= w
        BY <4>1, <4>2, <3>1
      <4> QED
        BY <4>3 DEF w
    <3> QED
      BY <3>1, <3>2, <3>3
  <2>5. \A v \in cache[q].value + 1 .. Len(publishedAt'[q]) : t <= publishedAt'[q][v]
    <3> HIDE DEF t
    <3> QED
      BY <2>1, <2>4, <1>4
  <2> QED
    BY <2>1, <2>2, <2>4, <2>5
<1> QED
  BY <1>3, <1>5, <1>6, <1>7 DEF StalenessInvariant

(* The answer is stored: it lacks only what was published since its fetch    *)
(* started, at most one deadline ago, and its lifetime starts now.           *)
LEMMA CompleteKeepsStaleness ==
  ASSUME StalenessInvariant, NEW l \in Lookup, Complete(l)
  PROVE  StalenessInvariant'
<1> DEFINE p == lookup[l].path
           v == lookup[l].answer
           keep == Admitted
<1>1. /\ lookup[l].at = "answered"
      /\ UNCHANGED <<mono, publishedAt>>
      /\ lookup' = [lookup EXCEPT ![l] = Idle]
  BY DEF Complete
<1>2. /\ p \in Path /\ v \in 0 .. MaxVersion /\ lookup[l].startedAt \in Nat
      /\ lookup[l].startedAt <= mono /\ mono <= lookup[l].startedAt + FetchDeadline
  BY <1>1 DEF StalenessInvariant, LookupTypeOK, Stage, Idle, Queued, Fetching, Answered,
              ExchangesWithinDeadline, InExchange
<1>3. /\ mono \in Nat /\ Ttl \in Nat /\ FetchDeadline \in Nat
      /\ \A q \in Path : publishedAt[q] \in Seq(Nat)
  BY DiscoveryCacheAssumption DEF StalenessInvariant, StalenessTypeOK
<1>4. keep \subseteq DOMAIN cache
  BY DEF Admitted, LivePaths
<1>5. cache' = [q \in keep \cup {p} |->
                  IF q = p THEN [value |-> v, expires |-> mono + Ttl] ELSE cache[q]]
  BY DEF Complete, KeepAndStore
<1> HIDE DEF keep
<1>6. /\ DOMAIN cache' = keep \cup {p}
      /\ cache'[p] = [value |-> v, expires |-> mono + Ttl]
      /\ \A q \in DOMAIN cache' : q # p => q \in DOMAIN cache /\ cache'[q] = cache[q]
  BY <1>4, <1>5
<1>7. StalenessTypeOK'
  <2>1. cache'[p] \in [value : 0 .. MaxVersion, expires : Nat]
    BY <1>2, <1>3, <1>6
  <2>2. \A q \in DOMAIN cache' : cache'[q] \in [value : 0 .. MaxVersion, expires : Nat]
    BY <2>1, <1>6 DEF StalenessInvariant, StalenessTypeOK
  <2>3. DOMAIN cache' \subseteq Path
    BY <1>2, <1>4, <1>6 DEF StalenessInvariant, StalenessTypeOK
  <2> QED
    BY <2>2, <2>3, <1>1 DEF StalenessInvariant, StalenessTypeOK
<1>8. LookupTypeOK' /\ ExchangesWithinDeadline' /\ AnswersCurrentSinceStart'
  BY <1>1, LookupGoesIdle
<1>9. EntriesExpireInTime'
  <2>1. \A w \in v + 1 .. Len(publishedAt[p]) :
            mono + Ttl <= publishedAt[p][w] + (Ttl + FetchDeadline)
    <3> TAKE w \in v + 1 .. Len(publishedAt[p])
    <3>1. lookup[l].startedAt <= publishedAt[p][w]
      BY <1>1 DEF StalenessInvariant, AnswersCurrentSinceStart
    <3>2. publishedAt[p] \in Seq(Nat) /\ v \in Nat
      BY <1>2, <1>3
    <3>3. ASSUME NEW a \in Nat, NEW b \in Nat, a <= b, mono <= a + FetchDeadline
          PROVE  mono + Ttl <= b + (Ttl + FetchDeadline)
      BY <3>3, <1>3
    <3>4. lookup[l].startedAt \in Nat /\ mono <= lookup[l].startedAt + FetchDeadline
      BY <1>2
    <3> HIDE DEF p, v
    <3>5. publishedAt[p][w] \in Nat
      BY <3>2, ElementAfter
    <3> QED
      BY <3>1, <3>3, <3>4, <3>5
  <2>2. ASSUME NEW q \in DOMAIN cache'
        PROVE  /\ cache'[q].expires <= mono + Ttl
               /\ \A w \in cache'[q].value + 1 .. Len(publishedAt[q]) :
                     cache'[q].expires <= publishedAt[q][w] + (Ttl + FetchDeadline)
    <3>1. CASE q = p
      BY <3>1, <2>1, <1>3, <1>6
    <3>2. CASE q # p
      BY <3>2, <1>6 DEF StalenessInvariant, EntriesExpireInTime
    <3> QED
      BY <3>1, <3>2
  <2> QED
    BY <2>2, <1>1 DEF EntriesExpireInTime
<1> QED
  BY <1>7, <1>8, <1>9 DEF StalenessInvariant

-------------------------------------------------------------------------------
(* The invariant is inductive: one step per action. *)
LEMMA StalenessInvariantIsInductive ==
  ASSUME StalenessInvariant, [Next]_vars
  PROVE  StalenessInvariant'
<1> USE DEF StalenessInvariant
<1>1. CASE Tick
  <2>1. /\ UNCHANGED <<publishedAt, cache, lookup>> /\ mono' = mono + 1 /\ mono \in Nat
        /\ Ttl \in Nat /\ FetchDeadline \in Nat
        /\ \A l \in Lookup : InExchange(l) => mono - lookup[l].startedAt < FetchDeadline
    BY <1>1, DiscoveryCacheAssumption DEF Tick, cacheVars, StalenessTypeOK
  <2>2. StalenessTypeOK' /\ LookupTypeOK' /\ AnswersCurrentSinceStart'
    BY <2>1 DEF StalenessTypeOK, LookupTypeOK, AnswersCurrentSinceStart
  <2>3. ExchangesWithinDeadline'
    <3> SUFFICES ASSUME NEW l \in Lookup, InExchange(l)
                 PROVE  /\ lookup[l].startedAt <= mono + 1
                        /\ mono + 1 <= lookup[l].startedAt + FetchDeadline
      BY <2>1 DEF ExchangesWithinDeadline, InExchange
    <3>1. lookup[l].startedAt \in Nat
      BY DEF LookupTypeOK, Stage, Idle, Queued, Fetching, Answered, InExchange
    <3> QED
      BY <3>1, <2>1 DEF ExchangesWithinDeadline
  <2>4. EntriesExpireInTime'
    BY <2>1 DEF EntriesExpireInTime, StalenessTypeOK
  <2> QED
    BY <2>2, <2>3, <2>4
<1>2. ASSUME NEW p \in Path, Publish(p)
      PROVE  StalenessInvariant'
  BY <1>2, PublishKeepsStaleness
<1>3. ASSUME NEW p \in Path, Hit(p)
      PROVE  StalenessInvariant'
  <2>1. StalenessTypeOK' /\ EntriesExpireInTime' /\ UNCHANGED <<mono, publishedAt, lookup>>
    BY <1>3, PacedDrops, DroppingEntries DEF Hit
  <2> QED
    BY <2>1 DEF LookupTypeOK, ExchangesWithinDeadline, InExchange, AnswersCurrentSinceStart
<1>4. ASSUME NEW l \in Lookup, NEW p \in Path, Miss(l, p)
      PROVE  StalenessInvariant'
  <2>1. StalenessTypeOK' /\ EntriesExpireInTime' /\ UNCHANGED <<mono, publishedAt>>
    BY <1>4, PacedDrops, DroppingEntries DEF Miss
  <2>2. lookup' = [lookup EXCEPT ![l] = Queued(p)]
    BY <1>4 DEF Miss
  <2>3. Stage(Queued(p)) /\ Queued(p).at = "queued"
    BY DEF Stage, Queued
  <2> QED
    BY <2>1, <2>2, <2>3, LookupMovesOutsideExchange
<1>5. ASSUME NEW l \in Lookup, StartFetch(l)
      PROVE  StalenessInvariant'
  <2>1. /\ UNCHANGED <<mono, publishedAt, cache>> /\ lookup[l].at = "queued"
        /\ lookup' = [lookup EXCEPT ![l] = Fetching(@.path, mono)]
        /\ mono \in Nat /\ FetchDeadline \in Nat
    BY <1>5, DiscoveryCacheAssumption DEF StartFetch, cacheVars, StalenessTypeOK
  <2>2. lookup[l].path \in Path
    BY <2>1 DEF LookupTypeOK, Stage, Idle, Queued, Fetching, Answered
  <2>3. /\ DOMAIN lookup' = Lookup
        /\ lookup'[l] = Fetching(lookup[l].path, mono)
        /\ \A m \in Lookup : m # l => lookup'[m] = lookup[m]
        /\ Stage(lookup'[l])
    BY <2>1, <2>2 DEF LookupTypeOK, Stage
  <2>4. lookup'[l].at = "fetching" /\ lookup'[l].startedAt = mono
    BY <2>3 DEF Fetching
  <2>5. StalenessTypeOK' /\ EntriesExpireInTime'
    BY <2>1 DEF StalenessTypeOK, EntriesExpireInTime
  <2> QED
    BY <2>1, <2>3, <2>4, <2>5
       DEF LookupTypeOK, ExchangesWithinDeadline, InExchange, AnswersCurrentSinceStart
<1>6. ASSUME NEW l \in Lookup, ServiceAnswers(l)
      PROVE  StalenessInvariant'
  <2>1. /\ UNCHANGED <<mono, publishedAt, cache>> /\ lookup[l].at = "fetching"
        /\ lookup' = [lookup EXCEPT ![l] =
                        Answered(@.path, @.startedAt, Len(publishedAt[@.path]))]
    BY <1>6 DEF ServiceAnswers, cacheVars
  <2>2. lookup[l].path \in Path /\ lookup[l].startedAt \in Nat
    BY <2>1 DEF LookupTypeOK, Stage, Idle, Queued, Fetching, Answered
  <2>3. Len(publishedAt[lookup[l].path]) \in 0 .. MaxVersion
    BY <2>2, DiscoveryCacheAssumption DEF StalenessTypeOK
  <2>4. /\ DOMAIN lookup' = Lookup
        /\ lookup'[l] = Answered(lookup[l].path, lookup[l].startedAt,
                                  Len(publishedAt[lookup[l].path]))
        /\ \A m \in Lookup : m # l => lookup'[m] = lookup[m]
        /\ Stage(lookup'[l])
    BY <2>1, <2>2, <2>3 DEF LookupTypeOK, Stage
  <2>5. /\ lookup'[l].startedAt = lookup[l].startedAt
        /\ lookup'[l].path = lookup[l].path
        /\ lookup'[l].answer = Len(publishedAt[lookup[l].path])
    BY <2>4 DEF Answered
  <2>6. StalenessTypeOK' /\ EntriesExpireInTime' /\ LookupTypeOK'
    BY <2>1, <2>4 DEF StalenessTypeOK, EntriesExpireInTime, LookupTypeOK
  <2>7. ExchangesWithinDeadline'
    BY <2>1, <2>4, <2>5 DEF ExchangesWithinDeadline, InExchange
  <2>8. AnswersCurrentSinceStart'
    <3>1. \A v \in lookup'[l].answer + 1 .. Len(publishedAt'[lookup'[l].path]) : FALSE
      BY <2>1, <2>3, <2>5
    <3> QED
      BY <3>1, <2>1, <2>4 DEF AnswersCurrentSinceStart
  <2> QED
    BY <2>6, <2>7, <2>8
<1>7. ASSUME NEW l \in Lookup, Complete(l)
      PROVE  StalenessInvariant'
  BY <1>7, CompleteKeepsStaleness
<1>8. ASSUME NEW l \in Lookup, Fail(l)
      PROVE  StalenessInvariant'
  <2>1. UNCHANGED <<mono, publishedAt, cache>> /\ lookup' = [lookup EXCEPT ![l] = Idle]
    BY <1>8 DEF Fail, cacheVars
  <2>2. StalenessTypeOK' /\ EntriesExpireInTime'
    BY <2>1 DEF StalenessTypeOK, EntriesExpireInTime
  <2> QED
    BY <2>1, <2>2, LookupGoesIdle
<1>9. CASE UNCHANGED vars
  BY <1>9 DEF vars, cacheVars, StalenessTypeOK, LookupTypeOK, ExchangesWithinDeadline,
              InExchange, AnswersCurrentSinceStart, EntriesExpireInTime
<1> QED
  BY <1>1, <1>2, <1>3, <1>4, <1>5, <1>6, <1>7, <1>8, <1>9 DEF Next

(* Every step of the cache is a step of the abstract view, or stutters. *)
LEMMA CacheStepIsViewStep ==
  ASSUME StalenessInvariant, [Next]_vars
  PROVE  [View!Next]_(View!viewVars)
<1> USE DEF View!NoResult, NoResult
<1>1. CASE Tick
  <2>1. View!Tick
    BY <1>1 DEF Tick, View!Tick
  <2> QED
    BY <2>1 DEF View!Next
<1>2. ASSUME NEW p \in Path, Publish(p)
      PROVE  View!Next
  <2>1. View!Publish(p)
    BY <1>2 DEF Publish, View!Publish
  <2> QED
    BY <2>1 DEF View!Next
<1>3. ASSUME NEW p \in Path, Hit(p)
      PROVE  View!Next
  <2> DEFINE v == cache[p].value
  <2>1. /\ p \in DOMAIN cache /\ cache[p].expires > mono
        /\ v \in 0 .. MaxVersion /\ cache[p].expires \in Nat /\ mono \in Nat
        /\ \A w \in v + 1 .. Len(publishedAt[p]) :
              cache[p].expires <= publishedAt[p][w] + (Ttl + FetchDeadline)
        /\ publishedAt[p] \in Seq(Nat) /\ Ttl \in Nat /\ FetchDeadline \in Nat
    BY <1>3, DiscoveryCacheAssumption
       DEF Hit, Live, StalenessInvariant, StalenessTypeOK, EntriesExpireInTime
  <2>2. /\ result' = [path |-> p, value |-> v]
        /\ UNCHANGED <<mono, publishedAt>>
    BY <1>3 DEF Hit
  <2> HIDE DEF v
  <2>3. \A w \in v + 1 .. Len(publishedAt[p]) :
            mono <= publishedAt[p][w] + (Ttl + FetchDeadline)
    <3> TAKE w \in v + 1 .. Len(publishedAt[p])
    <3>1. publishedAt[p] \in Seq(Nat) /\ v \in Nat
      BY <2>1
    <3>2. publishedAt[p][w] \in Nat
      BY <3>1, ElementAfter
    <3> QED
      BY <3>2, <2>1
  <2>4. View!Read(p, v)
    BY <2>2, <2>3 DEF View!Read
  <2> QED
    BY <2>1, <2>4 DEF View!Next
<1>4. ASSUME NEW l \in Lookup, Complete(l)
      PROVE  View!Next
  <2> DEFINE p == lookup[l].path
             v == lookup[l].answer
  <2>1. /\ lookup[l].at = "answered"
        /\ result' = [path |-> p, value |-> v]
        /\ UNCHANGED <<mono, publishedAt>>
    BY <1>4 DEF Complete
  <2>2. /\ p \in Path /\ v \in 0 .. MaxVersion /\ lookup[l].startedAt \in Nat
        /\ mono <= lookup[l].startedAt + FetchDeadline
    BY <2>1 DEF StalenessInvariant, LookupTypeOK, Stage, Idle, Queued, Fetching, Answered,
                ExchangesWithinDeadline, InExchange
  <2>3. \A w \in v + 1 .. Len(publishedAt[p]) : lookup[l].startedAt <= publishedAt[p][w]
    BY <2>1 DEF StalenessInvariant, AnswersCurrentSinceStart
  <2>4. publishedAt[p] \in Seq(Nat) /\ Ttl \in Nat /\ FetchDeadline \in Nat /\ mono \in Nat
    BY <2>2, DiscoveryCacheAssumption DEF StalenessInvariant, StalenessTypeOK
  <2> HIDE DEF p, v
  <2>5. \A w \in v + 1 .. Len(publishedAt[p]) :
            mono <= publishedAt[p][w] + (Ttl + FetchDeadline)
    <3> TAKE w \in v + 1 .. Len(publishedAt[p])
    <3>1. publishedAt[p][w] \in Nat
      <4>1. v \in Nat
        BY <2>2
      <4> QED
        BY <4>1, <2>4, ElementAfter
    <3>2. lookup[l].startedAt <= publishedAt[p][w]
      BY <2>3
    <3> QED
      BY <3>1, <3>2, <2>2, <2>4
  <2>6. View!Read(p, v)
    BY <2>1, <2>5 DEF View!Read
  <2> QED
    BY <2>2, <2>6 DEF View!Next
<1>5. ASSUME NEW l \in Lookup,
             \/ \E p \in Path : Miss(l, p)
             \/ StartFetch(l)
             \/ ServiceAnswers(l)
             \/ Fail(l)
      PROVE  View!Next
  <2>1. View!Consume
    BY <1>5 DEF Miss, StartFetch, ServiceAnswers, Fail, View!Consume
  <2> QED
    BY <2>1 DEF View!Next
<1>6. CASE UNCHANGED vars
  BY <1>6 DEF vars, View!viewVars
<1> QED
  BY <1>1, <1>2, <1>3, <1>4, <1>5, <1>6 DEF Next

-------------------------------------------------------------------------------
(* getJson never returns something older than its contract allows: every     *)
(* behaviour of the cache, with its overlapping fetches, its late stores and *)
(* its evictions, is a behaviour of BoundedStaleness with the bound          *)
(* Ttl + FetchDeadline.                                                      *)
THEOREM CacheImplementsBoundedStaleness == Spec => ImplementsBoundedStaleness
<1>1. Init => View!Init
  BY DEF Init, View!Init, NoResult, View!NoResult
<1>2. StalenessInvariant /\ [Next]_vars => StalenessInvariant'
  BY StalenessInvariantIsInductive
<1>3. StalenessInvariant /\ [Next]_vars => [View!Next]_(View!viewVars)
  BY CacheStepIsViewStep
<1> QED
  BY <1>1, <1>2, <1>3, InitEstablishesStaleness, PTL
     DEF Spec, ImplementsBoundedStaleness, View!Spec

-------------------------------------------------------------------------------
(* The Map in order: its iteration order is total, entries that come first     *)
(* expire first, and there are no more of them than the ceiling.               *)
OrderIsTotal ==
    /\ older \subseteq (DOMAIN cache) \X (DOMAIN cache)
    /\ \A p \in DOMAIN cache : <<p, p>> \notin older
    /\ \A p, q \in DOMAIN cache : p # q => (<<p, q>> \in older \/ <<q, p>> \in older)
    /\ \A p, q \in DOMAIN cache : <<p, q>> \in older => <<q, p>> \notin older
    /\ \A p, q, r \in DOMAIN cache : <<p, q>> \in older /\ <<q, r>> \in older => <<p, r>> \in older

FirstExpiresFirst ==
    \A p, q \in DOMAIN cache : <<p, q>> \in older => cache[p].expires <= cache[q].expires

WithinCeiling == Cardinality(DOMAIN cache) <= MaxCacheEntries

EvictionInvariant == StalenessInvariant /\ OrderIsTotal /\ FirstExpiresFirst /\ WithinCeiling

LEMMA CacheIsFinite ==
  ASSUME StalenessInvariant
  PROVE  /\ IsFiniteSet(DOMAIN cache) /\ Cardinality(DOMAIN cache) \in Nat
         /\ MaxCacheEntries \in Nat \ {0} /\ Ttl \in Nat /\ mono \in Nat
<1>1. DOMAIN cache \subseteq Path /\ IsFiniteSet(Path) /\ mono \in Nat
  BY DiscoveryCacheAssumption DEF StalenessInvariant, StalenessTypeOK
<1>2. IsFiniteSet(DOMAIN cache)
  BY <1>1, FS_Subset
<1> QED
  BY <1>1, <1>2, FS_CardinalityType, DiscoveryCacheAssumption

(* A step that only drops entries leaves the others in order. *)
LEMMA DroppingKeepsOrder ==
  ASSUME EvictionInvariant, NEW paths, paths \subseteq DOMAIN cache, Keep(paths)
  PROVE  OrderIsTotal' /\ FirstExpiresFirst' /\ WithinCeiling'
<1>1. /\ DOMAIN cache' = paths
      /\ \A p \in paths : cache'[p] = cache[p]
      /\ older' = older \cap (paths \X paths)
  BY DEF Keep, Restrict
<1>2. OrderIsTotal /\ FirstExpiresFirst
  BY DEF EvictionInvariant
<1>3. OrderIsTotal'
  BY <1>1, <1>2 DEF OrderIsTotal
<1>4. FirstExpiresFirst'
  BY <1>1, <1>2 DEF FirstExpiresFirst
<1>5. Cardinality(paths) <= Cardinality(DOMAIN cache) /\ Cardinality(paths) \in Nat
  BY CacheIsFinite, FS_Subset, FS_CardinalityType DEF EvictionInvariant
<1>6. WithinCeiling'
  BY <1>1, <1>5, CacheIsFinite DEF EvictionInvariant, WithinCeiling
<1> QED
  BY <1>3, <1>4, <1>6

(* A Map that is not empty has a first entry. *)
LEMMA FirstExists ==
  ASSUME OrderIsTotal, IsFiniteSet(DOMAIN cache), DOMAIN cache # {}
  PROVE  \E p \in DOMAIN cache : After(p) = DOMAIN cache \ {p}
<1> DEFINE Before(p) == {q \in DOMAIN cache : <<q, p>> \in older}
           Ranks == {Cardinality(Before(p)) : p \in DOMAIN cache}
<1>1. \A p \in DOMAIN cache : IsFiniteSet(Before(p)) /\ Cardinality(Before(p)) \in Nat
  <2> SUFFICES ASSUME NEW p \in DOMAIN cache PROVE IsFiniteSet(Before(p)) /\ Cardinality(Before(p)) \in Nat
    OBVIOUS
  <2>1. Before(p) \in SUBSET DOMAIN cache
    OBVIOUS
  <2>2. IsFiniteSet(Before(p))
    BY <2>1, FS_Subset
  <2> QED
    BY <2>2, FS_CardinalityType
<1>2. Ranks \subseteq Nat /\ Ranks # {}
  BY <1>1
<1>3. PICK k \in Ranks : \A j \in Ranks : ~(<<j, k>> \in OpToRel(<, Nat))
  BY <1>2, WFMin, NatLessThanWellFounded
<1>4. \A j \in Ranks : ~(j < k)
  BY <1>2, <1>3 DEF OpToRel
<1>5. PICK p \in DOMAIN cache : k = Cardinality(Before(p))
  OBVIOUS
<1>6. Before(p) = {}
  <2> SUFFICES ASSUME NEW q \in Before(p) PROVE FALSE
    OBVIOUS
  <2>1. q \in DOMAIN cache /\ <<q, p>> \in older
    OBVIOUS
  <2>2. Before(q) \subseteq Before(p)
    BY <2>1 DEF OrderIsTotal
  <2>3. q \notin Before(q)
    BY <2>1 DEF OrderIsTotal
  <2> HIDE DEF Before
  <2>4. Cardinality(Before(q)) <= Cardinality(Before(p)) /\ Cardinality(Before(q)) # Cardinality(Before(p))
    BY <1>1, <2>2, <2>3, FS_Subset
  <2>5. Cardinality(Before(q)) \in Ranks /\ Cardinality(Before(q)) \in Nat /\ k \in Nat
    BY <1>1, <1>2, <2>1
  <2> QED
    BY <1>4, <1>5, <2>4, <2>5
<1>7. \A q \in DOMAIN cache : <<q, p>> \notin older
  BY <1>6
<1>8. After(p) = DOMAIN cache \ {p}
  BY <1>7 DEF After, OrderIsTotal
<1> QED
  BY <1>8

(* What admit keeps: everything when there is room; every live entry when an   *)
(* expired one was in front; and otherwise, of a Map full of live entries, all *)
(* but the first.                                                              *)
LEMMA AdmittedFacts ==
  ASSUME EvictionInvariant
  PROVE  /\ Admitted \subseteq DOMAIN cache
         /\ Cardinality(Admitted) < MaxCacheEntries
         /\ \/ LivePaths \subseteq Admitted
            \/ /\ LivePaths = DOMAIN cache
               /\ Cardinality(DOMAIN cache) = MaxCacheEntries
               /\ \E p \in DOMAIN cache : LivePaths \ Admitted = {p}
<1>1. /\ IsFiniteSet(DOMAIN cache) /\ Cardinality(DOMAIN cache) \in Nat
      /\ MaxCacheEntries \in Nat \ {0} /\ mono \in Nat
      /\ OrderIsTotal /\ FirstExpiresFirst
      /\ Cardinality(DOMAIN cache) <= MaxCacheEntries
  BY CacheIsFinite DEF EvictionInvariant, WithinCeiling
<1>2. LivePaths \subseteq DOMAIN cache
  BY DEF LivePaths
<1>3. CASE ~Full(DOMAIN cache)
  <2>1. Admitted = DOMAIN cache
    BY <1>3 DEF Admitted, AdmitSweeps
  <2> QED
    BY <1>1, <1>2, <1>3, <2>1 DEF Full
<1>4. CASE Full(DOMAIN cache) /\ SweepCouldFree
  <2>1. PICK p \in DOMAIN cache : ~Live(p)
    BY <1>4 DEF SweepCouldFree
  <2>2. p \notin LivePaths
    BY <2>1 DEF LivePaths
  <2>3. Cardinality(LivePaths) <= Cardinality(DOMAIN cache) /\ Cardinality(LivePaths) # Cardinality(DOMAIN cache)
    BY <1>1, <1>2, <2>2, FS_Subset
  <2>4. Cardinality(LivePaths) \in Nat
    BY <1>1, <1>2, FS_Subset, FS_CardinalityType
  <2>5. Cardinality(LivePaths) < MaxCacheEntries
    BY <1>1, <2>3, <2>4
  <2>6. Admitted = LivePaths
    BY <1>1, <1>4, <2>4, <2>5 DEF Admitted, AdmitSweeps, Full
  <2> QED
    BY <1>2, <2>5, <2>6
<1>5. CASE Full(DOMAIN cache) /\ ~SweepCouldFree
  <2>1. Admitted = {p \in DOMAIN cache : Cardinality(After(p)) < MaxCacheEntries - 1}
    <3>1. \A p : After(p) \cap DOMAIN cache = After(p)
      BY DEF After
    <3> QED
      BY <1>5, <3>1 DEF Admitted, AdmitSweeps
  <2>2. Cardinality(DOMAIN cache) = MaxCacheEntries
    BY <1>1, <1>5 DEF Full
  <2>3. DOMAIN cache # {}
    BY <1>1, <2>2, FS_EmptySet
  <2>4. PICK first \in DOMAIN cache : After(first) = DOMAIN cache \ {first}
    BY <1>1, <2>3, FirstExists
  <2>5. Live(first)
    BY <1>5, <2>4 DEF SweepCouldFree
  <2>6. LivePaths = DOMAIN cache
    <3> SUFFICES ASSUME NEW p \in DOMAIN cache, p # first PROVE cache[p].expires > mono
      BY <2>5 DEF LivePaths, Live
    <3>1. cache[first].expires <= cache[p].expires
      BY <1>1, <2>4 DEF FirstExpiresFirst, After
    <3>2. cache[first].expires \in Nat /\ cache[p].expires \in Nat
      BY DEF EvictionInvariant, StalenessInvariant, StalenessTypeOK
    <3> QED
      BY <1>1, <2>5, <3>1, <3>2 DEF Live
  <2>7. Cardinality(DOMAIN cache \ {first}) = MaxCacheEntries - 1
    BY <1>1, <2>2, <2>4, FS_RemoveElement
  <2>8. first \notin Admitted
    BY <1>1, <2>1, <2>4, <2>7
  <2>9. ASSUME NEW p \in DOMAIN cache, p # first
        PROVE  p \in Admitted
    <3>1. After(p) \subseteq DOMAIN cache \ {first}
      BY <1>1, <2>4, <2>9 DEF After, OrderIsTotal
    <3>2. p \notin After(p)
      BY <1>1 DEF After, OrderIsTotal
    <3>3. /\ IsFiniteSet(DOMAIN cache \ {first})
          /\ IsFiniteSet(After(p))
          /\ Cardinality(After(p)) <= Cardinality(DOMAIN cache \ {first})
          /\ Cardinality(After(p)) # Cardinality(DOMAIN cache \ {first})
      BY <1>1, <2>9, <3>1, <3>2, FS_RemoveElement, FS_Subset
    <3>4. Cardinality(After(p)) \in Nat
      BY <3>3, FS_CardinalityType
    <3>5. Cardinality(After(p)) < MaxCacheEntries - 1
      BY <1>1, <2>7, <3>3, <3>4
    <3> QED
      BY <2>1, <3>5
  <2>10. Admitted = DOMAIN cache \ {first}
    BY <2>1, <2>8, <2>9
  <2>11. LivePaths \ Admitted = {first}
    BY <2>4, <2>6, <2>10
  <2> QED
    BY <1>1, <2>2, <2>6, <2>7, <2>10, <2>11
<1> QED
  BY <1>3, <1>4, <1>5

(* The new entry goes to the back and expires no sooner than any before it.    *)
LEMMA StoringKeepsOrder ==
  ASSUME EvictionInvariant, NEW paths, paths \subseteq DOMAIN cache,
         Cardinality(paths) < MaxCacheEntries,
         NEW p \in Path, NEW v, KeepAndStore(paths, p, v)
  PROVE  OrderIsTotal' /\ FirstExpiresFirst' /\ WithinCeiling'
<1> DEFINE rest == paths \ {p}
<1>1. /\ DOMAIN cache' = rest \cup {p}
      /\ cache'[p].expires = mono + Ttl
      /\ \A q \in rest : cache'[q] = cache[q]
      /\ older' = (older \cap (rest \X rest)) \cup (rest \X {p})
  BY DEF KeepAndStore
<1>2. OrderIsTotal /\ FirstExpiresFirst
  BY DEF EvictionInvariant
<1>3. rest \subseteq DOMAIN cache /\ p \notin rest
  OBVIOUS
<1>4. IsFiniteSet(paths) /\ Cardinality(paths) \in Nat /\ MaxCacheEntries \in Nat
  BY CacheIsFinite, FS_Subset, FS_CardinalityType DEF EvictionInvariant
<1>5. IsFiniteSet(rest) /\ Cardinality(rest) <= Cardinality(paths) /\ Cardinality(rest) \in Nat
  BY <1>4, FS_Subset, FS_CardinalityType
<1> HIDE DEF rest
<1>6. OrderIsTotal'
  BY <1>1, <1>2, <1>3 DEF OrderIsTotal
<1>7. FirstExpiresFirst'
  <2>1. \A q \in rest : cache[q].expires <= mono + Ttl
    BY <1>3 DEF EvictionInvariant, StalenessInvariant, EntriesExpireInTime
  <2> QED
    BY <1>1, <1>2, <1>3, <2>1 DEF FirstExpiresFirst
<1>8. Cardinality(rest \cup {p}) = Cardinality(rest) + 1
  BY <1>3, <1>5, FS_AddElement
<1>9. WithinCeiling'
  BY <1>1, <1>4, <1>5, <1>8 DEF WithinCeiling
<1> QED
  BY <1>6, <1>7, <1>9

(* The inductive step, one case per action that touches the Map. *)
LEMMA EvictionInvariantIsInductive ==
  ASSUME EvictionInvariant, [Next]_vars
  PROVE  EvictionInvariant'
<1>1. StalenessInvariant'
  BY StalenessInvariantIsInductive DEF EvictionInvariant
<1>2. ASSUME NEW p \in Path, Hit(p)
      PROVE  OrderIsTotal' /\ FirstExpiresFirst' /\ WithinCeiling'
  BY <1>2, PacedDrops, DroppingKeepsOrder DEF Hit
<1>3. ASSUME NEW l \in Lookup, NEW p \in Path, Miss(l, p)
      PROVE  OrderIsTotal' /\ FirstExpiresFirst' /\ WithinCeiling'
  BY <1>3, PacedDrops, DroppingKeepsOrder DEF Miss
<1>4. ASSUME NEW l \in Lookup, Complete(l)
      PROVE  OrderIsTotal' /\ FirstExpiresFirst' /\ WithinCeiling'
  <2>1. lookup[l].path \in Path
    BY <1>4 DEF Complete, EvictionInvariant, StalenessInvariant, LookupTypeOK, Stage,
                Idle, Queued, Fetching, Answered
  <2>2. KeepAndStore(Admitted, lookup[l].path, lookup[l].answer)
    BY <1>4 DEF Complete
  <2>3. Admitted \subseteq DOMAIN cache /\ Cardinality(Admitted) < MaxCacheEntries
    BY AdmittedFacts
  <2> QED
    BY <2>1, <2>2, <2>3, StoringKeepsOrder
<1>5. CASE UNCHANGED cacheVars
  BY <1>1, <1>5 DEF cacheVars, EvictionInvariant, OrderIsTotal, FirstExpiresFirst, WithinCeiling
<1>6. \/ UNCHANGED cacheVars
      \/ \E p \in Path : Hit(p)
      \/ \E l \in Lookup, p \in Path : Miss(l, p)
      \/ \E l \in Lookup : Complete(l)
  BY DEF Next, Tick, Publish, StartFetch, ServiceAnswers, Fail, vars
<1> QED
  BY <1>1, <1>2, <1>3, <1>4, <1>5, <1>6 DEF EvictionInvariant

(* No flood of lookups costs the cache a live entry while there is room, or    *)
(* while an expired one could go instead; and a store that must evict evicts   *)
(* one entry.                                                                  *)
THEOREM LiveEvictedUnderPressureOnly == Spec => LiveEvictedOnlyUnderPressure
<1>1. Init => EvictionInvariant
  <2> SUFFICES ASSUME Init PROVE EvictionInvariant
    OBVIOUS
  <2>1. DOMAIN cache = {} /\ older = {}
    BY DEF Init
  <2>2. WithinCeiling
    BY <2>1, FS_EmptySet, DiscoveryCacheAssumption DEF WithinCeiling
  <2> QED
    BY <2>1, <2>2, InitEstablishesStaleness DEF EvictionInvariant, OrderIsTotal, FirstExpiresFirst
<1>2. EvictionInvariant /\ [Next]_vars => EvictionInvariant'
  BY EvictionInvariantIsInductive
<1>3. EvictionInvariant /\ [Next]_vars
      => [LET lost == LivePaths \ DOMAIN cache'
          IN  lost # {} =>
                /\ Cardinality(lost) = 1
                /\ Cardinality(LivePaths) = MaxCacheEntries
                /\ LivePaths = DOMAIN cache]_vars
  <2> SUFFICES ASSUME EvictionInvariant, Next, LivePaths \ DOMAIN cache' # {}
               PROVE  /\ Cardinality(LivePaths \ DOMAIN cache') = 1
                      /\ Cardinality(LivePaths) = MaxCacheEntries
                      /\ LivePaths = DOMAIN cache
    OBVIOUS
  <2>1. LivePaths \subseteq DOMAIN cache /\ \A p \in LivePaths : Live(p)
    BY DEF LivePaths
  <2>2. cache' # cache
    BY <2>1
  <2>3. ASSUME NEW p \in Path, Hit(p) PROVE FALSE
    <3>1. DOMAIN cache' = Paced /\ LivePaths \subseteq Paced
      BY <2>1, <2>3 DEF Hit, Keep, Restrict, Paced
    <3> QED
      BY <3>1
  <2>4. ASSUME NEW l \in Lookup, NEW p \in Path, Miss(l, p) PROVE FALSE
    <3>1. DOMAIN cache' = Paced \ {p} /\ LivePaths \subseteq Paced /\ ~Live(p)
      BY <2>1, <2>4 DEF Miss, Keep, Restrict, Paced
    <3> QED
      BY <2>1, <3>1
  <2>5. PICK l \in Lookup : Complete(l)
    BY <2>2, <2>3, <2>4 DEF Next, Tick, Publish, StartFetch, ServiceAnswers, Fail, cacheVars
  <2>6. Admitted \subseteq DOMAIN cache'
    BY <2>5 DEF Complete, KeepAndStore
  <2>7. PICK p \in DOMAIN cache : /\ LivePaths = DOMAIN cache
                                  /\ Cardinality(DOMAIN cache) = MaxCacheEntries
                                  /\ LivePaths \ Admitted = {p}
    BY <2>6, AdmittedFacts
  <2>8. LivePaths \ DOMAIN cache' = {p}
    BY <2>6, <2>7
  <2> QED
    BY <2>7, <2>8, FS_Singleton
<1> QED
  BY <1>1, <1>2, <1>3, PTL DEF Spec, LiveEvictedOnlyUnderPressure
===============================================================================
