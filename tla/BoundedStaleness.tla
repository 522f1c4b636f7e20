--------------------------- MODULE BoundedStaleness ---------------------------
(***************************************************************************)
(* What a cached view of published records promises, with no cache, no     *)
(* fetch and no eviction: a read of a path may return any version that was *)
(* published, as long as nothing newer has been there for more than Bound. *)
(***************************************************************************)
EXTENDS Naturals, Sequences

CONSTANTS Path, Bound, MaxVersion, MaxTime

VARIABLES
    mono,          \* the clock
    publishedAt,   \* path -> the instants its versions were published at
    result         \* the last read: [path, value], or NoResult

viewVars == <<mono, publishedAt, result>>

NoResult == << >>

Init ==
    /\ mono = 0
    /\ publishedAt = [p \in Path |-> << >>]
    /\ result = NoResult

Publish(p) ==
    /\ Len(publishedAt[p]) < MaxVersion
    /\ publishedAt' = [publishedAt EXCEPT ![p] = Append(@, mono)]
    /\ result' = NoResult
    /\ UNCHANGED mono

Tick ==
    /\ mono < MaxTime
    /\ mono' = mono + 1
    /\ result' = NoResult
    /\ UNCHANGED publishedAt

(* Version 0 is the absence of the record: it ages like any other. *)
Read(p, v) ==
    /\ \A w \in v + 1 .. Len(publishedAt[p]) : mono <= publishedAt[p][w] + Bound
    /\ result' = [path |-> p, value |-> v]
    /\ UNCHANGED <<mono, publishedAt>>

(* The reader is done with what it read. *)
Consume ==
    /\ result' = NoResult
    /\ UNCHANGED <<mono, publishedAt>>

Next ==
    \/ Tick
    \/ Consume
    \/ \E p \in Path :
          \/ Publish(p)
          \/ \E v \in 0 .. MaxVersion : Read(p, v)

Spec == Init /\ [][Next]_viewVars
===============================================================================
