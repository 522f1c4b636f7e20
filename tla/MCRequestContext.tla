--------------------------- MODULE MCRequestContext ---------------------------
(* Three operations of one request: claims of the organization and the agent,  *)
(* and whether the agent represents the organization, asked of three views.    *)
(* The longest call spends what hostA allows it, and outruns hostB; hostC      *)
(* allows a chain of three issuers, and its lookups run out of candidates.     *)
(* Outer allowances: ample, and one that runs out part of the way.             *)
EXTENDS RequestContext, TLC

CONSTANTS o1, o2, o3, hostA, hostB, hostC, org, unit, lead, agent

MCOp == {o1, o2, o3}
MCView == {hostA, hostB, hostC}
MCHonest == {hostA}
MCParticipant == {org, unit, lead, agent}
MCLogLength == [p \in MCParticipant |-> IF p \in {org, agent} THEN 2 ELSE 1]
MCLocalCeiling == [v \in MCView |-> CASE v = hostA -> 7 [] v = hostB -> 3 [] v = hostC -> 16]

Signed(p, sequence) ==
    [issuer |-> p, signedAt |-> sequence, expired |-> FALSE, revokedBy |-> "nobody"]

Statement(view, record) ==
    [kind |-> "statement", view |-> view, agent |-> org, edgeMatches |-> TRUE,
     records |-> <<record>>, chain |-> "fits"]

Representation(view, records) ==
    [kind |-> "represents", view |-> view, agent |-> agent, edgeMatches |-> TRUE,
     records |-> records, chain |-> "fits"]

Current == Signed(org, 2)
Old == Signed(org, 1)
Forged == Signed(org, 0)
Expired(record) == [record EXCEPT !.expired = TRUE]
Revoked(record, p) == [record EXCEPT !.revokedBy = p]

Chained == <<Old, Signed(org, 1)>>
Long == <<Current, Signed(lead, 1), Revoked(Signed(unit, 1), org), Signed(org, 1)>>

Request(a, b, c) == (o1 :> a) @@ (o2 :> b) @@ (o3 :> c)

MCRequests ==
    {Request(Statement(hostA, Current), Statement(hostA, Old), Statement(hostB, Current)),
     Request(Statement(hostA, Revoked(Old, org)), Statement(hostB, Current),
             Representation(hostA, Chained)),
     Request(Representation(hostA, <<Old, Forged>>), Statement(hostB, Revoked(Current, org)),
             Statement(hostA, Expired(Current))),
     Request(Statement(hostA, Forged), Statement(hostB, Current), Representation(hostB, <<Old>>)),
     Request([Representation(hostA, <<Old>>) EXCEPT !.edgeMatches = FALSE],
             Statement(hostB, Current), Representation(hostB, <<Expired(Old), Old>>)),
     Request(Representation(hostC, Long), Statement(hostC, Expired(Old)), Statement(hostA, Expired(Old)))}
    \cup
    {Request([Representation(hostA, <<Current, Revoked(Current, org)>>) EXCEPT !.chain = fit],
             Representation(hostA, <<Current, Expired(Current)>>), Statement(hostA, Expired(Old))) :
        fit \in {"fits", "broken", "misdirected"}}
===============================================================================
