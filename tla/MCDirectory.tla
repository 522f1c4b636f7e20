------------------------------ MODULE MCDirectory ------------------------------
(* Three events at most.  Before a directory that only answers: 1-of-1,        *)
(* 1-of-2 and 2-of-2 states, requests for states nobody could reveal, and two   *)
(* of the holder's keys in other hands.  Before one that keeps its contract:    *)
(* 1-of-1 states, one restart, and enough records for an edge, its              *)
(* revocation and a self-record.                                               *)
EXTENDS Directory

MCShapes == {<<1, 1>>, <<2, 1>>, <<2, 2>>, <<1, 2>>, <<1, Malformed>>, <<3, 1>>}
MCKeptShapes == {<<1, 1>>}
MCCards == {BuildAgentCard(TRUE), BuildAgentCard(FALSE), <<"other", "malformed">>,
            <<"malformed", "agent_for_org", "agent">>}
===============================================================================
