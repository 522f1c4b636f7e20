--------------------------- MODULE MCRecordIssuing ---------------------------
(* States of one to three keys with every threshold they can have; logs one    *)
(* event longer than a verifier takes; seven key pairs.                        *)
EXTENDS RecordIssuing

MCShapes == {<<n, t>> : n \in 1 .. 3, t \in 1 .. 3}
===============================================================================
