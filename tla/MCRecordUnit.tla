----------------------------- MODULE MCRecordUnit -----------------------------
(* The issuing principal has states of one or two keys, with thresholds      *)
(* that ask for all of them or not; logs one event longer than a verifier      *)
(* takes.  A call affords everything, or it runs out at every place where it   *)
(* can: at the leaf's signature under a log of one event (an owner's record is *)
(* still accepted), at the anchor under two events, in the replay of three.    *)
EXTENDS RecordUnit

MCShapes == {<<1, 1>>, <<2, 1>>, <<2, 2>>}
===============================================================================
