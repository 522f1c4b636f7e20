--------------------------- MODULE MCSignatureWalk ---------------------------
(* Lists of one to four keys with and without a repetition, every threshold   *)
(* text that matters (malformed, zero, up to one more than there are keys), up *)
(* to three members and every relation between members and keys.             *)
EXTENDS AssignmentDiagnosis

CONSTANTS k1, k2, k3, k4

MCKeyLists == {<<k1>>, <<k1, k2>>, <<k1, k2, k3>>, <<k1, k2, k3, k4>>, <<k1, k2, k1>>}
MCTexts == {Malformed, 0, 1, 2, 3, 5}
MCLimits == {0, 2, 8, 16}
===============================================================================
