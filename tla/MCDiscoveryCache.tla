--------------------------- MODULE MCDiscoveryCache ---------------------------
(* Two lookups at once over three paths and a ceiling of two entries, so that *)
(* overlapping lookups replace, expire and evict; two versions, and time for  *)
(* an answer fetched late to be served until the end of its life.             *)
EXTENDS DiscoveryCache, TLC

CONSTANTS p1, p2, p3, l1, l2

MCPath == {p1, p2, p3}
MCLookup == {l1, l2}
PathSymmetry == Permutations(MCPath) \cup Permutations(MCLookup)
===============================================================================
