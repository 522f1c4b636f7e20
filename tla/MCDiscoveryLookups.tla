-------------------------- MODULE MCDiscoveryLookups --------------------------
(* One slot, a queue of one and three lookups: waiting and refusal both occur. *)
(* Two lookups ask for key states, of two participants one of whom rotates, in *)
(* a memo of one entry.  Both may spend from one budget, which a rotated log   *)
(* and one more exhaust; one of them may bring none, and then a rotated log is *)
(* past the view's ceiling.  The third asks for revocations in two pieces.     *)
EXTENDS DiscoveryLookups

CONSTANTS l1, l2, l3, a, b, request

MCLookup == {l1, l2, l3}
MCKeyLookup == {l1, l2}
MCParticipant == {a, b}
MCMaxVersion == (a :> 2) @@ (b :> 1)
MCAsksAbout == (l1 :> MCParticipant) @@ (l2 :> {a})
MCBrings == (l1 :> {request}) @@ (l2 :> {request, NoBudget})
MCIssuers == <<a, b>>
MCRevokers == {b}
MCAllowance == (request :> 3)
===============================================================================
