----------------------------- MODULE MCWebhooks -----------------------------
(***************************************************************************)
(* Small instances of Webhooks.  posted is bounded only where runs overlap *)
(* or die, because then an event can be POSTed without end: MaxPosts.      *)
(***************************************************************************)
EXTENDS Webhooks, TLC

CONSTANT MaxPosts

FewPosts == \A d \in Deliveries : posted[d] <= MaxPosts

Symmetry == Permutations(Workers)
=============================================================================
