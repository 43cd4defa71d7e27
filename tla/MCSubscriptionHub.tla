-------------------------- MODULE MCSubscriptionHub --------------------------
(* Instances of SubscriptionHub for TLC. *)
EXTENDS SubscriptionHub, TLC

MCSymmetry ==
  Permutations(Conns) \union Permutations(Subs) \union Permutations(Topics)
    \union Permutations(Pumps)
=============================================================================
