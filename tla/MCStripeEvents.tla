---------------------------- MODULE MCStripeEvents ----------------------------
(* Instances of StripeEvents. *)
EXTENDS StripeEvents, TLC

Symmetry == Permutations(Handlers) \cup Permutations(Subs) \cup Permutations(Plans)

===============================================================================
