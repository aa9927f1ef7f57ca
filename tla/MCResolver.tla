----------------------------- MODULE MCResolver -----------------------------
(* ResolverHistory with interchangeable request goroutines. *)
EXTENDS ResolverHistory, TLC

Symmetry == Permutations(Requests)
=============================================================================
