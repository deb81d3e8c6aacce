--------------------------- MODULE MCGenerations ---------------------------
(* Model checking of Generations on a small registry. *)
EXTENDS Generations, TLC

Symmetric == Permutations(Names) \cup Permutations(Clients)
=============================================================================
