----------------------------- MODULE MCHostQueue -----------------------------
(* Model checking HostQueue; the consumers are interchangeable. *)
EXTENDS HostQueue

Symmetry == Permutations(Consumers)
=============================================================================
