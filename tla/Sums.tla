-------------------------------- MODULE Sums --------------------------------
(***************************************************************************)
(* Sums over sets.  A sum of naturals is the number of its units, which     *)
(* needs no recursion and can be reasoned about with the cardinality of     *)
(* sets: the b-th unit that x contributes is the pair <<x, b>>.             *)
(***************************************************************************)
EXTENDS Integers, FiniteSets

Units(amount, S) == UNION {{x} \X (1..amount[x]) : x \in S}

SumOf(amount, S) == Cardinality(Units(amount, S))
=============================================================================
