------------------------------ MODULE MCServer ------------------------------
(* Model checking Server: one tenant with room for one connection, one with
   room for two. *)
EXTENDS Server

CONSTANTS t1, t2

MCTenants == {t1, t2}
MCCeiling == [t \in MCTenants |-> IF t = t1 THEN 1 ELSE 2]
=============================================================================
