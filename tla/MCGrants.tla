------------------------------ MODULE MCGrants ------------------------------
(* Grants on a small instance: which constants are interchangeable. *)
EXTENDS Grants, TLC

Symmetry == Permutations(Slot)
=============================================================================
