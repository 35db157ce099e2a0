------------------------------ MODULE MCHomes ------------------------------
(* Homes on a small instance: which constants are interchangeable. *)
EXTENDS Homes, TLC

Symmetry == Permutations(Tab)
=============================================================================
