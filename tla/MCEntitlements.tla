---------------------------- MODULE MCEntitlements ----------------------------
(* Entitlements on a small instance: which constants are interchangeable. *)
EXTENDS Entitlements, TLC

Symmetry == Permutations(Slot)
=============================================================================
