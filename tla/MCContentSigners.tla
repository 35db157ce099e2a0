-------------------------- MODULE MCContentSigners --------------------------
(* ContentSigners on a small instance: the keys of its names, and which *)
(* constants are interchangeable.                                      *)
EXTENDS ContentSigners, TLC

CONSTANT k1
OneKey == [n \in Name |-> k1]
Symmetry == Permutations(Slot) \cup Permutations(Sa)
=============================================================================
