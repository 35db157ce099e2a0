--------------------------- MODULE MCVaultRecords ---------------------------
(* VaultRecords on a small instance: which constants are interchangeable. *)
EXTENDS VaultRecords, TLC

Symmetry == Permutations(Slot)
=============================================================================
