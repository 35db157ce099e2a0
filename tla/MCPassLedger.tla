--------------------------- MODULE MCPassLedger ---------------------------
(* PassLedger on a small instance: which constants are interchangeable. *)
EXTENDS PassLedger, TLC

Symmetry == Permutations(Account) \cup Permutations(Reader)
=============================================================================
