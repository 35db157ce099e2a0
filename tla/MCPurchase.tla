----------------------------- MODULE MCPurchase -----------------------------
(* Purchase on a small instance: two tabs, each with its popup.  One person: *)
(* no property tells persons apart, and sessions are known by their runs.  *)
EXTENDS Purchase, TLC

Symmetry == Permutations(Tab) \cup Permutations(Tier)
=============================================================================
