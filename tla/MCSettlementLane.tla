-------------------------- MODULE MCSettlementLane --------------------------
(* SettlementLane on a small instance: which constants are interchangeable. *)
EXTENDS SettlementLane, TLC

Symmetry == Permutations(Hash) \cup Permutations(Subject)
              \cup Permutations(Worker)
=============================================================================
