------------------------ MODULE MCSubscriptionLedger ------------------------
(* SubscriptionLedger on a small instance. *)
EXTENDS SubscriptionLedger, TLC

Symmetry == Permutations(Account) \cup Permutations(Recorder)
              \cup Permutations(Renewer) \cup Permutations(Reader)
=============================================================================
