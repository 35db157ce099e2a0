------------------------------ MODULE MCSignIn ------------------------------
(* SignIn on a small instance: one credential, whose derived home is a1. *)
EXTENDS SignIn, TLC

CONSTANTS a1

MCHomeOf == [c \in Credential |-> a1]
\* tickets of different stores do not meet
MCWorlds == {{"state", "nonce"}, {"grant"}, Marked, {"token"}}

Symmetry == Permutations(Slot)
=============================================================================
