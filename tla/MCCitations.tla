----------------------------- MODULE MCCitations -----------------------------
(* Citations on a small instance: the configurations give the constants. *)
EXTENDS Citations

\* one kind of request; ranges also while versions go back
MCSettings == [forward : {TRUE}, ops : {{"resolve"}, {"validate"}}]
              \cup [forward : BOOLEAN, ops : {{"range"}}]
=============================================================================
