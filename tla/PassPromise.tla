---------------------------- MODULE PassPromise ----------------------------
(***************************************************************************)
(* What a prepaid pass promises, with no table, no worker and no clock: a  *)
(* pass is sold once with a number of reads, and each read delivered on it *)
(* is one of those.     payments.sql:22, "one settlement buys N reads".    *)
(***************************************************************************)
EXTENDS Naturals

CONSTANTS Pass, MaxUses

VARIABLES sold,   \* pass -> reads sold on it, 0 before the sale
          spent   \* pass -> reads delivered on it

promiseVars == <<sold, spent>>

PromiseInit == sold = [i \in Pass |-> 0] /\ spent = [i \in Pass |-> 0]

Sell(i, n) ==
  /\ sold[i] = 0
  /\ sold' = [sold EXCEPT ![i] = n]
  /\ UNCHANGED spent

Spend(i) ==
  /\ spent[i] < sold[i]
  /\ spent' = [spent EXCEPT ![i] = @ + 1]
  /\ UNCHANGED sold

PromiseNext == \E i \in Pass : Spend(i) \/ \E n \in 1..MaxUses : Sell(i, n)

PromiseSpec == PromiseInit /\ [][PromiseNext]_promiseVars
=============================================================================
