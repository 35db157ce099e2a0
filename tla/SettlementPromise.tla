------------------------- MODULE SettlementPromise -------------------------
(***************************************************************************)
(* What the payment lane promises, with no ledger, no handler and no       *)
(* retry: a transfer is mined once, and one that reaches the price buys    *)
(* one credit - or, when Copies requests can present it at the same        *)
(* moment, at most Copies.                                                 *)
(***************************************************************************)
EXTENDS Naturals

CONSTANTS Hash, PayPrice, Copies

VARIABLES mined,  \* hash -> amount moved to the treasury, 0 before
          spent   \* hash -> credits given for it

promiseVars == <<mined, spent>>

PromiseInit == mined = [h \in Hash |-> 0] /\ spent = [h \in Hash |-> 0]

Pay(h) ==
  /\ mined[h] = 0
  /\ mined' = [mined EXCEPT ![h] = mined'[h]]
  /\ UNCHANGED spent

Redeem(h) ==
  /\ spent[h] < Copies
  /\ mined[h] >= PayPrice
  /\ spent' = [spent EXCEPT ![h] = @ + 1]
  /\ UNCHANGED mined

PromiseNext == \E h \in Hash : Pay(h) \/ Redeem(h)

PromiseSpec == PromiseInit /\ [][PromiseNext]_promiseVars
=============================================================================
