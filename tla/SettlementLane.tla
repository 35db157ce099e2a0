--------------------------- MODULE SettlementLane ---------------------------
(***************************************************************************)
(* How the Scripture Agent (apps/demo-bible-a2a) turns an on-chain         *)
(* settlement into access.  Five handlers share one shape: verify the      *)
(* settlement on-chain, ask the MCP whether its hash was seen              *)
(* (check_settlement), record it (record_settlement), then credit it:      *)
(*                                                                         *)
(*   claim    /pay/claim: a prepaid pass, or a subscription                *)
(*   resolve  /resolve-licensed after a 402: a prepaid pass                *)
(*   vault    GET /vault/..., a graph read the reader has no access for: a *)
(*            prepaid pass, and the read goes on                           *)
(*   renew    /pay/subscription/renew: the next period                     *)
(*   collect  /admin/subscriptions/collected: the next period of every     *)
(*            subscriber in a list, each item in a try/catch of its own    *)
(*                                                                         *)
(* The agent and the MCP are separate workers and every call is a step of  *)
(* its own, so requests that present the same settlement interleave, and a *)
(* request may die between two calls.  Of the subscriptions table only the *)
(* id of each reader's latest active row is kept: SubscriptionLedger has   *)
(* the rest.  A hash stands for the text the client presents.              *)
(***************************************************************************)
EXTENDS Naturals, Sequences, FiniteSets

CONSTANTS
  Hash,        \* settlement hashes clients present
  Subject,     \* readers, for one edition
  Worker,      \* slots: how many requests can be in flight at once
  Amount,      \* what a settlement can have moved to the treasury
  PayPrice,    \* PAY_PRICE: the least verifyLbsbPayment accepts
  MaxSubs,     \* bound: subscription rows
  MaxRequests  \* bound: requests ever started

(* LBSB_TIERS *)
TierAmount == [payg5 |-> 1000, payg50 |-> 8000, monthly |-> 50000]
Tier == DOMAIN TierAmount
Payg == Tier \ {"monthly"}
Cheapest == "payg5"

NoHash == "none"
NoTier == "none"

ASSUME LaneConstants ==
  /\ IsFiniteSet(Worker)
  /\ Amount \subseteq Nat \ {0}
  /\ PayPrice \in Nat
  /\ TierAmount[Cheapest] <= PayPrice
  /\ MaxSubs \in Nat /\ MaxRequests \in Nat

VARIABLES
  paid,      \* the chain: hash -> amount moved to the treasury, 0 before it is mined
  rows,      \* payments_settled: hash -> rows recorded
  latest,    \* subscriptions: subject -> id of its latest active row, 0 if none
  holder,    \* subscriptions: row id -> the subject it was inserted for
  req,       \* the requests in flight
  begun,     \* requests started (history: bounds the model)
  credits,   \* hash -> credits given for it (history)
  given      \* what was given for each credit (history)

vars == <<paid, rows, latest, holder, req, begun, credits, given>>

\* One settlement to process: who it is for, and for a collection the row whose
\* mandate was redeemed (0 in the other lanes).
Item == [subject : Subject, hash : Hash, charged : 0..MaxSubs]

Steps == {"lookup", "verify", "check", "record", "credit", "insert", "advance"}
Lane == {"claim", "resolve", "vault", "renew", "collect"}

\* row is the subscription renew_subscription selected, tier what was bought.
Request == [pc : Steps, lane : Lane, item : Item, tier : Tier \cup {NoTier},
            row : 0..MaxSubs, rest : Seq(Item)]
Idle == [pc |-> "idle"]

Credit == [hash : Hash, what : {"pass", "subscription", "period"},
           tier : Tier \cup {NoTier}, asked : Tier \cup {NoTier},
           row : 0..MaxSubs, charged : 0..MaxSubs]

-----------------------------------------------------------------------------
(* Helpers *)

\* The request goes on at pc with the rest of its fields as they are.
GoTo(w, pc) == req' = [req EXCEPT ![w].pc = pc]

\* Mutant: the item taken stays in the list.
EndItemKeepsList(w) ==
  req' = [req EXCEPT ![w] =
            IF req[w].rest = <<>> THEN Idle
            ELSE [req[w] EXCEPT !.pc = "verify", !.item = Head(req[w].rest),
                                !.row = 0]]

\* An item ends, well or not: a collection takes the next one, any other
\* request answers.
EndItem(w) ==
  req' = [req EXCEPT ![w] =
            IF req[w].rest = <<>> THEN Idle
            ELSE [req[w] EXCEPT !.pc = "verify", !.item = Head(req[w].rest),
                                !.row = 0, !.rest = Tail(req[w].rest)]]

\* The best PAYG bundle an amount covers, or the first tier.
BestCovered(amount) ==
  LET covered == {t \in Payg : amount >= TierAmount[t]}
  IN IF covered = {} THEN Cheapest
     ELSE CHOOSE t \in covered :
            \A u \in covered : TierAmount[u] <= TierAmount[t]

\* Mutant: the declared tier is believed.
TierForAsked(asked, amount) ==
  IF asked # NoTier THEN asked ELSE BestCovered(amount)

\* The tier a claim buys: the declared one when the amount covers it.
TierFor(asked, amount) ==
  IF asked # NoTier /\ amount >= TierAmount[asked] THEN asked
  ELSE BestCovered(amount)

Present(w, pc, lane, item, tier, rest) ==
  /\ req[w] = Idle
  /\ begun < MaxRequests
  /\ begun' = begun + 1
  /\ req' = [req EXCEPT ![w] = [pc |-> pc, lane |-> lane, item |-> item,
                                tier |-> tier, row |-> 0, rest |-> rest]]
  /\ UNCHANGED <<paid, rows, latest, holder, credits, given>>

For(s, h) == [subject |-> s, hash |-> h, charged |-> 0]

\* Everything a credit changes in the histories.
Give(w, what, tier, row) ==
  LET h == req[w].item.hash
  IN /\ credits' = [credits EXCEPT ![h] = @ + 1]
     /\ given' = given \cup
          {[hash |-> h, what |-> what, tier |-> tier, asked |-> req[w].tier,
            row |-> row, charged |-> req[w].item.charged]}

-----------------------------------------------------------------------------
(* The chain and the clients *)

Init ==
  /\ paid = [h \in Hash |-> 0]
  /\ rows = [h \in Hash |-> 0]
  /\ latest = [s \in Subject |-> 0]
  /\ holder = <<>>
  /\ req = [w \in Worker |-> Idle]
  /\ begun = 0
  /\ credits = [h \in Hash |-> 0]
  /\ given = {}

\* The ceremony's transaction is mined.
Mine(h, amount) ==
  /\ paid[h] = 0
  /\ paid' = [paid EXCEPT ![h] = amount]
  /\ UNCHANGED <<rows, latest, holder, req, begun, credits, given>>

\* A client presents a settlement; nothing keeps it from presenting it again.
BeginClaim(w, s, h, asked) ==
  Present(w, "verify", "claim", For(s, h), asked, <<>>)

BeginResolve(w, s, h) ==
  Present(w, "verify", "resolve", For(s, h), NoTier, <<>>)

BeginVault(w, s, h) ==
  Present(w, "verify", "vault", For(s, h), NoTier, <<>>)

BeginRenew(w, s, h) ==
  Present(w, "lookup", "renew", For(s, h), NoTier, <<>>)

\* The owner reports what the collection ceremony redeemed: each item names the
\* row that was due when it was listed.
BeginCollect(w, items) ==
  /\ items # <<>>
  /\ Present(w, "verify", "collect", Head(items), NoTier, Tail(items))

\* cancel_subscription
Cancel(s) ==
  /\ latest[s] # 0
  /\ latest' = [latest EXCEPT ![s] = 0]
  /\ UNCHANGED <<paid, rows, holder, req, begun, credits, given>>

-----------------------------------------------------------------------------
(* The steps of a request *)

\* get_subscription: renew answers 404 without an active one.
Lookup(w) ==
  /\ req[w].pc = "lookup"
  /\ IF latest[req[w].item.subject] = 0 THEN EndItem(w) ELSE GoTo(w, "verify")
  /\ UNCHANGED <<paid, rows, latest, holder, begun, credits, given>>

\* verifyLbsbPayment: a mined transfer of at least PAY_PRICE to the treasury.
\* null (not mined, too little, or the 8 s timeout) ends the item.
Verify(w) ==
  /\ req[w].pc = "verify"
  /\ \/ paid[req[w].item.hash] >= PayPrice /\ paid[req[w].item.hash] # 0
          /\ GoTo(w, "check")
     \/ EndItem(w)
  /\ UNCHANGED <<paid, rows, latest, holder, begun, credits, given>>

\* Mutant: the answer of check_settlement is ignored.
CheckIgnored(w) ==
  /\ req[w].pc = "check"
  /\ GoTo(w, "record")
  /\ UNCHANGED <<paid, rows, latest, holder, begun, credits, given>>

\* check_settlement: a hash already recorded is answered as already claimed.
Check(w) ==
  /\ req[w].pc = "check"
  /\ IF rows[req[w].item.hash] > 0 THEN EndItem(w) ELSE GoTo(w, "record")
  /\ UNCHANGED <<paid, rows, latest, holder, begun, credits, given>>

\* Mutant: INSERT OR IGNORE, with the conflict not reported to the agent.
RecordOrIgnore(w) ==
  /\ req[w].pc = "record"
  /\ rows' = [rows EXCEPT ![req[w].item.hash] = 1]
  /\ GoTo(w, "credit")
  /\ UNCHANGED <<paid, latest, holder, begun, credits, given>>

\* record_settlement: one INSERT, whatever the table holds.
Record(w) ==
  /\ req[w].pc = "record"
  /\ rows' = [rows EXCEPT ![req[w].item.hash] = @ + 1]
  /\ GoTo(w, "credit")
  /\ UNCHANGED <<paid, latest, holder, begun, credits, given>>

\* mint_prepaid, for a PAYG claim and for a read that was paid for: that pass
\* has the size the payment module sets, not a tier's.
CreditPass(w) ==
  LET tier == IF req[w].lane = "claim"
              THEN TierFor(req[w].tier, paid[req[w].item.hash]) ELSE NoTier
  IN /\ req[w].pc = "credit" /\ req[w].lane \in {"claim", "resolve", "vault"}
     /\ tier # "monthly"
     /\ Give(w, "pass", tier, 0)
     /\ EndItem(w)
     /\ UNCHANGED <<paid, rows, latest, holder, begun>>

\* record_subscription, first statement: supersede what is active.
CreditSubscription(w) ==
  /\ req[w].pc = "credit" /\ req[w].lane = "claim"
  /\ TierFor(req[w].tier, paid[req[w].item.hash]) = "monthly"
  /\ latest' = [latest EXCEPT ![req[w].item.subject] = 0]
  /\ GoTo(w, "insert")
  /\ UNCHANGED <<paid, rows, holder, begun, credits, given>>

\* record_subscription, second statement: the new row is the latest.
InsertSubscription(w) ==
  /\ req[w].pc = "insert"
  /\ Len(holder) < MaxSubs
  /\ holder' = Append(holder, req[w].item.subject)
  /\ latest' = [latest EXCEPT ![req[w].item.subject] = Len(holder')]
  /\ Give(w, "subscription", "monthly", Len(holder'))
  /\ EndItem(w)
  /\ UNCHANGED <<paid, rows, begun>>

\* renew_subscription, first statement: the reader's latest active row, or a
\* 404 the caller does not look at.
CreditPeriod(w) ==
  LET i == latest[req[w].item.subject]
  IN /\ req[w].pc = "credit" /\ req[w].lane \in {"renew", "collect"}
     /\ IF i = 0 THEN EndItem(w)
        ELSE req' = [req EXCEPT ![w].pc = "advance", ![w].row = i]
     /\ UNCHANGED <<paid, rows, latest, holder, begun, credits, given>>

\* renew_subscription, second statement: the row advances by one period.
AdvancePeriod(w) ==
  /\ req[w].pc = "advance"
  /\ Give(w, "period", NoTier, req[w].row)
  /\ EndItem(w)
  /\ UNCHANGED <<paid, rows, latest, holder, begun>>

\* An exception: the item is given up (401 in the single-item lanes, the next
\* item of a collection).
ItemFails(w) ==
  /\ req[w] # Idle
  /\ EndItem(w)
  /\ UNCHANGED <<paid, rows, latest, holder, begun, credits, given>>

\* The whole request dies with its isolate.
Die(w) ==
  /\ req[w] # Idle
  /\ req' = [req EXCEPT ![w] = Idle]
  /\ UNCHANGED <<paid, rows, latest, holder, begun, credits, given>>

Step(w) ==
  \/ Lookup(w) \/ Verify(w) \/ Check(w) \/ Record(w)
  \/ CreditPass(w) \/ CreditSubscription(w) \/ InsertSubscription(w)
  \/ CreditPeriod(w) \/ AdvancePeriod(w)

\* What a collection can report: one or two different rows (bound), each
\* redeemed for its holder.
Due == {x \in Item : x.charged \in DOMAIN holder /\ holder[x.charged] = x.subject}
Collections == {<<x>> : x \in Due}
  \cup {p \in Due \X Due : p[1].charged # p[2].charged}

Begin(w) ==
  \/ \E s \in Subject, h \in Hash :
       \/ \E asked \in Tier \cup {NoTier} : BeginClaim(w, s, h, asked)
       \/ BeginResolve(w, s, h) \/ BeginVault(w, s, h)
       \/ BeginRenew(w, s, h)
  \/ \E items \in Collections : BeginCollect(w, items)

Next ==
  \/ \E h \in Hash, amount \in Amount : Mine(h, amount)
  \/ \E s \in Subject : Cancel(s)
  \/ \E w \in Worker : Begin(w) \/ Step(w) \/ ItemFails(w) \/ Die(w)

Spec == Init /\ [][Next]_vars

\* A worker that was handed a request keeps running it until it answers, throws
\* or is evicted: the runtime schedules it.
FairSpec == Spec /\ \A w \in Worker : WF_vars(Step(w))

-----------------------------------------------------------------------------
(* Properties *)

Working(w, h, pcs) == req[w].pc \in pcs /\ req[w].item.hash = h

\* The requests that have passed the check for h and not yet recorded it, and
\* those that have recorded it and owe a credit.
Recording(h) == {w \in Worker : Working(w, h, {"record"})}
Crediting(h) == {w \in Worker : Working(w, h, {"credit", "insert", "advance"})}

\* Every variable keeps its type, and a latest row is a row of that reader.
TypeOK ==
  /\ paid \in [Hash -> Amount \cup {0}]
  /\ rows \in [Hash -> Nat]
  /\ holder \in Seq(Subject) /\ Len(holder) <= MaxSubs
  /\ latest \in [Subject -> 0..MaxSubs]
  /\ \A s \in Subject : latest[s] # 0 =>
       latest[s] <= Len(holder) /\ holder[latest[s]] = s
  /\ req \in [Worker -> Request \cup {Idle}]
  /\ begun \in 0..MaxRequests
  /\ credits \in [Hash -> Nat]
  /\ given \subseteq Credit

\* Nothing is given without a ledger row of its own: for every settlement, the
\* credits given and the credits still owed by requests in flight never exceed
\* the rows recorded, however requests interleave and die.
CreditsBacked ==
  \A h \in Hash : credits[h] + Cardinality(Crediting(h)) <= rows[h]

\* How far the replay guard can be wrong: with the requests that have passed the
\* check and not yet recorded, a settlement is recorded at most once for each
\* request that can be in flight at a time, however often it is presented.
RowsBounded ==
  \A h \in Hash : rows[h] > 0 =>
    rows[h] + Cardinality(Recording(h)) <= Cardinality(Worker)

\* Once a row exists nobody new gets past the check: only the requests that had
\* already passed it can still record, and a recorded row is never taken back.
NoLatecomer ==
  \A h \in Hash : /\ rows[h] > 0 => Recording(h)' \subseteq Recording(h)
                  /\ rows'[h] >= rows[h]
LateRequestsStop == [][NoLatecomer]_vars

\* What is given was paid for: the transfer was mined, reached PAY_PRICE and
\* covers the tier that was credited; and a subscription is started only by a
\* claim that declared one, never by the PAYG fallback.
CreditCovered ==
  \A g \in given :
    /\ paid[g.hash] >= PayPrice
    /\ g.tier # NoTier => paid[g.hash] >= TierAmount[g.tier]
    /\ g.what = "subscription" => g.asked = "monthly"

\* The basis of CreditCovered: a request past the verification presents a mined
\* transfer of at least PAY_PRICE, and a started insertion was declared.
PaidForInFlight ==
  \A w \in Worker :
    /\ req[w].pc \in {"check", "record", "credit", "insert", "advance"} =>
         paid[req[w].item.hash] # 0 /\ paid[req[w].item.hash] >= PayPrice
    /\ req[w].pc = "insert" =>
         /\ req[w].tier = "monthly"
         /\ paid[req[w].item.hash] >= TierAmount["monthly"]

\* The inductive invariant of the lane under any number of requests.
LaneInv == /\ TypeOK /\ CreditsBacked /\ RowsBounded
           /\ PaidForInFlight /\ CreditCovered

\* Every request ends: no failing item strands the rest of a collection.
Finishes == \A w \in Worker : (req[w] # Idle) ~> (req[w] = Idle)

\* A settlement buys at most one credit for each request that can be in flight
\* at a time, however often and in whichever lanes it is presented: served one
\* request at a time, at most one.
Promise == INSTANCE SettlementPromise WITH
  spent <- credits, mined <- paid, Copies <- Cardinality(Worker)

\* The lane keeps the abstract promise step by step.
KeepsPromise == Promise!PromiseSpec

\* "One row per on-chain settlement" (payments.sql:3).
OneRowPerSettlement == \A h \in Hash : rows[h] <= 1
=============================================================================
