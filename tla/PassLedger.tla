----------------------------- MODULE PassLedger -----------------------------
(***************************************************************************)
(* The prepaid_entitlements table of the corpus MCP (apps/demo-bible-mcp)  *)
(* and the requests that spend from it: get_passage_text's prepaid lane    *)
(* and consume_prepaid.                                                    *)
(*                                                                         *)
(* A worker request is a slot of Reader.  Every D1 statement is one atomic *)
(* step; between two statements of a request any other request may run,    *)
(* and a request may die (an exception, an evicted isolate).  The meter is *)
(* a read-modify-write: the row is SELECTed, the new count is computed in  *)
(* the worker, and the UPDATE writes it back by id with no other condition.*)
(* The read itself is delivered only by the answer, some statements later: *)
(* a request that dies in between has charged a read nobody got, and no    *)
(* statement gives it back.                                                *)
(* In the worlds where alone holds a request starts only when no other is  *)
(* in flight: what the ledger promises there it loses only to a race.      *)
(***************************************************************************)
EXTENDS Naturals, FiniteSets

CONSTANTS
  Account,    \* the (subject, edition) pairs every query filters on
  Reader,     \* request slots: how many reads can be in flight at once
  MaxPasses,  \* bound: rows the table can hold
  MaxReads,   \* bound: spending requests ever started
  MaxUses,    \* bound: largest max_uses of a pass
  MaxNow      \* bound: the clock

ASSUME PassConstants ==
  /\ MaxPasses \in Nat
  /\ MaxReads \in Nat
  /\ MaxUses \in Nat \ {0}
  /\ MaxNow \in Nat
  /\ IsFiniteSet(Reader)

VARIABLES
  now,        \* the wall clock every worker reads
  passes,     \* prepaid_entitlements: id -> row
  nPasses,    \* the AUTOINCREMENT counter: rows 1..nPasses exist
  reader,     \* the requests in flight
  begun,      \* requests started (history: bounds the model)
  charged,    \* id -> UPDATEs that wrote that row's meter (history)
  delivered,  \* id -> reads answered on that row (history)
  lost,       \* id -> requests that died after their UPDATE (history)
  alone       \* is one request served at a time (the world, fixed)

histories == <<charged, delivered, lost>>
vars == <<now, passes, nPasses, reader, begun, histories, alone>>

PassId == 1..MaxPasses
Time == 0..MaxNow
NoExpiry == MaxNow + 1            \* valid_until IS NULL
Until == 0..(MaxNow + 1)

Row == [acct : Account, max_uses : 1..MaxUses, used : 0..MaxUses,
        valid_until : Until, status : {"active", "exhausted"}]
Absent == [status |-> "absent"]

\* What one spending request holds between its statements.
Request ==
  [pc : {"select"}, acct : Account, at : Time]
    \cup
  [pc : {"update"}, id : PassId, used : 0..MaxUses, max_uses : 1..MaxUses]
    \cup
  [pc : {"answer"}, id : PassId]
Idle == [pc |-> "idle"]

Rows == 1..nPasses

-----------------------------------------------------------------------------
(* The table                                                               *)

Unexpired(row, at) == row.valid_until = NoExpiry \/ row.valid_until > at

\* Mutant: the status and meter conditions of the WHERE clause dropped.
SpendableUnmetered(a, at) ==
  {i \in Rows : passes[i].acct = a /\ Unexpired(passes[i], at)}

\* WHERE subject=? AND edition=? AND status='active' AND used < max_uses AND
\* (valid_until IS NULL OR valid_until > ?)
Spendable(a, at) ==
  {i \in Rows : /\ passes[i].acct = a
                /\ passes[i].status = "active"
                /\ passes[i].used < passes[i].max_uses
                /\ Unexpired(passes[i], at)}

\* ORDER BY id ASC LIMIT 1
IsOldest(i, ids) == i \in ids /\ \A j \in ids : i <= j

\* const used = Number(row.used) + 1
MeterAfterTwice(used) == used + 2   \* mutant: charged twice
MeterAfter(used) == used + 1

\* used >= max_uses ? 'exhausted' : 'active'
StatusForLate(used, max) == IF used > max THEN "exhausted" ELSE "active" \* mutant
StatusFor(used, max) == IF used >= max THEN "exhausted" ELSE "active"

-----------------------------------------------------------------------------
(* Operations                                                              *)

Init ==
  /\ now = 0
  /\ passes = [i \in PassId |-> Absent]
  /\ nPasses = 0
  /\ reader = [r \in Reader |-> Idle]
  /\ begun = 0
  /\ charged = [i \in PassId |-> 0]
  /\ delivered = [i \in PassId |-> 0]
  /\ lost = [i \in PassId |-> 0]
  /\ alone \in BOOLEAN

\* Math.max(1, Number(maxUses ?? 1))
AtLeastOne(asked) == IF asked >= 1 THEN asked ELSE 1

\* Mutant: a mint also renews the meters of the account's earlier passes.
MintTopsUp(a, asked, until) ==
  /\ nPasses < MaxPasses
  /\ nPasses' = nPasses + 1
  /\ passes' = [i \in PassId |->
       IF i = nPasses + 1
         THEN [acct |-> a, max_uses |-> AtLeastOne(asked), used |-> 0,
               valid_until |-> until, status |-> "active"]
       ELSE IF i \in Rows /\ passes[i].acct = a
         THEN [passes[i] EXCEPT !.used = 0, !.status = "active"]
       ELSE passes[i]]
  /\ UNCHANGED <<now, reader, begun, histories, alone>>

\* mint_prepaid: one INSERT; the caller computes valid_until.
Mint(a, asked, until) ==
  /\ nPasses < MaxPasses
  /\ nPasses' = nPasses + 1
  /\ passes' = [passes EXCEPT ![nPasses + 1] =
                  [acct |-> a, max_uses |-> AtLeastOne(asked), used |-> 0,
                   valid_until |-> until, status |-> "active"]]
  /\ UNCHANGED <<now, reader, begun, histories, alone>>

\* The request captures `now` before its first statement.
Begin(r, a) ==
  /\ reader[r] = Idle
  /\ alone => \A q \in Reader : reader[q] = Idle
  /\ begun < MaxReads
  /\ begun' = begun + 1
  /\ reader' = [reader EXCEPT ![r] =
                  [pc |-> "select", acct |-> a, at |-> now]]
  /\ UNCHANGED <<now, passes, nPasses, histories, alone>>

\* SELECT id, max_uses, used: the oldest spendable pass.
SelectPass(r) ==
  /\ reader[r].pc = "select"
  /\ \E i \in Rows :
       /\ IsOldest(i, Spendable(reader[r].acct, reader[r].at))
       /\ reader' = [reader EXCEPT ![r] =
                       [pc |-> "update", id |-> i, used |-> passes[i].used,
                        max_uses |-> passes[i].max_uses]]
  /\ UNCHANGED <<now, passes, nPasses, begun, histories, alone>>

\* No row: 402 from get_passage_text, allowed:false from consume_prepaid.
NoPass(r) ==
  /\ reader[r].pc = "select"
  /\ Spendable(reader[r].acct, reader[r].at) = {}
  /\ reader' = [reader EXCEPT ![r] = Idle]
  /\ UNCHANGED <<now, passes, nPasses, begun, histories, alone>>

\* UPDATE ... SET used=?, status=? WHERE id=?, from the values selected before.
\* The read goes through (viaOk / allowed) whatever the row holds by then.
UpdatePass(r) ==
  /\ reader[r].pc = "update"
  /\ LET i == reader[r].id
         u == MeterAfter(reader[r].used)
     IN /\ passes' = [passes EXCEPT
                        ![i].used = u,
                        ![i].status = StatusFor(u, reader[r].max_uses)]
        /\ charged' = [charged EXCEPT ![i] = @ + 1]
        /\ reader' = [reader EXCEPT ![r] =
                        [pc |-> "answer", id |-> i]]
  /\ UNCHANGED <<now, nPasses, begun, delivered, lost, alone>>

\* get_passage_text sums what is left and answers with the text; consume_prepaid
\* answers at once.  Only now does the reader have the read; neither writes.
Answer(r) ==
  /\ reader[r].pc = "answer"
  /\ delivered' = [delivered EXCEPT ![reader[r].id] = @ + 1]
  /\ reader' = [reader EXCEPT ![r] = Idle]
  /\ UNCHANGED <<now, passes, nPasses, begun, charged, lost, alone>>

\* The request dies between two of its statements (a throw, an evicted isolate,
\* an UPDATE that took effect and whose answer was lost).  Past its UPDATE the
\* read stays charged: nothing in the code gives it back.
Fail(r) ==
  /\ reader[r] # Idle
  /\ lost' = IF reader[r].pc = "answer"
               THEN [lost EXCEPT ![reader[r].id] = @ + 1]
               ELSE lost
  /\ reader' = [reader EXCEPT ![r] = Idle]
  /\ UNCHANGED <<now, passes, nPasses, begun, charged, delivered, alone>>

Tick ==
  /\ now < MaxNow
  /\ now' = now + 1
  /\ UNCHANGED <<passes, nPasses, reader, begun, histories, alone>>

Next ==
  \/ \E a \in Account, asked \in 0..MaxUses, until \in Until :
       Mint(a, asked, until)
  \/ \E r \in Reader, a \in Account : Begin(r, a)
  \/ \E r \in Reader : SelectPass(r) \/ NoPass(r) \/ UpdatePass(r)
                         \/ Answer(r) \/ Fail(r)
  \/ Tick

Spec == Init /\ [][Next]_vars

-----------------------------------------------------------------------------
(* Properties                                                              *)

\* Every variable keeps its type; rows beyond the AUTOINCREMENT counter do not
\* exist and rows up to it do.
TypeOK ==
  /\ now \in Time
  /\ nPasses \in 0..MaxPasses
  /\ passes \in [PassId -> Row \cup {Absent}]
  /\ \A i \in PassId : i \in Rows <=> passes[i] \in Row
  /\ reader \in [Reader -> Request \cup {Idle}]
  /\ begun \in 0..MaxReads
  /\ charged \in [PassId -> Nat]
  /\ delivered \in [PassId -> Nat]
  /\ lost \in [PassId -> Nat]
  /\ alone \in BOOLEAN

\* The status and the meter of a row always tell the same story, however the
\* stale UPDATEs of concurrent reads interleave: a pass is exhausted exactly
\* when its meter stands at max_uses and active exactly while reads are left,
\* so verify_access (which filters on both) and list_prepaid (which shows both)
\* never disagree.
StatusMatchesMeter ==
  \A i \in Rows :
    IF passes[i].status = "exhausted"
      THEN passes[i].used = passes[i].max_uses
      ELSE passes[i].used < passes[i].max_uses

\* What a request selected still describes the row it is about to write: the row
\* exists, its size is the selected one, and the selected meter is no further
\* than the UPDATEs that row has seen.
SelectionsHold ==
  \A r \in Reader :
    /\ reader[r].pc \in {"update", "answer"} => reader[r].id \in Rows
    /\ reader[r].pc = "update" =>
         /\ reader[r].max_uses = passes[reader[r].id].max_uses
         /\ reader[r].used < reader[r].max_uses
         /\ reader[r].used <= charged[reader[r].id]

\* Requests past their UPDATE of row i and not yet answered.
Answering(i) == {r \in Reader : reader[r].pc = "answer" /\ reader[r].id = i}

\* What became of the reads charged to row i: delivered to the reader, about to
\* be, or lost with a request that died after its UPDATE.
Accounted(i) == delivered[i] + lost[i] + Cardinality(Answering(i))

\* Every UPDATE of a meter is one of those, and no answer goes out without one.
ChargesAccounted == \A i \in PassId : charged[i] = Accounted(i)

\* The meter never runs ahead of the UPDATEs, under any interleaving: a stale
\* write can only set it back.
NeverOvercharged ==
  \A i \in Rows : passes[i].used <= charged[i]
ExactMeter ==
  \A i \in Rows : passes[i].used = charged[i]

\* What the meter says against what readers got, counted at the answer and not
\* at the UPDATE.  Under any interleaving the meter stands no higher than the
\* reads delivered, those about to be and those whose request died between its
\* UPDATE and its answer: such a death is the one way to pay for a read without
\* getting it.  The meter falls behind that sum only by a race: one request at a
\* time, it is the sum.
MeterTrue ==
  \A i \in Rows : /\ passes[i].used <= Accounted(i)
                  /\ alone => passes[i].used = Accounted(i)

\* The inductive invariant of the ledger under any number of readers.
LedgerInv ==
  TypeOK /\ SelectionsHold /\ StatusMatchesMeter /\ NeverOvercharged

\* "one settlement buys N reads" (payments.sql:22): a pass delivers at most
\* max_uses reads.
SoldReadsBound ==
  \A i \in Rows : delivered[i] <= passes[i].max_uses

\* With one request in flight at a time a selection is never stale.
OneReader == \A r, q \in Reader : reader[r] # Idle /\ reader[q] # Idle => r = q
SelectionsFresh ==
  \A r \in Reader : reader[r].pc = "update" =>
    reader[r].used = passes[reader[r].id].used

SerialInv == LedgerInv /\ (alone => OneReader /\ SelectionsFresh /\ ExactMeter)

\* Served one request at a time, the ledger implements the promise: a mint is
\* the sale, the answer is the read, and no pass delivers more reads than were
\* sold with it.
Promise == INSTANCE PassPromise WITH
  Pass <- PassId,
  sold <- [i \in PassId |-> IF i \in Rows THEN passes[i].max_uses ELSE 0],
  spent <- delivered

\* The detailed ledger keeps the abstract promise step by step.
KeepsPromise == /\ alone => Promise!PromiseInit
                /\ [][alone => Promise!PromiseNext]_(Promise!promiseVars)
=============================================================================
