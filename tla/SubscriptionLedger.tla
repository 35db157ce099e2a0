------------------------- MODULE SubscriptionLedger -------------------------
(***************************************************************************)
(* The subscriptions table of the corpus MCP (apps/demo-bible-mcp): a      *)
(* subscribe or upgrade (record_subscription), the billing of the next     *)
(* period (renew_subscription), the stop of auto-renewal                   *)
(* (cancel_subscription) and the metered read of get_passage_text's        *)
(* subscription lane.                                                      *)
(*                                                                         *)
(* Every D1 statement is one atomic step and every handler but cancel is   *)
(* two of them: record cancels what is active and then inserts; renew and  *)
(* read SELECT the latest active row, compute in the worker and UPDATE it  *)
(* by id.  Requests of every kind interleave and may die in between.       *)
(* In the worlds where alone holds there is at most one request of each    *)
(* kind at a time; requests of different kinds still interleave.           *)
(***************************************************************************)
EXTENDS Naturals

CONSTANTS
  Account,    \* the (subject, edition) pairs every query filters on
  Recorder,   \* slots of record_subscription in flight
  Renewer,    \* slots of renew_subscription in flight
  Reader,     \* slots of metered reads in flight
  Period,     \* period_seconds of a tier, in ticks of the clock
  MaxCap,     \* bound: largest fair-use cap of a tier
  MaxSubs,    \* bound: rows the table can hold
  MaxRenewals,\* bound: renewals ever started
  MaxReads,   \* bound: reads ever let through
  MaxNow      \* bound: the clock

ASSUME SubscriptionConstants ==
  /\ Period \in Nat \ {0}
  /\ MaxCap \in Nat \ {0}
  /\ MaxSubs \in Nat
  /\ MaxRenewals \in Nat
  /\ MaxReads \in Nat
  /\ MaxNow \in Nat

VARIABLES
  now,        \* the wall clock every worker reads
  subs,       \* subscriptions: id -> row
  nSubs,      \* the AUTOINCREMENT counter: rows 1..nSubs exist
  recorder, renewer, reader,   \* the requests in flight
  renewals,   \* id -> renewals applied to the row (history)
  granted,    \* id -> reads let through on the row (history)
  inPeriod,   \* id -> those since its last renewal (history)
  started,    \* renewals and reads started (history: bounds the model)
  alone       \* is one request of a kind served at a time (the world, fixed)

ledger == <<subs, nSubs>>
slots == <<recorder, renewer, reader>>
history == <<renewals, granted, inPeriod, started>>
vars == <<now, ledger, slots, history, alone>>

SubId == 1..MaxSubs
Rows == 1..nSubs

Row == [acct : Account, reads_per_period : 1..MaxCap, period_uses : 0..MaxCap,
        periods_charged : Nat, current_period_start : Nat,
        current_period_end : Nat, status : {"active", "canceled"},
        created_at : Nat]
Absent == [status |-> "absent"]

Idle == [pc |-> "idle"]
RecordRequest == [pc : {"insert"}, acct : Account, cap : 1..MaxCap, at : Nat]
RenewRequest == [pc : {"update"}, id : SubId, ends : Nat, charged : Nat,
                 at : Nat]
ReadRequest == [pc : {"update"}, id : SubId, used : 0..MaxCap]

-----------------------------------------------------------------------------
(* The table *)

Active(a) == {i \in Rows : subs[i].acct = a /\ subs[i].status = "active"}

\* ORDER BY id DESC LIMIT 1
IsLatest(i, ids) == i \in ids /\ \A j \in ids : j <= i

\* Math.max(current_period_end, now)
LaterIsNow(s, t) == t   \* mutant: the window always starts now
Later(s, t) == IF s >= t THEN s ELSE t

\* Mutant: the cap is compared with <=.
GrantsOneMore(i) == /\ subs[i].current_period_end > now
                    /\ subs[i].period_uses <= subs[i].reads_per_period

\* The row grants a metered read: its period has not ended and its cap is not
\* used up.
Grants(i) == /\ subs[i].current_period_end > now
             /\ subs[i].period_uses < subs[i].reads_per_period

\* Number(periods_charged) + 1
Billed(charged) == charged + 1

\* Mutant: nothing is superseded.
CanceledNone(a) == subs

\* UPDATE subscriptions SET status='canceled' WHERE ... AND status='active'
Canceled(a) == [i \in SubId |-> IF i \in Active(a)
                                  THEN [subs[i] EXCEPT !.status = "canceled"]
                                  ELSE subs[i]]

-----------------------------------------------------------------------------
(* Operations *)

Init ==
  /\ now = 0
  /\ subs = [i \in SubId |-> Absent] /\ nSubs = 0
  /\ recorder = [w \in Recorder |-> Idle]
  /\ renewer = [w \in Renewer |-> Idle]
  /\ reader = [r \in Reader |-> Idle]
  /\ renewals = [i \in SubId |-> 0]
  /\ granted = [i \in SubId |-> 0]
  /\ inPeriod = [i \in SubId |-> 0]
  /\ started = [renew |-> 0, read |-> 0]
  /\ alone \in BOOLEAN

\* In the worlds where alone holds, a request of a kind waits for the last one.
OneAtATime(slot) == alone => \A x \in DOMAIN slot : slot[x] = Idle

\* record_subscription, first statement: supersede what is active.
RecordSupersede(w, a, cap) ==
  /\ recorder[w] = Idle
  /\ OneAtATime(recorder)
  /\ subs' = Canceled(a)
  /\ recorder' = [recorder EXCEPT ![w] =
                    [pc |-> "insert", acct |-> a, cap |-> cap, at |-> now]]
  /\ UNCHANGED <<now, nSubs, renewer, reader, history, alone>>

\* record_subscription, second statement: the new active row.
RecordInsert(w) ==
  /\ recorder[w].pc = "insert"
  /\ nSubs < MaxSubs
  /\ nSubs' = nSubs + 1
  /\ subs' = [subs EXCEPT ![nSubs + 1] =
                [acct |-> recorder[w].acct,
                 reads_per_period |-> recorder[w].cap, period_uses |-> 0,
                 periods_charged |-> 1,
                 current_period_start |-> recorder[w].at,
                 current_period_end |-> recorder[w].at + Period,
                 status |-> "active", created_at |-> recorder[w].at]]
  /\ recorder' = [recorder EXCEPT ![w] = Idle]
  /\ UNCHANGED <<now, renewer, reader, history, alone>>

\* cancel_subscription: one statement.
Cancel(a) ==
  /\ Active(a) # {}
  /\ subs' = Canceled(a)
  /\ UNCHANGED <<now, nSubs, slots, history, alone>>

\* renew_subscription, first statement; with no active row it answers 404 and
\* changes nothing.
RenewSelect(w, a) ==
  /\ renewer[w] = Idle
  /\ OneAtATime(renewer)
  /\ started.renew < MaxRenewals
  /\ started' = [started EXCEPT !.renew = @ + 1]
  /\ \E i \in Rows :
       /\ IsLatest(i, Active(a))
       /\ renewer' = [renewer EXCEPT ![w] =
                        [pc |-> "update", id |-> i,
                         ends |-> subs[i].current_period_end,
                         charged |-> subs[i].periods_charged, at |-> now]]
  /\ UNCHANGED <<now, ledger, recorder, reader, renewals, granted, inPeriod, alone>>

\* Mutant: the renewal makes the row it bills active again.
RenewRevives(w) ==
  /\ renewer[w].pc = "update"
  /\ \E t \in renewer[w].at..now :
       LET i == renewer[w].id
           base == Later(renewer[w].ends, t)
       IN /\ subs' = [subs EXCEPT
                        ![i].periods_charged = Billed(renewer[w].charged),
                        ![i].current_period_start = base,
                        ![i].current_period_end = base + Period,
                        ![i].period_uses = 0,
                        ![i].status = "active"]
          /\ renewals' = [renewals EXCEPT ![i] = @ + 1]
          /\ inPeriod' = [inPeriod EXCEPT ![i] = 0]
  /\ renewer' = [renewer EXCEPT ![w] = Idle]
  /\ UNCHANGED <<now, nSubs, recorder, reader, granted, started, alone>>

\* renew_subscription, second statement: the next window starts at the later of
\* the selected end and the worker's clock, read at some time since.
RenewUpdate(w) ==
  /\ renewer[w].pc = "update"
  /\ \E t \in renewer[w].at..now :
       LET i == renewer[w].id
           base == Later(renewer[w].ends, t)
       IN /\ subs' = [subs EXCEPT
                        ![i].periods_charged = Billed(renewer[w].charged),
                        ![i].current_period_start = base,
                        ![i].current_period_end = base + Period,
                        ![i].period_uses = 0]
          /\ renewals' = [renewals EXCEPT ![i] = @ + 1]
          /\ inPeriod' = [inPeriod EXCEPT ![i] = 0]
  /\ renewer' = [renewer EXCEPT ![w] = Idle]
  /\ UNCHANGED <<now, nSubs, recorder, reader, granted, started, alone>>

\* get_passage_text: the latest active row, in its period and under its cap.
\* Otherwise the request falls through to the prepaid lane (PassLedger).
ReadSelect(r, a) ==
  /\ reader[r] = Idle
  /\ OneAtATime(reader)
  /\ started.read < MaxReads
  /\ started' = [started EXCEPT !.read = @ + 1]
  /\ \E i \in Rows :
       /\ IsLatest(i, Active(a)) /\ Grants(i)
       /\ reader' = [reader EXCEPT ![r] =
                       [pc |-> "update", id |-> i,
                        used |-> subs[i].period_uses]]
  /\ UNCHANGED <<now, ledger, recorder, renewer, renewals, granted, inPeriod, alone>>

\* get_passage_text: UPDATE ... SET period_uses=? WHERE id=?; the read is let
\* through whatever the row holds by then.
ReadUpdate(r) ==
  /\ reader[r].pc = "update"
  /\ LET i == reader[r].id
     IN /\ subs' = [subs EXCEPT ![i].period_uses = reader[r].used + 1]
        /\ granted' = [granted EXCEPT ![i] = @ + 1]
        /\ inPeriod' = [inPeriod EXCEPT ![i] = @ + 1]
  /\ reader' = [reader EXCEPT ![r] = Idle]
  /\ UNCHANGED <<now, nSubs, recorder, renewer, renewals, started, alone>>

\* A request dies between its two statements.
FailRecord(w) ==
  /\ recorder[w] # Idle
  /\ recorder' = [recorder EXCEPT ![w] = Idle]
  /\ UNCHANGED <<now, ledger, renewer, reader, history, alone>>

FailRenew(w) ==
  /\ renewer[w] # Idle
  /\ renewer' = [renewer EXCEPT ![w] = Idle]
  /\ UNCHANGED <<now, ledger, recorder, reader, history, alone>>

FailRead(r) ==
  /\ reader[r] # Idle
  /\ reader' = [reader EXCEPT ![r] = Idle]
  /\ UNCHANGED <<now, ledger, recorder, renewer, history, alone>>

Tick ==
  /\ now < MaxNow
  /\ now' = now + 1
  /\ UNCHANGED <<ledger, slots, history, alone>>

Next ==
  \/ \E w \in Recorder, a \in Account, cap \in 1..MaxCap :
       RecordSupersede(w, a, cap)
  \/ \E w \in Recorder : RecordInsert(w) \/ FailRecord(w)
  \/ \E a \in Account : Cancel(a)
  \/ \E w \in Renewer, a \in Account : RenewSelect(w, a)
  \/ \E w \in Renewer : RenewUpdate(w) \/ FailRenew(w)
  \/ \E r \in Reader, a \in Account : ReadSelect(r, a)
  \/ \E r \in Reader : ReadUpdate(r) \/ FailRead(r)
  \/ Tick

Spec == Init /\ [][Next]_vars

-----------------------------------------------------------------------------
(* Properties *)

\* Every variable keeps its type.
TypeOK ==
  /\ now \in Nat /\ nSubs \in 0..MaxSubs
  /\ subs \in [SubId -> Row \cup {Absent}]
  /\ \A i \in SubId : i \in Rows <=> subs[i] \in Row
  /\ recorder \in [Recorder -> RecordRequest \cup {Idle}]
  /\ renewer \in [Renewer -> RenewRequest \cup {Idle}]
  /\ reader \in [Reader -> ReadRequest \cup {Idle}]
  /\ renewals \in [SubId -> Nat] /\ granted \in [SubId -> Nat]
  /\ inPeriod \in [SubId -> Nat]
  /\ started \in [renew : Nat, read : Nat] /\ alone \in BOOLEAN

\* No time is lost and none is given away: however renewals race and however
\* late they land, a row's window ends at least periods_charged periods after
\* it was created and at most that many periods after the clock, and it is one
\* period long ("no retroactive windows after a lapse", index.ts:827).
WindowsAccounted ==
  \A i \in Rows : LET s == subs[i] IN
    /\ s.current_period_end = s.current_period_start + Period
    /\ s.created_at + s.periods_charged * Period <= s.current_period_end
    /\ s.current_period_end <= now + s.periods_charged * Period

\* A row never counts more periods than were settled for it: the first one at
\* subscribe and one for each renewal.
NeverOverbilled ==
  \A i \in Rows : subs[i].periods_charged <= 1 + renewals[i]

\* "periods billed so far (1 = first, at subscribe)" (payments.sql:58).
PeriodsCounted == \A i \in Rows : subs[i].periods_charged = 1 + renewals[i]

\* However renewals race, no period is lost, given away or billed without a
\* settlement; and only a race of two renewals leaves one unbilled.
PeriodsTrue ==
  WindowsAccounted /\ NeverOverbilled /\ (alone => PeriodsCounted)

\* The fair-use meter stays within the cap, so readsRemaining (get_subscription,
\* verify_access) never needs its clamp at zero, and never runs ahead of the
\* reads let through on the row.
MeterWithinCap ==
  \A i \in Rows : /\ subs[i].period_uses <= subs[i].reads_per_period
                  /\ subs[i].period_uses <= granted[i]

\* "per-period FAIR-USE CAP" (payments.sql:53): a period lets through at most
\* reads_per_period reads.
FairUse == \A i \in Rows : inPeriod[i] <= subs[i].reads_per_period

\* The meter never passes the cap, and only a race of two reads lets more
\* through in a period than the cap.
CapKept == MeterWithinCap /\ (alone => FairUse)

\* What a request selected stays a valid basis for its UPDATE.
RecordsHold ==
  \A w \in Recorder : recorder[w].pc = "insert" => recorder[w].at <= now

RenewalsHold ==
  \A w \in Renewer : renewer[w].pc = "update" =>
    LET i == renewer[w].id IN
    /\ i \in Rows /\ renewer[w].at <= now
    /\ subs[i].created_at + renewer[w].charged * Period <= renewer[w].ends
    /\ renewer[w].ends <= renewer[w].at + renewer[w].charged * Period
    /\ renewer[w].charged <= 1 + renewals[i]

ReadsHold ==
  \A r \in Reader : reader[r].pc = "update" =>
    LET i == reader[r].id IN
    /\ i \in Rows
    /\ reader[r].used < subs[i].reads_per_period
    /\ reader[r].used <= granted[i]

SelectionsHold == RecordsHold /\ RenewalsHold /\ ReadsHold

\* The inductive invariant of the table under any number of requests.
LedgerInv == /\ TypeOK /\ SelectionsHold
             /\ WindowsAccounted /\ NeverOverbilled /\ MeterWithinCap

\* A canceled row is never active again, and what was sold (the account, the
\* cap, the creation time) never changes.
SaleStands ==
  \A i \in Rows : /\ subs[i].status = "canceled" => subs'[i].status = "canceled"
                  /\ subs'[i].acct = subs[i].acct
                  /\ subs'[i].reads_per_period = subs[i].reads_per_period
                  /\ subs'[i].created_at = subs[i].created_at
CanceledForGood == [][SaleStands]_vars

\* "Supersedes any existing ACTIVE subscription for this subject+edition"
\* (index.ts:780): with one record_subscription at a time, whatever renewals,
\* reads and cancellations interleave with it, an account has at most one
\* active row.
OneActive ==
  alone => \A a \in Account : \A i, j \in Active(a) : i = j
=============================================================================
