------------------------------- MODULE Grants -------------------------------
(***************************************************************************)
(* Owner-issued access to one licensed edition: the ledger of requests and *)
(* issued entitlements in apps/demo-bible-mcp, the owner console of        *)
(* apps/demo-corpus that decides the requests of a reader, the two gates   *)
(* that read the ledger, and the claim that makes someone the owner.       *)
(*                                                                         *)
(* The console asks the MCP who the owner is, which requests are pending   *)
(* and to issue in three calls; issuing is itself an INSERT and an UPDATE. *)
(* Requests of other consoles fall in between, and a call may fail.        *)
(*                                                                         *)
(* External: the agent name resolves to one account at a time.             *)
(***************************************************************************)
EXTENDS Naturals, FiniteSets

CONSTANTS
  Sub,        \* who may own the corpus, by id_token subject
  Custodian,  \* those that hold the keys of the agent's account
  Nobody,     \* the owner of an unclaimed corpus
  Rid,        \* ids of the reader's requests
  MaxRows,    \* bound: entitlements issued
  Slot,       \* calls that can be in flight at once
  MaxBegins   \* bound: calls ever started

ASSUME GrantConstants ==
  /\ Custodian \subseteq Sub /\ Nobody \notin Sub
  /\ Sub # {} /\ Rid # {}
  /\ MaxRows \in Nat \ {0} /\ MaxBegins \in Nat

VARIABLES
  owner,    \* service_identity.owner_sub
  canon,    \* the agent the name resolves to
  status,   \* request -> "none", "pending", "granted" or "denied"
  rows,     \* issued rows so far: ids are 1..rows
  issued,   \* row -> "granted" or "revoked"
  request,  \* row -> its request
  expired,  \* rows whose valid_until has passed
  held,     \* rows whose credential is in the reader's vault
  req,      \* slot -> its call
  begun,    \* calls started
  alone     \* one console call at a time, and none fails

vars == <<owner, canon, status, rows, issued, request, expired, held, req,
          begun, alone>>
ledger == <<status, rows, issued, request, expired, held>>
identity == <<owner, canon>>

Row == 1..MaxRows
Live == {i \in 1..rows : issued[i] = "granted"}
Op == {"approve", "deny", "revoke", "claim", "verify_access", "read"}
Call ==
  [op : Op,
   by : Sub, rid : Rid, row : Row,
   pc : {"gate", "list", "insert", "mark", "update", "look", "resolve",
         "write", "query", "done"},
   saw : Sub \cup {Nobody},       \* the owner a claim found
   canon : Sub \cup {Nobody},     \* what the name resolved to, if it did
   said : {"nothing", "ok", "refused", "allowed", "failed"},
   live : BOOLEAN]    \* some row was in force since it began (history);
                      \* the text gate checks the credential's own expiry

Active(t) == req[t].pc # "done"
Set(t, r) == req' = [req EXCEPT ![t] = r]
Ended(r, said) == [r EXCEPT !.pc = "done", !.said = said,
                            !.saw = Nobody, !.canon = Nobody]
Fails(t) == ~alone /\ Set(t, Ended(req[t], "failed"))

-----------------------------------------------------------------------------
(* Calls *)

New(op, by, rid, row) ==
  [op |-> op, by |-> by, rid |-> rid, row |-> row,
   pc |-> CASE op \in {"approve", "deny", "revoke"} -> "gate"
            [] op = "claim" -> "look"
            [] op \in {"verify_access", "read"} -> "query",
   saw |-> Nobody, canon |-> Nobody, said |-> "nothing",
   live |-> (IF op = "read" THEN Live ELSE Live \ expired) # {}]

Begin(t) ==
  /\ ~Active(t) /\ begun < MaxBegins
  /\ \E op \in Op, by \in Sub, rid \in Rid, row \in Row :
       /\ op \in {"approve", "deny"} => status[rid] # "none"
       /\ op = "revoke" => row <= rows
       /\ op = "read" => row \in held \ expired
       /\ alone /\ op \notin {"verify_access", "read"} =>
            \A u \in Slot : Active(u) =>
               req[u].op \in {"verify_access", "read"}
       /\ Set(t, New(op, by, rid, row))
  /\ begun' = begun + 1
  /\ UNCHANGED <<ledger, identity, alone>>

\* the reader asks for access
RequestEntitlement ==
  /\ \E r \in Rid : /\ status[r] = "none"
                    /\ status' = [status EXCEPT ![r] = "pending"]
  /\ UNCHANGED <<rows, issued, request, expired, held, identity, req, begun,
                 alone>>

\* ownerGate: the id_token's subject must be the owner
Gate(t) ==
  LET r == req[t] IN
  /\ r.pc = "gate"
  /\ \/ Set(t, IF owner # r.by THEN Ended(r, "refused")
               ELSE [r EXCEPT !.pc = IF r.op = "approve" THEN "list"
                                     ELSE "update"])
     \/ Fails(t)
  /\ UNCHANGED <<ledger, identity, begun, alone>>

\* approve looks for the request among the pending ones
List(t) ==
  LET r == req[t] IN
  /\ r.pc = "list"
  /\ \/ Set(t, IF status[r.rid] = "pending" THEN [r EXCEPT !.pc = "insert"]
               ELSE Ended(r, "refused"))
     \/ Fails(t)
  /\ UNCHANGED <<ledger, identity, begun, alone>>

\* issue_entitlement signs and inserts; a read that began before may see it
Insert(t) ==
  LET r == req[t] IN
  /\ r.pc = "insert"
  /\ \/ /\ rows < MaxRows
        /\ rows' = rows + 1
        /\ issued' = [issued EXCEPT ![rows'] = "granted"]
        /\ request' = [request EXCEPT ![rows'] = r.rid]
        /\ req' = [u \in Slot |-> IF u = t THEN [r EXCEPT !.pc = "mark",
                                                           !.row = rows']
                                  ELSE [req[u] EXCEPT !.live = TRUE]]
     \/ Fails(t) /\ UNCHANGED <<rows, issued, request>>
  /\ UNCHANGED <<status, expired, held, identity, begun, alone>>

\* ... then sets the request granted, whatever it is, and delivers the
\* credential into the reader's vault, if it can
Mark(t) ==
  LET r == req[t] IN
  /\ r.pc = "mark"
  /\ \/ /\ status' = [status EXCEPT ![r.rid] = "granted"]
        /\ held' \in {held, held \cup {r.row}}
        /\ Set(t, Ended(r, "ok"))
     \/ Fails(t) /\ UNCHANGED <<status, held>>
  /\ UNCHANGED <<rows, issued, request, expired, identity, begun, alone>>

\* deny_request: UPDATE ... WHERE status='pending'
DenyAny(r) == [status EXCEPT ![r.rid] = "denied"]   \* mutant: no such guard
Denied(r) ==
  [status EXCEPT ![r.rid] = IF @ = "pending" THEN "denied" ELSE @]
Deny(t) ==
  /\ req[t].pc = "update" /\ req[t].op = "deny"
  /\ \/ status' = Denied(req[t]) /\ Set(t, Ended(req[t], "ok"))
     \/ Fails(t) /\ UNCHANGED status
  /\ UNCHANGED <<rows, issued, request, expired, held, identity, begun, alone>>

\* revoke_entitlement, by id
Revoked(i) == [issued EXCEPT ![i] = "revoked"]
Revoke(t) ==
  /\ req[t].pc = "update" /\ req[t].op = "revoke"
  /\ \/ issued' = Revoked(req[t].row) /\ Set(t, Ended(req[t], "ok"))
     \/ Fails(t) /\ UNCHANGED issued
  /\ UNCHANGED <<status, rows, request, expired, held, identity, begun, alone>>

\* list_entitlements: the reader picks up what was not delivered
PickUp ==
  /\ ~ Live \subseteq held /\ held' = held \cup Live
  /\ UNCHANGED <<status, rows, issued, request, expired, identity, req, begun,
                 alone>>

-----------------------------------------------------------------------------
(* The two gates *)

\* verify_access: the latest granted row, and its expiry
VerifyAnyRow == rows > 0        \* mutant: the status is not asked for
VerifyAccess ==
  \E i \in Live : (\A j \in Live : j <= i) /\ i \notin expired

\* get_passage_text: the credential was presented unexpired, and the latest
\* row of the reader, whichever it belongs to, is not revoked.
TextAccess == rows = 0 \/ issued[rows] # "revoked"

Query(t) ==
  LET r == req[t]
      ok == IF r.op = "verify_access" THEN VerifyAccess ELSE TextAccess IN
  /\ r.pc = "query"
  /\ Set(t, Ended(r, IF ok THEN "allowed" ELSE "refused"))
  /\ UNCHANGED <<ledger, identity, begun, alone>>

-----------------------------------------------------------------------------
(* Owning the corpus *)

ClaimLook(t) ==
  /\ req[t].pc = "look"
  /\ Set(t, [req[t] EXCEPT !.pc = "resolve", !.saw = owner])
  /\ UNCHANGED <<ledger, identity, begun, alone>>

\* the name is resolved live, or cannot be
ClaimResolve(t) ==
  /\ req[t].pc = "resolve"
  /\ \E c \in {canon} \cup (IF alone THEN {} ELSE {Nobody}) :
       Set(t, [req[t] EXCEPT !.pc = "write", !.canon = c])
  /\ UNCHANGED <<ledger, identity, begun, alone>>

Authorized(r) == r.canon # Nobody /\ (r.by = r.canon \/ r.by \in Custodian)

\* an unclaimed corpus, or one whose owner is not the agent of the name
MayTakeAny(r) == Authorized(r)   \* mutant: also from the canonical owner
MayTake(r) == Authorized(r) /\ (r.saw = Nobody \/ r.saw # r.canon)

ClaimWrite(t) ==
  LET r == req[t] IN
  /\ r.pc = "write"
  /\ IF r.saw = r.by THEN Set(t, Ended(r, "ok")) /\ UNCHANGED owner
     ELSE IF ~MayTake(r) THEN Set(t, Ended(r, "refused")) /\ UNCHANGED owner
     ELSE IF r.saw = Nobody /\ owner # Nobody   \* the INSERT finds the key
     THEN Set(t, Ended(r, "failed")) /\ UNCHANGED owner
     ELSE Set(t, Ended(r, "ok")) /\ owner' = r.by
  /\ UNCHANGED <<ledger, canon, begun, alone>>

-----------------------------------------------------------------------------
Expire ==
  /\ \E i \in (1..rows) \ expired : expired' = expired \cup {i}
  /\ UNCHANGED <<status, rows, issued, request, held, identity, req, begun,
                 alone>>

\* the name is pointed to another agent
Repoint ==
  /\ alone => \A t \in Slot : Active(t) => req[t].op # "claim"
  /\ canon' \in Sub \ {canon}
  /\ UNCHANGED <<ledger, owner, req, begun, alone>>

Init ==
  /\ owner = Nobody /\ canon \in Sub /\ alone \in BOOLEAN
  /\ status = [r \in Rid |-> "none"]
  /\ rows = 0 /\ issued = [i \in Row |-> "granted"]
  /\ request \in [Row -> {CHOOSE r \in Rid : TRUE}]
  /\ expired = {} /\ held = {}
  /\ req = [t \in Slot |->
       [op |-> "claim", by |-> CHOOSE s \in Sub : TRUE,
        rid |-> CHOOSE r \in Rid : TRUE, row |-> CHOOSE i \in Row : TRUE,
        pc |-> "done", saw |-> Nobody, canon |-> Nobody, said |-> "nothing",
        live |-> FALSE]]
  /\ begun = 0

Next ==
  \/ \E t \in Slot :
       \/ Begin(t) \/ Gate(t) \/ List(t) \/ Insert(t) \/ Mark(t) \/ Deny(t)
       \/ Revoke(t) \/ Query(t) \/ ClaimLook(t) \/ ClaimResolve(t)
       \/ ClaimWrite(t)
  \/ RequestEntitlement \/ PickUp \/ Expire \/ Repoint

Spec == Init /\ [][Next]_vars

-----------------------------------------------------------------------------
(* Properties *)

\* Every variable keeps its shape; only issued rows are held or expire.
TypeOK ==
  /\ owner \in Sub \cup {Nobody} /\ canon \in Sub
  /\ status \in [Rid -> {"none", "pending", "granted", "denied"}]
  /\ rows \in 0..MaxRows
  /\ issued \in [Row -> {"granted", "revoked"}] /\ request \in [Row -> Rid]
  /\ expired \subseteq 1..rows /\ held \subseteq 1..rows
  /\ req \in [Slot -> Call] /\ begun \in 0..MaxBegins /\ alone \in BOOLEAN

\* With one console at work and no failing call, a request is decided once:
\* at most one entitlement is issued for it, and none for a denied one.
OneDecision ==
  alone => \A i, j \in 1..rows :
    /\ request[i] = request[j] => i = j
    /\ status[request[i]] # "denied"

\* Once every entitlement of a reader is revoked, both gates are shut: one
\* that lets the reader in was asked before, or another was issued since.
\* verify_access also wants an unexpired one.
LedgerDecides ==
  \A t \in Slot : req[t].said = "allowed" => req[t].live

\* One claim at a time: who owns the corpus as the agent its name resolves
\* to keeps it while the name stays.
CanonicalStays ==
  [][alone /\ owner = canon /\ canon' = canon => owner' = owner]_vars
=============================================================================
