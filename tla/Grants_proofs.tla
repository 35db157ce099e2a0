---------------------------- MODULE Grants_proofs ----------------------------
(***************************************************************************)
(* Grants, for any subjects, requests, slots and number of calls: its type *)
(* invariant and every property its run checks.  Two inductive invariants: *)
(* GateInv holds whatever interleaves and fails, DecisionInv adds what one *)
(* console at a time is owed.                                              *)
(***************************************************************************)
EXTENDS Grants, TLAPS

Reads == {"verify_access", "read"}

\* Only the two gates query, and only they are no calls of a console; what
\* is marked was inserted.
Placed(t) ==
  /\ req[t].pc = "query" => req[t].op \in Reads
  /\ req[t].op \in Reads => req[t].pc \in {"query", "done"}
  /\ req[t].pc \in {"look", "resolve", "write"} => req[t].op = "claim"
  /\ req[t].pc = "mark" => req[t].row \in 1..rows

\* What would open a gate now was noted as in force since the call began.
Noted(t) ==
  Active(t) =>
    /\ req[t].said = "nothing"
    /\ req[t].op = "verify_access" /\ Live \ expired # {} => req[t].live
    /\ req[t].op = "read" => rows > 0
    /\ req[t].op = "read" /\ Live # {} => req[t].live

Sound(t) == req[t].said = "allowed" => req[t].live

GateInv == TypeOK /\ \A t \in Slot : Placed(t) /\ Noted(t) /\ Sound(t)

Console(t) == Active(t) /\ req[t].op \notin Reads

OneConsole == \A t, u \in Slot : Console(t) /\ Console(u) => t = u

\* What an approval relies on between its calls, and a claim on.
Relies(t) ==
  /\ req[t].pc = "insert" => /\ status[req[t].rid] = "pending"
                             /\ \A i \in 1..rows : request[i] # req[t].rid
  /\ req[t].pc = "mark" => /\ request[req[t].row] = req[t].rid
                           /\ status[req[t].rid] = "pending"
  /\ req[t].pc \in {"resolve", "write"} => req[t].saw = owner
  /\ req[t].pc = "write" => req[t].canon = canon

Decided ==
  /\ \A i \in 1..rows :
       \/ status[request[i]] = "granted"
       \/ \E t \in Slot : req[t].pc = "mark" /\ req[t].row = i
  /\ \A i, j \in 1..rows : request[i] = request[j] => i = j

DecisionInv ==
  GateInv /\ (alone => OneConsole /\ Decided /\ \A t \in Slot : Relies(t))

USE GrantConstants DEF Row, Op

LEMMA GateInit == Init => GateInv
<1> SUFFICES ASSUME Init PROVE GateInv
  OBVIOUS
<1>1. /\ (CHOOSE s \in Sub : TRUE) \in Sub /\ (CHOOSE r \in Rid : TRUE) \in Rid
      /\ (CHOOSE i \in Row : TRUE) \in Row
  <2>1. 1 \in Row
    OBVIOUS
  <2> QED BY <2>1
<1>2. TypeOK
  BY <1>1 DEF Init, TypeOK, Call
<1>3. \A t \in Slot : Placed(t) /\ Noted(t) /\ Sound(t)
  BY DEF Init, Placed, Noted, Sound, Active, Reads
<1> QED BY <1>2, <1>3 DEF GateInv

\* A call is not touched by a step of another that puts nothing in force.
LEMMA OthersStay ==
  ASSUME GateInv, NEW t \in Slot, NEW r, Set(t, r),
         Live' \subseteq Live, expired \subseteq expired', rows' = rows
  PROVE  \A u \in Slot \ {t} : Placed(u)' /\ Noted(u)' /\ Sound(u)'
<1> SUFFICES ASSUME NEW u \in Slot \ {t}
             PROVE  Placed(u)' /\ Noted(u)' /\ Sound(u)'
  OBVIOUS
<1>1. req'[u] = req[u] /\ Placed(u) /\ Noted(u) /\ Sound(u)
  BY DEF GateInv, TypeOK, Set
<1>2. (Live' # {} => Live # {}) /\ (Live' \ expired' # {} => Live \ expired # {})
  OBVIOUS
<1> QED BY <1>1, <1>2 DEF Placed, Noted, Sound, Active

\* A call that ends with anything but "allowed" is good.
LEMMA Answered ==
  ASSUME GateInv, NEW t \in Slot,
         NEW said \in {"ok", "refused", "failed"},
         Set(t, Ended(req[t], said)), TypeOK',
         Live' \subseteq Live, expired \subseteq expired', rows' = rows
  PROVE  GateInv'
<1>1. /\ req'[t].pc = "done" /\ req'[t].said = said
      /\ req'[t].op = req[t].op /\ req[t] \in Call
  BY DEF GateInv, TypeOK, Set, Ended, Call
<1>2. Placed(t)' /\ Noted(t)' /\ Sound(t)'
  BY <1>1 DEF Placed, Noted, Sound, Active
<1> QED BY <1>2, OthersStay DEF GateInv

LEMMA EndedType ==
  ASSUME TypeOK, NEW t \in Slot,
         NEW said \in {"ok", "refused", "failed", "allowed"}
  PROVE  Ended(req[t], said) \in Call
<1>1. req[t] \in Call
  BY DEF TypeOK
<1>2. said \in {"nothing", "ok", "refused", "allowed", "failed"}
  OBVIOUS
<1> QED BY <1>1, <1>2 DEF Ended, Call

\* A call of a console that goes on to its next step is good.
LEMMA GoesOn ==
  ASSUME GateInv, NEW t \in Slot, req[t].pc \notin {"query", "done"},
         NEW r, Set(t, r), r.op = req[t].op, r.said = req[t].said, TypeOK',
         r.pc \notin {"query", "done", "mark"},
         r.pc \in {"look", "resolve", "write"} => r.op = "claim",
         Live' \subseteq Live, expired \subseteq expired', rows' = rows
  PROVE  GateInv'
<1>1. req'[t] = r
  BY DEF GateInv, TypeOK, Set
<1>2. Placed(t) /\ Noted(t) /\ req[t].op \notin Reads
  BY DEF GateInv, Placed
<1>3. Placed(t)' /\ Noted(t)' /\ Sound(t)'
  BY <1>1, <1>2 DEF Placed, Noted, Sound, Active, Reads
<1> QED BY <1>3, OthersStay DEF GateInv

LEMMA BeginKeeps == ASSUME GateInv, NEW t \in Slot, Begin(t) PROVE GateInv'
<1>1. PICK op \in Op, by \in Sub, rid \in Rid, row \in Row :
        /\ op = "read" => row \in held \ expired
        /\ Set(t, New(op, by, rid, row))
  BY DEF Begin
<1> DEFINE r == New(op, by, rid, row)
<1>2. UNCHANGED <<ledger, identity, alone>> /\ begun' \in 0..MaxBegins
  BY DEF Begin, GateInv, TypeOK
<1>3. /\ r.op = op /\ r.said = "nothing"
      /\ r.pc = CASE op \in {"approve", "deny", "revoke"} -> "gate"
                  [] op = "claim" -> "look"
                  [] op \in {"verify_access", "read"} -> "query"
      /\ r.live = ((IF op = "read" THEN Live ELSE Live \ expired) # {})
  BY DEF New
<1>4. r \in Call
  <2>1. ((IF op = "read" THEN Live ELSE Live \ expired) # {}) \in BOOLEAN
    OBVIOUS
  <2>2. r.pc \in {"gate", "look", "query"}
    BY <1>3
  <2> QED BY <2>1, <2>2 DEF New, Call
<1>5. req'[t] = r /\ req' \in [Slot -> Call]
  BY <1>1, <1>4 DEF GateInv, TypeOK, Set
<1>6. TypeOK'
  BY <1>2, <1>5 DEF GateInv, TypeOK, ledger, identity
<1>7. Live' = Live /\ UNCHANGED <<expired, rows>>
  BY <1>2 DEF Live, ledger
<1>8. op = "read" => rows > 0
  BY <1>1 DEF GateInv, TypeOK
<1> HIDE DEF r
<1>9. Placed(t)' /\ Sound(t)'
  BY <1>3, <1>5 DEF Placed, Sound, Reads
<1>10. Noted(t)'
  BY <1>3, <1>5, <1>7, <1>8 DEF Noted, Active
<1>11. \A u \in Slot \ {t} : Placed(u)' /\ Noted(u)' /\ Sound(u)'
  BY <1>1, <1>7, OthersStay
<1> QED BY <1>6, <1>9, <1>10, <1>11 DEF GateInv

LEMMA GateKeeps == ASSUME GateInv, NEW t \in Slot, Gate(t) PROVE GateInv'
<1> DEFINE pc == IF req[t].op = "approve" THEN "list" ELSE "update"
           r == [req[t] EXCEPT !.pc = pc]
<1>1. UNCHANGED <<ledger, identity, begun, alone>> /\ req[t] \in Call
      /\ req[t].pc = "gate"
  BY DEF Gate, GateInv, TypeOK
<1>2. Live' = Live /\ expired' = expired /\ rows' = rows
  BY <1>1 DEF Live, ledger
<1>3. r \in Call /\ r.pc = pc /\ r.op = req[t].op /\ r.said = req[t].said
  BY <1>1 DEF Call
<1>4. CASE Set(t, r)
  <2>1. TypeOK'
    BY <1>1, <1>3, <1>4 DEF GateInv, TypeOK, Set, ledger, identity
  <2> HIDE DEF r
  <2> QED BY <1>1, <1>2, <1>3, <1>4, <2>1, GoesOn
<1>5. ASSUME NEW said \in {"refused", "failed"}, Set(t, Ended(req[t], said))
      PROVE  GateInv'
  <2>1. TypeOK'
    BY <1>1, <1>5, EndedType DEF GateInv, TypeOK, Set, ledger, identity
  <2> QED BY <1>2, <1>5, <2>1, Answered
<1> QED BY <1>4, <1>5 DEF Gate, Fails

\* Steps that end a call, or change the ledger without opening a gate.
LEMMA ListKeeps == ASSUME GateInv, NEW t \in Slot, List(t) PROVE GateInv'
<1> DEFINE r == [req[t] EXCEPT !.pc = "insert"]
<1>1. UNCHANGED <<ledger, identity, begun, alone>> /\ req[t] \in Call
      /\ req[t].pc = "list"
  BY DEF List, GateInv, TypeOK
<1>2. Live' = Live /\ expired' = expired /\ rows' = rows
  BY <1>1 DEF Live, ledger
<1>3. r \in Call /\ r.pc = "insert" /\ r.op = req[t].op /\ r.said = req[t].said
  BY <1>1 DEF Call
<1>4. CASE Set(t, r)
  <2>1. TypeOK'
    BY <1>1, <1>3, <1>4 DEF GateInv, TypeOK, Set, ledger, identity
  <2> HIDE DEF r
  <2> QED BY <1>1, <1>2, <1>3, <1>4, <2>1, GoesOn
<1>5. ASSUME NEW said \in {"refused", "failed"}, Set(t, Ended(req[t], said))
      PROVE  GateInv'
  <2>1. TypeOK'
    BY <1>1, <1>5, EndedType DEF GateInv, TypeOK, Set, ledger, identity
  <2> QED BY <1>2, <1>5, <2>1, Answered
<1> QED BY <1>4, <1>5 DEF List, Fails

LEMMA InsertKeeps == ASSUME GateInv, NEW t \in Slot, Insert(t) PROVE GateInv'
<1> DEFINE r == [req[t] EXCEPT !.pc = "mark", !.row = rows']
           n(u) == [req[u] EXCEPT !.live = TRUE]
<1>1. req[t] \in Call /\ req[t].pc = "insert" /\ req[t].op \notin Reads
  BY DEF Insert, GateInv, TypeOK, Placed
<1>2. UNCHANGED <<status, expired, held, owner, canon, begun, alone>>
  BY DEF Insert, identity
<1>3. CASE /\ rows < MaxRows /\ rows' = rows + 1
           /\ issued' = [issued EXCEPT ![rows'] = "granted"]
           /\ request' = [request EXCEPT ![rows'] = req[t].rid]
           /\ req' = [u \in Slot |-> IF u = t THEN r ELSE n(u)]
  <2>1. rows' \in 1..MaxRows /\ rows \in 0..MaxRows /\ 1..rows \subseteq 1..rows'
    BY <1>3 DEF GateInv, TypeOK
  <2>2. r \in Call /\ r.pc = "mark" /\ r.op = req[t].op /\ r.said = req[t].said
        /\ r.row = rows'
    BY <1>1, <2>1 DEF Call
  <2>3. \A u \in Slot : /\ n(u) \in Call /\ n(u).live
                        /\ n(u).pc = req[u].pc /\ n(u).op = req[u].op
                        /\ n(u).said = req[u].said
                        /\ n(u).row = req[u].row
    <3> SUFFICES ASSUME NEW u \in Slot
                 PROVE  /\ n(u) \in Call /\ n(u).live
                        /\ n(u).pc = req[u].pc /\ n(u).op = req[u].op
                        /\ n(u).said = req[u].said /\ n(u).row = req[u].row
      OBVIOUS
    <3>1. req[u] \in Call
      BY DEF GateInv, TypeOK
    <3> QED BY <3>1 DEF Call
  <2>4. \A u \in Slot : req'[u] = IF u = t THEN r ELSE n(u)
    BY <1>3
  <2>5. req' \in [Slot -> Call]
    BY <1>3, <2>2, <2>3
  <2>6. TypeOK'
    BY <1>1, <1>2, <1>3, <2>1, <2>5 DEF GateInv, TypeOK, Call
  <2> HIDE DEF r, n
  <2>7. Placed(t)' /\ Noted(t)' /\ Sound(t)'
    BY <1>1, <2>1, <2>2, <2>4 DEF GateInv, Placed, Noted, Sound, Active, Reads
  <2>8. ASSUME NEW u \in Slot \ {t} PROVE Placed(u)' /\ Noted(u)' /\ Sound(u)'
    <3>1. Placed(u) /\ Noted(u) /\ rows' > 0
      BY <2>1 DEF GateInv
    <3> QED BY <2>1, <2>3, <2>4, <3>1 DEF Placed, Noted, Sound, Active
  <2> QED BY <2>6, <2>7, <2>8 DEF GateInv
<1>4. CASE Fails(t) /\ UNCHANGED <<rows, issued, request>>
  <2>1. Set(t, Ended(req[t], "failed"))
    BY <1>4 DEF Fails
  <2>2. TypeOK'
    BY <1>2, <1>4, <2>1, EndedType DEF GateInv, TypeOK, Set
  <2>3. Live' = Live /\ expired' = expired /\ rows' = rows
    BY <1>2, <1>4 DEF Live
  <2> QED BY <2>1, <2>2, <2>3, Answered
<1> QED BY <1>3, <1>4 DEF Insert

\* mark, deny and revoke end the call and put nothing in force.
LEMMA UpdatesKeep ==
  ASSUME GateInv, NEW t \in Slot, Mark(t) \/ Deny(t) \/ Revoke(t)
  PROVE  GateInv'
<1>1. PICK said \in {"ok", "failed"} : Set(t, Ended(req[t], said))
  BY DEF Mark, Deny, Revoke, Fails
<1>2. req' \in [Slot -> Call] /\ req[t] \in Call
  BY <1>1, EndedType DEF GateInv, TypeOK, Set
<1>3. UNCHANGED <<rows, request, expired, identity, begun, alone>>
  BY DEF Mark, Deny, Revoke
<1>4. /\ status' \in [Rid -> {"none", "pending", "granted", "denied"}]
      /\ held' \subseteq 1..rows /\ issued' \in [1..MaxRows -> {"granted", "revoked"}]
      /\ Live' \subseteq Live
  <2>1. CASE Mark(t)
    <3>1. /\ status' \in {status, [status EXCEPT ![req[t].rid] = "granted"]}
          /\ held' \in {held, held \cup {req[t].row}} /\ issued' = issued
          /\ req[t].row \in 1..rows
      BY <2>1 DEF Mark, GateInv, Placed
    <3> QED BY <1>2, <1>3, <3>1 DEF GateInv, TypeOK, Call, Live
  <2>2. CASE Deny(t)
    <3>1. status' \in {status, Denied(req[t])} /\ UNCHANGED <<issued, held>>
      BY <2>2 DEF Deny
    <3>2. /\ status \in [Rid -> {"none", "pending", "granted", "denied"}]
          /\ req[t].rid \in Rid
      BY <1>2 DEF GateInv, TypeOK, Call
    <3>3. Denied(req[t]) \in [Rid -> {"none", "pending", "granted", "denied"}]
      BY <3>2 DEF Denied
    <3> QED BY <1>3, <3>1, <3>2, <3>3 DEF GateInv, TypeOK, Live
  <2>3. CASE Revoke(t)
    <3>1. issued' \in {issued, Revoked(req[t].row)} /\ UNCHANGED <<status, held>>
      BY <2>3 DEF Revoke
    <3>2. req[t].row \in 1..MaxRows
      BY <1>2 DEF Call
    <3> QED BY <1>3, <3>1, <3>2 DEF GateInv, TypeOK, Live, Revoked
  <2> QED BY <2>1, <2>2, <2>3
<1>5. TypeOK'
  BY <1>2, <1>3, <1>4 DEF GateInv, TypeOK, identity
<1> QED BY <1>1, <1>3, <1>4, <1>5, Answered

\* A gate opens only to a call that noted something in force.
LEMMA QueryKeeps == ASSUME GateInv, NEW t \in Slot, Query(t) PROVE GateInv'
<1> DEFINE said == IF (IF req[t].op = "verify_access" THEN VerifyAccess
                       ELSE TextAccess) THEN "allowed" ELSE "refused"
           r == Ended(req[t], said)
<1>1. /\ UNCHANGED <<ledger, identity, begun, alone>> /\ Set(t, r)
      /\ req[t] \in Call /\ req[t].op \in Reads /\ Active(t) /\ Noted(t)
  BY DEF Query, GateInv, TypeOK, Placed, Active
<1>2. Live' = Live /\ expired' = expired /\ rows' = rows
  BY <1>1 DEF Live, ledger
<1>3. r \in Call
  BY EndedType DEF GateInv
<1>4. req'[t] = r /\ r.pc = "done" /\ r.said = said /\ r.op = req[t].op
      /\ r.live = req[t].live
  BY <1>1 DEF GateInv, TypeOK, Set, Ended, Call
<1>5. TypeOK'
  BY <1>1, <1>3 DEF GateInv, TypeOK, Set, ledger, identity
<1>6. VerifyAccess => Live \ expired # {}
  BY DEF VerifyAccess
<1>7. rows > 0 /\ TextAccess => Live # {}
  BY DEF TextAccess, Live, GateInv, TypeOK
<1>8. said = "allowed" => req[t].live
  BY <1>1, <1>6, <1>7 DEF Noted, Reads
<1> HIDE DEF r, said
<1>9. Placed(t)' /\ Noted(t)' /\ Sound(t)'
  BY <1>4, <1>8 DEF Placed, Noted, Sound, Active
<1> QED BY <1>1, <1>2, <1>5, <1>9, OthersStay DEF GateInv

LEMMA ClaimsKeep ==
  ASSUME GateInv, NEW t \in Slot, ClaimLook(t) \/ ClaimResolve(t) \/ ClaimWrite(t)
  PROVE  GateInv'
<1>1. UNCHANGED <<ledger, canon, begun, alone>> /\ req[t] \in Call
      /\ req[t].pc \in {"look", "resolve", "write"} /\ req[t].op = "claim"
  BY DEF ClaimLook, ClaimResolve, ClaimWrite, GateInv, TypeOK, Placed, identity
<1>2. Live' = Live /\ expired' = expired /\ rows' = rows
  BY <1>1 DEF Live, ledger
<1>3. ASSUME NEW r \in Call, Set(t, r), owner' = owner,
             r.pc \in {"resolve", "write"}, r.op = "claim",
             r.said = req[t].said
      PROVE  GateInv'
  <2>1. TypeOK'
    BY <1>1, <1>3 DEF GateInv, TypeOK, Set, ledger
  <2> QED BY <1>1, <1>2, <1>3, <2>1, GoesOn
<1>4. CASE ClaimLook(t)
  <2> DEFINE r == [req[t] EXCEPT !.pc = "resolve", !.saw = owner]
  <2>1. owner \in Sub \cup {Nobody} /\ Set(t, r) /\ owner' = owner
    BY <1>4 DEF ClaimLook, GateInv, TypeOK, identity
  <2>2. r \in Call /\ r.pc = "resolve" /\ r.op = "claim" /\ r.said = req[t].said
    BY <1>1, <2>1 DEF Call
  <2> HIDE DEF r
  <2> QED BY <1>3, <2>1, <2>2
<1>5. CASE ClaimResolve(t)
  <2>1. PICK c \in {canon, Nobody} :
          Set(t, [req[t] EXCEPT !.pc = "write", !.canon = c])
    BY <1>5 DEF ClaimResolve
  <2> DEFINE r == [req[t] EXCEPT !.pc = "write", !.canon = c]
  <2>2. c \in Sub \cup {Nobody} /\ owner' = owner
    BY <1>5 DEF ClaimResolve, GateInv, TypeOK, identity
  <2>3. r \in Call /\ r.pc = "write" /\ r.op = "claim" /\ r.said = req[t].said
    BY <1>1, <2>2 DEF Call
  <2> QED BY <1>3, <2>1, <2>2, <2>3
<1>6. CASE ClaimWrite(t)
  <2>1. PICK said \in {"ok", "refused", "failed"} : Set(t, Ended(req[t], said))
    BY <1>6 DEF ClaimWrite
  <2>2. owner' \in Sub \cup {Nobody}
    BY <1>1, <1>6 DEF ClaimWrite, GateInv, TypeOK, Call
  <2>3. TypeOK'
    BY <1>1, <2>1, <2>2, EndedType DEF GateInv, TypeOK, Set, ledger
  <2> QED BY <1>2, <2>1, <2>3, Answered
<1> QED BY <1>4, <1>5, <1>6

\* Nothing outside a call opens a gate or forgets what was noted.
LEMMA WorldKeeps ==
  ASSUME GateInv, RequestEntitlement \/ PickUp \/ Expire \/ Repoint
  PROVE  GateInv'
<1>1. UNCHANGED <<rows, issued, request, req, owner, begun, alone>>
      /\ expired \subseteq expired'
  BY DEF RequestEntitlement, PickUp, Expire, Repoint, ledger, identity
<1>2. Live' = Live /\ Live \subseteq 1..rows
  BY <1>1 DEF Live
<1>3. TypeOK'
  BY <1>1, <1>2 DEF GateInv, TypeOK, RequestEntitlement, PickUp, Expire,
                    Repoint, ledger, identity
<1>4. ASSUME NEW t \in Slot PROVE Placed(t)' /\ Noted(t)' /\ Sound(t)'
  <2>1. Placed(t) /\ Noted(t) /\ Sound(t) /\ req'[t] = req[t]
    BY <1>1 DEF GateInv
  <2>2. Live' \ expired' # {} => Live \ expired # {}
    BY <1>1, <1>2
  <2> QED BY <1>1, <1>2, <2>1, <2>2 DEF Placed, Noted, Sound, Active
<1> QED BY <1>3, <1>4 DEF GateInv

LEMMA GateNext == GateInv /\ [Next]_vars => GateInv'
<1> SUFFICES ASSUME GateInv, [Next]_vars PROVE GateInv'
  OBVIOUS
<1>1. CASE UNCHANGED vars
  BY <1>1 DEF vars, GateInv, TypeOK, Placed, Noted, Sound, Active, Live
<1> QED BY <1>1, BeginKeeps, GateKeeps, ListKeeps, InsertKeeps, UpdatesKeep,
           QueryKeeps, ClaimsKeep, WorldKeeps DEF Next

\* The inductive invariant of the gates holds in every state.
THEOREM GateInvariant == Spec => []GateInv
BY GateInit, GateNext, PTL DEF Spec

\* Every variable keeps its shape, for any subjects, requests and slots.
THEOREM TypeCorrect == Spec => []TypeOK
<1>1. GateInv => TypeOK
  BY DEF GateInv
<1> QED BY <1>1, GateInvariant, PTL

\* A gate that lets the reader in was asked before the last revocation
\* (verify_access, get_passage_text), whatever interleaves and fails.
THEOREM LedgerAlwaysDecides == Spec => []LedgerDecides
<1>1. GateInv => LedgerDecides
  BY DEF GateInv, LedgerDecides, Sound
<1> QED BY <1>1, GateInvariant, PTL

-----------------------------------------------------------------------------
(* One console at a time *)

Serial == OneConsole /\ Decided /\ \A t \in Slot : Relies(t)

LEMMA DecisionInit == Init => DecisionInv
<1>1. Init => Serial
  BY DEF Init, Serial, OneConsole, Console, Active, Decided, Relies
<1> QED BY <1>1, GateInit DEF DecisionInv, Serial

\* While a console call runs, every other call is a query or over.
LEMMA Quiet ==
  ASSUME GateInv, OneConsole, NEW t \in Slot,
         req[t].pc \notin {"query", "done"}
  PROVE  \A u \in Slot \ {t} : req[u].pc \in {"query", "done"}
<1>1. Console(t)
  BY DEF GateInv, Placed, Console, Active
<1>2. \A u \in Slot \ {t} : ~Console(u)
  BY <1>1 DEF OneConsole
<1> QED BY <1>2 DEF GateInv, Placed, Console, Active

\* A step of a slot leaves the others' claims on the ledger and the owner
\* alone when what they are about did not change, or they are quiet.
LEMMA OneStays ==
  ASSUME OneConsole, NEW t \in Slot,
         Console(t)' => Console(t),
         \A u \in Slot \ {t} : Console(u)' => Console(u)
  PROVE  OneConsole'
BY DEF OneConsole

LEMMA BeginSerial ==
  ASSUME GateInv, Serial, alone, NEW t \in Slot, Begin(t) PROVE Serial'
<1>1. PICK op \in Op, by \in Sub, rid \in Rid, row \in Row :
        /\ op \notin Reads => \A u \in Slot : Active(u) => req[u].op \in Reads
        /\ Set(t, New(op, by, rid, row))
  BY DEF Begin, Reads
<1> DEFINE r == New(op, by, rid, row)
<1>2. r.op = op /\ r.pc \in {"gate", "look", "query"}
  BY DEF New
<1>3. req'[t] = r /\ (\A u \in Slot \ {t} : req'[u] = req[u]) /\ req[t].pc = "done"
  BY <1>1 DEF GateInv, TypeOK, Set, Begin, Active
<1>4. UNCHANGED <<status, rows, request, owner, canon>>
  BY DEF Begin, ledger, identity
<1> HIDE DEF r
<1>5. OneConsole'
  BY <1>1, <1>2, <1>3 DEF Serial, OneConsole, Console, Active
<1>6. Decided'
  BY <1>3, <1>4 DEF Serial, Decided
<1>7. \A u \in Slot : Relies(u)'
  BY <1>2, <1>3, <1>4 DEF Serial, Relies
<1> QED BY <1>5, <1>6, <1>7 DEF Serial

\* A step that changes neither the decisions nor the owner, of a call that
\* neither was nor is in the middle of deciding or claiming.
LEMMA PlainStep ==
  ASSUME GateInv, Serial, NEW t \in Slot, NEW r, Set(t, r),
         r.op = req[t].op, req[t].pc \notin {"done", "mark"},
         r.pc \notin {"insert", "mark", "resolve", "write"},
         UNCHANGED <<status, rows, request, owner, canon>>
  PROVE  Serial'
<1>1. req'[t] = r /\ \A u \in Slot \ {t} : req'[u] = req[u]
  BY DEF GateInv, TypeOK, Set
<1>2. OneConsole'
  BY <1>1, OneStays DEF Serial, Console, Active
<1>3. Decided'
  BY <1>1 DEF Serial, Decided
<1>4. \A u \in Slot : Relies(u)'
  BY <1>1 DEF Serial, Relies
<1> QED BY <1>2, <1>3, <1>4 DEF Serial

LEMMA EndedFields ==
  ASSUME TypeOK, NEW t \in Slot, NEW said
  PROVE  Ended(req[t], said).pc = "done" /\ Ended(req[t], said).op = req[t].op
BY DEF TypeOK, Ended, Call

LEMMA GateListSerial ==
  ASSUME GateInv, Serial, alone, NEW t \in Slot, Gate(t) \/ List(t)
  PROVE  Serial'
<1>1. /\ UNCHANGED <<status, rows, request, owner, canon>> /\ req[t] \in Call
      /\ req[t].pc \in {"gate", "list"}
  BY DEF Gate, List, ledger, identity, GateInv, TypeOK
<1>2. ASSUME NEW pc \in {"list", "update"}, Set(t, [req[t] EXCEPT !.pc = pc])
      PROVE  Serial'
  <2> DEFINE r == [req[t] EXCEPT !.pc = pc]
  <2>1. r.op = req[t].op /\ r.pc = pc
    BY <1>1 DEF Call
  <2> HIDE DEF r
  <2>2. Set(t, r)
    BY <1>2 DEF r
  <2> QED BY <1>1, <2>1, <2>2, PlainStep
<1>3. ASSUME Set(t, Ended(req[t], "refused")) PROVE Serial'
  BY <1>1, <1>3, EndedFields, PlainStep DEF GateInv
<1>4. ASSUME List(t), status[req[t].rid] = "pending",
             Set(t, [req[t] EXCEPT !.pc = "insert"])
      PROVE  Serial'
  <2>1. /\ req'[t].pc = "insert" /\ req'[t].rid = req[t].rid
        /\ req'[t].op = req[t].op
        /\ \A u \in Slot \ {t} : req'[u] = req[u]
    BY <1>1, <1>4 DEF GateInv, TypeOK, Set, Call
  <2>2. \A u \in Slot \ {t} : req[u].pc \in {"query", "done"}
    BY <1>1, Quiet DEF Serial
  <2>3. req[t].pc = "list"
    BY <1>4 DEF List
  <2>4. \A i \in 1..rows : request[i] # req[t].rid
    BY <1>4, <2>2, <2>3 DEF Serial, Decided
  <2>5. OneConsole'
    BY <2>1, <2>3, OneStays DEF Serial, Console, Active
  <2>6. Decided'
    BY <1>1, <2>1, <2>3 DEF Serial, Decided
  <2>7. \A u \in Slot : Relies(u)'
    BY <1>1, <1>4, <2>1, <2>2, <2>4 DEF Relies
  <2> QED BY <2>5, <2>6, <2>7 DEF Serial
<1>5. CASE Gate(t)
  BY <1>2, <1>3, <1>5 DEF Gate, Fails
<1>6. CASE List(t)
  BY <1>3, <1>4, <1>6 DEF List, Fails
<1> QED BY <1>5, <1>6

LEMMA InsertSerial ==
  ASSUME GateInv, Serial, alone, NEW t \in Slot, Insert(t) PROVE Serial'
<1>1. /\ rows < MaxRows /\ rows' = rows + 1 /\ rows \in Nat
      /\ request' = [request EXCEPT ![rows'] = req[t].rid]
      /\ UNCHANGED <<status, owner, canon>>
      /\ req[t].pc = "insert" /\ req[t] \in Call
      /\ request \in [1..MaxRows -> Rid]
  BY DEF Insert, Fails, identity, GateInv, TypeOK
<1>2. ASSUME NEW u \in Slot
      PROVE  /\ u = t => /\ req'[u].pc = "mark" /\ req'[u].row = rows'
                         /\ req'[u].op = req[t].op /\ req'[u].rid = req[t].rid
             /\ u # t => /\ req'[u].pc = req[u].pc /\ req'[u].op = req[u].op
  <2>1. req[u] \in Call
    BY DEF GateInv, TypeOK
  <2>2. req' = [v \in Slot |-> IF v = t
                 THEN [req[t] EXCEPT !.pc = "mark", !.row = rows']
                 ELSE [req[v] EXCEPT !.live = TRUE]]
    BY DEF Insert, Fails
  <2>3. CASE u = t
    BY <1>1, <2>2, <2>3 DEF Call
  <2>4. CASE u # t
    BY <2>1, <2>2, <2>4 DEF Call
  <2> QED BY <2>3, <2>4
<1>3. \A u \in Slot \ {t} : req[u].pc \in {"query", "done"}
  BY <1>1, Quiet DEF Serial
<1>4. /\ status[req[t].rid] = "pending"
      /\ \A i \in 1..rows : request[i] # req[t].rid
  BY <1>1 DEF Serial, Relies
<1>5. /\ \A i \in 1..rows' : i = rows' \/ i \in 1..rows
      /\ \A i \in 1..rows : request'[i] = request[i] /\ i # rows'
      /\ request'[rows'] = req[t].rid
  BY <1>1 DEF GateInv, TypeOK
<1>6. OneConsole'
  BY <1>1, <1>2, OneStays DEF Serial, Console, Active
<1>7. \A i \in 1..rows : status[request[i]] = "granted"
  BY <1>1, <1>3 DEF Serial, Decided
<1>8. Decided'
  BY <1>1, <1>2, <1>4, <1>5, <1>7 DEF Serial, Decided
<1>9. \A u \in Slot : Relies(u)'
  BY <1>1, <1>2, <1>3, <1>4, <1>5 DEF Relies
<1> QED BY <1>6, <1>8, <1>9 DEF Serial

LEMMA UpdatesSerial ==
  ASSUME GateInv, Serial, alone, NEW t \in Slot,
         Mark(t) \/ Deny(t) \/ Revoke(t)
  PROVE  Serial'
<1>1. /\ Set(t, Ended(req[t], "ok")) /\ UNCHANGED <<rows, request, owner, canon>>
      /\ req[t].pc \in {"mark", "update"} /\ req[t] \in Call
  BY DEF Mark, Deny, Revoke, Fails, identity, GateInv, TypeOK
<1>2. /\ req'[t].pc = "done" /\ \A u \in Slot \ {t} : req'[u] = req[u]
  BY <1>1, EndedFields DEF GateInv, TypeOK, Set
<1>3. \A u \in Slot \ {t} : req[u].pc \in {"query", "done"}
  BY <1>1, Quiet DEF Serial
<1>4. OneConsole'
  BY <1>2, OneStays DEF Serial, Console, Active
<1>5. \A u \in Slot : Relies(u)'
  BY <1>2, <1>3 DEF Relies
<1>6. \A i \in 1..rows : request[i] \in Rid
  BY DEF GateInv, TypeOK
<1>7. \A i \in 1..rows : \/ status[request[i]] = "granted"
                         \/ req[t].pc = "mark" /\ req[t].row = i
  BY <1>3 DEF Serial, Decided
<1>8. \A i \in 1..rows : status'[request[i]] = "granted"
  <2>1. CASE Mark(t)
    BY <1>1, <1>6, <1>7, <2>1 DEF Mark, Fails, GateInv, TypeOK, Serial, Relies, Call
  <2>2. CASE Deny(t)
    BY <1>6, <1>7, <2>2 DEF Deny, Fails, Denied, GateInv, TypeOK
  <2>3. CASE Revoke(t)
    BY <1>7, <2>3 DEF Revoke
  <2> QED BY <2>1, <2>2, <2>3
<1>9. Decided'
  BY <1>1, <1>8 DEF Serial, Decided
<1> QED BY <1>4, <1>5, <1>9 DEF Serial

LEMMA QuerySerial ==
  ASSUME GateInv, Serial, NEW t \in Slot, Query(t) PROVE Serial'
<1>1. PICK said \in {"allowed", "refused"} : Set(t, Ended(req[t], said))
  BY DEF Query
<1>2. /\ UNCHANGED <<status, rows, request, owner, canon>>
      /\ req[t].pc = "query"
  BY DEF Query, ledger, identity
<1> QED BY <1>1, <1>2, EndedFields, PlainStep DEF GateInv

LEMMA ClaimsSerial ==
  ASSUME GateInv, Serial, alone, NEW t \in Slot,
         ClaimLook(t) \/ ClaimResolve(t) \/ ClaimWrite(t)
  PROVE  Serial'
<1>1. /\ UNCHANGED <<status, rows, request, canon>> /\ req[t] \in Call
      /\ req[t].pc \in {"look", "resolve", "write"}
  BY DEF ClaimLook, ClaimResolve, ClaimWrite, ledger, identity, GateInv, TypeOK
<1>2. \A u \in Slot \ {t} : req[u].pc \in {"query", "done"}
  BY <1>1, Quiet DEF Serial
<1>3. \A u \in Slot \ {t} : req'[u] = req[u]
  BY DEF ClaimLook, ClaimResolve, ClaimWrite, Set, GateInv, TypeOK
<1>4. req'[t].op = req[t].op /\ req'[t].pc \in {"resolve", "write", "done"}
      /\ (req'[t].pc \in {"resolve", "write"} => req'[t].saw = owner')
      /\ (req'[t].pc = "write" => req'[t].canon = canon')
  <2>1. CASE ClaimLook(t)
    BY <1>1, <2>1 DEF ClaimLook, Set, GateInv, TypeOK, Call, identity
  <2>2. CASE ClaimResolve(t)
    <3>1. Set(t, [req[t] EXCEPT !.pc = "write", !.canon = canon])
      BY <2>2 DEF ClaimResolve
    <3>2. req[t].saw = owner /\ owner' = owner
      BY <2>2 DEF ClaimResolve, Serial, Relies, identity
    <3> QED BY <1>1, <3>1, <3>2 DEF Set, GateInv, TypeOK, Call
  <2>3. CASE ClaimWrite(t)
    <3>1. PICK said \in {"ok", "refused", "failed"} : Set(t, Ended(req[t], said))
      BY <2>3 DEF ClaimWrite
    <3>2. req'[t] = Ended(req[t], said)
      BY <3>1 DEF Set, GateInv, TypeOK
    <3> QED BY <3>2, EndedFields DEF GateInv
  <2> QED BY <2>1, <2>2, <2>3
<1>5. OneConsole'
  BY <1>1, <1>3, <1>4, OneStays DEF Serial, Console, Active
<1>6. Decided'
  BY <1>1, <1>2, <1>3 DEF Serial, Decided
<1>7. \A u \in Slot : Relies(u)'
  BY <1>1, <1>2, <1>3, <1>4 DEF Relies
<1> QED BY <1>5, <1>6, <1>7 DEF Serial

LEMMA WorldSerial ==
  ASSUME GateInv, Serial, alone,
         RequestEntitlement \/ PickUp \/ Expire \/ Repoint
  PROVE  Serial'
<1>1. UNCHANGED <<rows, request, req, owner>>
  BY DEF RequestEntitlement, PickUp, Expire, Repoint, ledger, identity
<1>2. \A r \in Rid : status[r] # "none" => status'[r] = status[r]
  BY DEF RequestEntitlement, PickUp, Expire, Repoint, ledger, GateInv, TypeOK
<1>3. \A t \in Slot : req[t].pc = "write" => canon' = canon
  BY DEF RequestEntitlement, PickUp, Expire, Repoint, identity, GateInv,
         Placed, Active
<1>4. \A i \in 1..rows : request[i] \in Rid
  BY DEF GateInv, TypeOK
<1>5. \A t \in Slot : req[t].rid \in Rid
  BY DEF GateInv, TypeOK, Call
<1>6. OneConsole'
  BY <1>1 DEF Serial, OneConsole, Console, Active
<1>7. Decided'
  BY <1>1, <1>2, <1>4 DEF Serial, Decided
<1>8. \A t \in Slot : Relies(t)'
  BY <1>1, <1>2, <1>3, <1>5 DEF Serial, Relies
<1> QED BY <1>6, <1>7, <1>8 DEF Serial

LEMMA DecisionNext == DecisionInv /\ [Next]_vars => DecisionInv'
<1> SUFFICES ASSUME DecisionInv, [Next]_vars PROVE DecisionInv'
  OBVIOUS
<1>1. GateInv /\ GateInv'
  BY GateNext DEF DecisionInv
<1>2. alone' = alone
  BY DEF Next, vars, Begin, Gate, List, Insert, Mark, Deny, Revoke, Query,
         ClaimLook, ClaimResolve, ClaimWrite, RequestEntitlement, PickUp,
         Expire, Repoint
<1>3. ASSUME alone PROVE Serial'
  <2>1. Serial
    BY <1>3 DEF DecisionInv, Serial
  <2>2. CASE UNCHANGED vars
    BY <2>1, <2>2 DEF vars, Serial, OneConsole, Console, Active, Decided, Relies
  <2> QED BY <1>1, <1>3, <2>1, <2>2, BeginSerial, GateListSerial, InsertSerial,
             UpdatesSerial, QuerySerial, ClaimsSerial, WorldSerial DEF Next
<1> QED BY <1>1, <1>2, <1>3 DEF DecisionInv, Serial

\* The inductive invariant of the console holds in every state.
THEOREM DecisionInvariant == Spec => []DecisionInv
BY DecisionInit, DecisionNext, PTL DEF Spec

\* With one console at work a request is decided once: at most one
\* entitlement, and none for a denied one (approve, deny, issue_entitlement).
THEOREM DecidedOnce == Spec => []OneDecision
<1>1. DecisionInv => OneDecision
  BY DEF DecisionInv, GateInv, OneDecision, Decided, Relies
<1> QED BY <1>1, DecisionInvariant, PTL

\* An owner the name resolves to is not displaced (claim_service).
THEOREM CanonicalAlwaysStays == Spec => CanonicalStays
<1>1. ASSUME DecisionInv, [Next]_vars, alone, owner = canon, canon' = canon
      PROVE  owner' = owner
  <2>1. CASE \E t \in Slot : ClaimWrite(t)
    <3>1. PICK t \in Slot : ClaimWrite(t)
      BY <2>1
    <3>2. req[t].saw = owner /\ req[t].canon = canon /\ canon \in Sub
      BY <1>1, <3>1 DEF DecisionInv, Relies, ClaimWrite, GateInv, TypeOK
    <3> QED BY <1>1, <3>1, <3>2 DEF ClaimWrite, MayTake, Authorized
  <2>2. CASE ~ \E t \in Slot : ClaimWrite(t)
    BY <1>1, <2>2 DEF Next, vars, Begin, Gate, List, Insert, Mark, Deny, Revoke,
       Query, ClaimLook, ClaimResolve, RequestEntitlement, PickUp, Expire,
       Repoint, identity
  <2> QED BY <2>1, <2>2
<1>2. DecisionInv /\ [Next]_vars
        => [alone /\ owner = canon /\ canon' = canon => owner' = owner]_vars
  BY <1>1
<1> QED BY <1>2, DecisionInvariant, PTL DEF Spec, CanonicalStays
=============================================================================
