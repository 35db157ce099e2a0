------------------------ MODULE VaultRecords_proofs ------------------------
(***************************************************************************)
(* VaultRecords, for any agents, credentials, slots and number of requests:*)
(* its type invariant, and that what was answered saved is kept.  ShapeInv *)
(* holds whatever interleaves; KeptInv adds, for one request at a time,    *)
(* that the list a request is about to write bears what was told saved and *)
(* is not taken out by that request, and that so does the page's list      *)
(* whenever its form can be used.                                          *)
(***************************************************************************)
EXTENDS VaultRecords, TLAPS

Relating == {"upsert", "attach"}

\* What kind of thing a request works on, by its operation.
Shaped(r) ==
  /\ r.op = "upsert" => r.item \in Agent
  /\ r.op = "attach" => r.item \in Link
  /\ r.op \in Relating => r.list \subseteq Related
  /\ r.op \notin Relating => r.item \in Credential /\ r.list \subseteq Credential
  /\ r.op = "load" => r.phase = "read"
  /\ r.op \in {"add", "remove"} => r.phase = "write"
  /\ r.pc = "activate" => r.op = "upsert"

ShapeInv == TypeOK /\ \A t \in Slot : Shaped(req[t])

OneAtATime == \A t, u \in Slot : Active(t) /\ Active(u) => t = u

\* A list bears what its own save carries, and of what was told saved all that
\* the save does not take out.
Bears(r, saved) ==
  /\ Carried(r) \subseteq r.list
  /\ world # "garbled" => (saved \cap Related) \ Cleared(r) \subseteq r.list

\* So does a list of relationships that is about to be written.
Carries(t) ==
  Active(t) /\ req[t].phase = "write" /\ req[t].op \in Relating =>
    Bears(req[t], told)

\* So does one of entitlements when no call fails; and a fresh delegation is
\* a live one.
CarriesCalm(t) ==
  /\ Active(t) /\ req[t].op = "add" =>
       /\ req[t].item \in req[t].list
       /\ told \cap Credential \subseteq req[t].list
  /\ Active(t) /\ req[t].op = "remove" =>
       (told \cap Credential) \ {req[t].item} \subseteq req[t].list
  /\ Active(t) /\ req[t].fresh /\ req[t].pc # "present" => wire = "live"

\* The list in the page, when its form can be used.
Page ==
  /\ ~self => wire = "live"
  /\ form = "open" /\ (\A t \in Slot : Active(t) => req[t].op # "load")
       => told \cap Credential \subseteq view

Kept ==
  /\ OneAtATime /\ \A t \in Slot : Carries(t)
  /\ world # "garbled" => told \cap Related \subseteq row["relationships"]
  /\ world = "calm" => /\ told \cap Credential \subseteq row["entitlements"]
                       /\ Page /\ \A t \in Slot : CarriesCalm(t)

KeptInv == ShapeInv /\ (alone => Kept)

USE VaultConstants

-----------------------------------------------------------------------------
(* What the steps make of a request *)

LEMMA IdleShaped == Idle \in Request /\ Shaped(Idle) /\ Idle.pc = "done"
<1>1. (CHOOSE a \in Agent : TRUE) \in Agent
  OBVIOUS
<1> QED BY <1>1 DEF Idle, Request, Op, Item, Shaped, Related, Relating

LEMMA CallShaped ==
  ASSUME NEW r \in Request, Shaped(r), NEW phase \in {"read", "write"},
         NEW list, list \subseteq IF r.op \in Relating THEN Related ELSE Credential,
         r.op = "load" => phase = "read",
         r.op \in {"add", "remove"} => phase = "write"
  PROVE  /\ Call(r, phase, list) \in Request /\ Shaped(Call(r, phase, list))
         /\ Call(r, phase, list).op = r.op /\ Call(r, phase, list).item = r.item
         /\ Call(r, phase, list).phase = phase /\ Call(r, phase, list).list = list
         /\ Call(r, phase, list).pc = "present"
         /\ Call(r, phase, list).healed = r.healed
         /\ Call(r, phase, list).wired = r.wired
         /\ ~Call(r, phase, list).fresh
<1>1. list \subseteq Item
  BY DEF Item, Related
<1> QED BY <1>1 DEF Call, Request, Shaped

LEMMA PcShaped ==
  ASSUME NEW r \in Request, Shaped(r),
         NEW pc \in {"present", "verify", "gate", "touch"}
  PROVE  /\ [r EXCEPT !.pc = pc] \in Request /\ Shaped([r EXCEPT !.pc = pc])
         /\ [r EXCEPT !.pc = pc].pc = pc
         /\ [r EXCEPT !.pc = pc].op = r.op /\ [r EXCEPT !.pc = pc].item = r.item
         /\ [r EXCEPT !.pc = pc].list = r.list
         /\ [r EXCEPT !.pc = pc].phase = r.phase
         /\ [r EXCEPT !.pc = pc].fresh = r.fresh
         /\ [r EXCEPT !.pc = pc].wired = r.wired
BY DEF Request, Shaped

\* An error is retried after an activation by an upsert, else reported.
LEMMA ThrownShaped ==
  ASSUME NEW r \in Request, Shaped(r)
  PROVE  /\ Thrown(r) \in Request /\ Shaped(Thrown(r))
         /\ \/ Thrown(r).pc = "done"
            \/ /\ Thrown(r).pc = "activate" /\ r.op = "upsert"
               /\ Thrown(r).op = r.op /\ Thrown(r).item = r.item
               /\ Thrown(r).list = r.list /\ Thrown(r).phase = r.phase
               /\ Thrown(r).fresh = r.fresh /\ Thrown(r).wired = r.wired
<1>1. CASE r.op = "upsert" /\ ~r.healed
  BY <1>1 DEF Thrown, Request, Shaped
<1>2. CASE ~(r.op = "upsert" /\ ~r.healed)
  BY <1>2, IdleShaped DEF Thrown
<1> QED BY <1>1, <1>2

LEMMA RejectedShaped ==
  ASSUME NEW r \in Request, Shaped(r)
  PROVE  /\ Rejected(r) \in Request /\ Shaped(Rejected(r))
         /\ \/ ~(self /\ ~r.fresh) /\ Rejected(r) = Thrown(r)
            \/ /\ self /\ ~r.fresh
               /\ Rejected(r).pc = "present" /\ Rejected(r).op = r.op
               /\ Rejected(r).item = r.item /\ Rejected(r).list = r.list
               /\ Rejected(r).phase = r.phase /\ Rejected(r).wired = r.wired
<1>1. CASE self /\ ~r.fresh
  BY <1>1 DEF Rejected, Request, Shaped
<1>2. CASE ~(self /\ ~r.fresh)
  BY <1>2, ThrownShaped DEF Rejected
<1> QED BY <1>1, <1>2

-----------------------------------------------------------------------------
(* The shape of things *)

LEMMA ShapeInit == Init => ShapeInv
<1> SUFFICES ASSUME Init PROVE ShapeInv
  OBVIOUS
<1>1. TypeOK
  BY IdleShaped DEF Init, TypeOK, Record, Item, Related, Link
<1> QED BY <1>1, IdleShaped DEF Init, ShapeInv

LEMMA ShapeStep ==
  ASSUME ShapeInv, NEW t \in Slot, NEW r \in Request, Shaped(r), Set(t, r),
         row' \in [Record -> SUBSET Item],
         row'["relationships"] \subseteq Related,
         row'["entitlements"] \subseteq Credential,
         bound' \in {"none", "narrow", "full"},
         wire' \in {"none", "live", "dead"},
         view' \subseteq Credential, form' \in {"closed", "open", "hidden"},
         told' \subseteq Item, begun' \in 0..MaxBegins, UNCHANGED setting
  PROVE  ShapeInv'
<1>1. req' \in [Slot -> Request] /\ \A u \in Slot : Shaped(req'[u])
  BY DEF ShapeInv, TypeOK, Set
<1>2. TypeOK'
  BY <1>1 DEF ShapeInv, TypeOK, setting, Related
<1> QED BY <1>1, <1>2 DEF ShapeInv

LEMMA ShapeNow ==
  ASSUME ShapeInv
  PROVE  /\ row \in [Record -> SUBSET Item]
         /\ row["relationships"] \subseteq Related
         /\ row["entitlements"] \subseteq Credential
         /\ bound \in {"none", "narrow", "full"}
         /\ wire \in {"none", "live", "dead"}
         /\ view \subseteq Credential /\ form \in {"closed", "open", "hidden"}
         /\ told \subseteq Item /\ begun \in 0..MaxBegins
         /\ \A t \in Slot : req[t] \in Request /\ Shaped(req[t])
BY DEF ShapeInv, TypeOK, Related

\* The record a request begins as.
LEMMA NewShaped ==
  ASSUME NEW op \in Op, NEW i \in Item, NEW wired \in BOOLEAN, NEW phase \in {"read", "write"}, NEW list,
         op = "upsert" => i \in Agent, op = "attach" => i \in Link,
         op \notin Relating => i \in Credential,
         list \subseteq IF op \in Relating THEN Related ELSE Credential,
         op = "load" => phase = "read", op \in {"add", "remove"} => phase = "write"
  PROVE  /\ New(op, i, wired, phase, list) \in Request /\ Shaped(New(op, i, wired, phase, list))
         /\ New(op, i, wired, phase, list).op = op /\ New(op, i, wired, phase, list).item = i
         /\ New(op, i, wired, phase, list).phase = phase
         /\ New(op, i, wired, phase, list).list = list
         /\ New(op, i, wired, phase, list).pc = "present"
         /\ ~New(op, i, wired, phase, list).fresh
<1> DEFINE r == [Idle EXCEPT !.op = op, !.item = i, !.wired = wired]
<1>1. r \in Request /\ r.op = op /\ r.item = i /\ r.pc = "done"
      /\ r.list = {}
  BY IdleShaped DEF Request, Idle
<1>2. list \subseteq Item
  BY DEF Item, Related
<1> QED BY <1>1, <1>2 DEF New, Call, Request, Shaped

\* What Begin begins.
LEMMA BeginIs ==
  ASSUME ShapeInv, NEW t \in Slot, Begin(t)
  PROVE  \E r \in Request :
           /\ Set(t, r) /\ Shaped(r) /\ r.pc = "present" /\ ~r.fresh
           /\ \/ r.op \in Relating /\ r.phase = "read" /\ UNCHANGED page
              \/ r.op = "load" /\ form' = "open" /\ view' = view
              \/ /\ form = "open" /\ UNCHANGED page
                 /\ r.op \in {"add", "remove"}
                 /\ r.list = IF r.op = "add" THEN view \cup {r.item}
                             ELSE view \ {r.item}
<1>1. PICK op \in Op, i \in Item :
       \/ /\ \/ /\ op = "upsert" /\ i \in Agent
                /\ \E wired \in BOOLEAN : Set(t, New(op, i, wired, "read", {}))
             \/ /\ op = "attach" /\ i \in Link /\ ~self
                /\ Set(t, New(op, i, FALSE, "read", {}))
          /\ UNCHANGED page
       \/ /\ op = "load" /\ i \in Credential /\ bound # "none"
          /\ Set(t, New(op, i, FALSE, "read", {}))
          /\ form' = "open" /\ UNCHANGED view
       \/ /\ form = "open" /\ ~Busy
          /\ \/ op = "add" /\ i \in Credential
             \/ op = "remove" /\ i \in view
          /\ Set(t, New(op, i, FALSE, "write",
                         IF op = "add" THEN view \cup {i} ELSE view \ {i}))
          /\ UNCHANGED page
  BY DEF Begin
<1>2. CASE /\ \/ op = "upsert" /\ i \in Agent
              \/ op = "attach" /\ i \in Link
           /\ \E wired \in BOOLEAN : Set(t, New(op, i, wired, "read", {}))
           /\ UNCHANGED page
  <2>0. PICK wired \in BOOLEAN : Set(t, New(op, i, wired, "read", {}))
    BY <1>2
  <2> DEFINE r == New(op, i, wired, "read", {})
  <2>1. /\ r \in Request /\ Shaped(r) /\ r.op = op /\ r.phase = "read"
        /\ r.pc = "present" /\ ~r.fresh
    BY <1>2, NewShaped DEF Relating
  <2> QED BY <1>2, <2>0, <2>1 DEF Relating
<1>3. CASE /\ op = "load" /\ i \in Credential
           /\ Set(t, New(op, i, FALSE, "read", {}))
           /\ form' = "open" /\ UNCHANGED view
  <2>0. PICK no \in BOOLEAN : no = FALSE
    OBVIOUS
  <2> DEFINE r == New(op, i, no, "read", {})
  <2>1. /\ r \in Request /\ Shaped(r) /\ r.op = op
        /\ r.pc = "present" /\ ~r.fresh
    BY <1>3, NewShaped DEF Op, Relating
  <2>2. Set(t, r)
    BY <1>3, <2>0
  <2> HIDE DEF r
  <2> QED BY <1>3, <2>1, <2>2
<1>4. CASE /\ form = "open"
           /\ \/ op = "add" /\ i \in Credential
              \/ op = "remove" /\ i \in view
           /\ Set(t, New(op, i, FALSE, "write",
                          IF op = "add" THEN view \cup {i} ELSE view \ {i}))
           /\ UNCHANGED page
  <2> DEFINE list == IF op = "add" THEN view \cup {i} ELSE view \ {i}
  <2>0. PICK no \in BOOLEAN : no = FALSE
    OBVIOUS
  <2>1. i \in Credential /\ list \subseteq Credential
    BY <1>4, ShapeNow
  <2> DEFINE r == New(op, i, no, "write", list)
  <2>2. Set(t, r)
    BY <1>4, <2>0
  <2>3. list = IF op = "add" THEN view \cup {i} ELSE view \ {i}
    OBVIOUS
  <2> HIDE DEF list
  <2>4. /\ r \in Request /\ Shaped(r) /\ r.op = op /\ r.item = i
        /\ r.list = list /\ r.pc = "present" /\ ~r.fresh
    BY <1>4, <2>1, NewShaped DEF Relating
  <2> HIDE DEF r
  <2> QED BY <1>4, <2>2, <2>3, <2>4
<1> QED BY <1>1, <1>2, <1>3, <1>4

LEMMA BeginShape == ASSUME ShapeInv, NEW t \in Slot, Begin(t) PROVE ShapeInv'
<1>1. PICK r \in Request :
        /\ Set(t, r) /\ Shaped(r) /\ r.pc = "present" /\ ~r.fresh
        /\ \/ r.op \in Relating /\ r.phase = "read" /\ UNCHANGED page
           \/ r.op = "load" /\ form' = "open" /\ view' = view
           \/ /\ form = "open" /\ UNCHANGED page
              /\ r.op \in {"add", "remove"}
              /\ r.list = IF r.op = "add" THEN view \cup {r.item}
                          ELSE view \ {r.item}
  BY BeginIs
<1>2. /\ UNCHANGED <<row, bound, wire, told, setting>>
      /\ begun' \in 0..MaxBegins
  BY DEF Begin, ShapeInv, TypeOK
<1>3. view' = view /\ form' \in {"closed", "open", "hidden"}
  BY <1>1, ShapeNow DEF page
<1> QED BY <1>1, <1>2, <1>3, ShapeNow, ShapeStep

\* The steps before the vault is touched move, end or retry the request.
LEMMA CallsShape ==
  ASSUME ShapeInv, NEW t \in Slot, Present(t) \/ Verify(t) \/ Gate(t)
  PROVE  ShapeInv'
<1>1. req[t] \in Request /\ Shaped(req[t])
  BY ShapeNow
<1>2. \E r \in Request : Set(t, r) /\ Shaped(r)
  <2>1. \/ \E pc \in {"verify", "gate", "touch"} : Set(t, [req[t] EXCEPT !.pc = pc])
        \/ Set(t, Thrown(req[t])) \/ Set(t, Rejected(req[t]))
    BY DEF Present, Verify, Gate
  <2> QED BY <1>1, <2>1, PcShaped, ThrownShaped, RejectedShaped
<1>3. /\ UNCHANGED <<row, bound, told, begun, setting, view>>
      /\ wire' \in {"none", "live", "dead"}
      /\ form' \in {"closed", "open", "hidden"}
  BY ShapeNow DEF Present, Verify, Gate, page
<1> QED BY <1>2, <1>3, ShapeNow, ShapeStep

\* What a read that returned a list goes on with.
LEMMA LoadedShaped ==
  ASSUME NEW r \in Request, Shaped(r), r.phase = "read",
         NEW list, list \subseteq IF r.op \in Relating THEN Related ELSE Credential
  PROVE  LET l == Loaded(r, list) IN
         /\ l \in Request /\ Shaped(l)
         /\ l.pc # "done" =>
              /\ l.op \in Relating /\ l.op = r.op /\ l.pc = "present"
              /\ Carried(l) \subseteq l.list /\ list \ Cleared(l) \subseteq l.list
<1>1. CASE r.op = "upsert"
  <2> DEFINE l == Merged(list, r)
             c == Call(r, "write", l)
  <2>1. r.item \in Agent /\ list \subseteq Related
    BY <1>1 DEF Shaped, Relating
  <2>2. Carried(r) \subseteq Related
    BY <1>1, <2>1 DEF Carried, Related, Grant
  <2>3. l \subseteq Related /\ Carried(r) \subseteq l /\ list \ Cleared(r) \subseteq l
    BY <2>1, <2>2 DEF Merged
  <2>4. Loaded(r, list) = c
    BY <1>1 DEF Loaded
  <2> HIDE DEF l
  <2>5. /\ c \in Request /\ Shaped(c) /\ c.op = r.op /\ c.item = r.item
        /\ c.list = l /\ c.pc = "present" /\ c.wired = r.wired
    BY <1>1, <2>3, CallShaped DEF Relating
  <2> HIDE DEF c
  <2>6. Carried(c) = Carried(r) /\ Cleared(c) = Cleared(r)
    BY <2>5 DEF Carried, Cleared
  <2> QED BY <1>1, <2>3, <2>4, <2>5, <2>6 DEF Relating
<1>2. CASE r.op = "attach" /\ r.item.of \in list
  <2> DEFINE l == list \cup {r.item}
             c == Call(r, "write", l)
  <2>1. l \subseteq Related /\ r.item \in l /\ list \subseteq l
    BY <1>2 DEF Shaped, Related, Relating
  <2>2. Loaded(r, list) = c
    BY <1>2 DEF Loaded
  <2> HIDE DEF l
  <2>3. /\ c \in Request /\ Shaped(c) /\ c.op = r.op /\ c.item = r.item
        /\ c.list = l /\ c.pc = "present"
    BY <1>2, <2>1, CallShaped DEF Relating
  <2> HIDE DEF c
  <2>4. Carried(c) = {r.item}
    BY <1>2, <2>3 DEF Carried
  <2> QED BY <1>2, <2>1, <2>2, <2>3, <2>4 DEF Relating
<1>3. CASE r.op # "upsert" /\ ~(r.op = "attach" /\ r.item.of \in list)
  <2>1. Loaded(r, list) = Idle
    BY <1>3 DEF Loaded
  <2> QED BY <2>1, IdleShaped
<1> QED BY <1>1, <1>2, <1>3

\* The record a read returns is the one its operation works on.
LEMMA ReadIs ==
  ASSUME ShapeInv, NEW t \in Slot
  PROVE  /\ row[RecordOf(req[t].op)] =
              IF req[t].op \in Relating THEN row["relationships"] ELSE row["entitlements"]
         /\ row[RecordOf(req[t].op)] \subseteq
              IF req[t].op \in Relating THEN Related ELSE Credential
BY ShapeNow DEF RecordOf, Relating

\* A read goes on with a list of its record, as it is or taken for empty.
LEMMA ListShape ==
  ASSUME ShapeInv, NEW t \in Slot, req[t].phase = "read",
         NEW list, list \subseteq IF req[t].op \in Relating THEN Related ELSE Credential,
         Set(t, Loaded(req[t], list)),
         view' = IF req[t].op = "load" THEN list ELSE view
  PROVE  /\ view' \subseteq Credential
         /\ \E r \in Request : Set(t, r) /\ Shaped(r)
<1>1. req[t] \in Request /\ Shaped(req[t])
  BY ShapeNow
<1>2. view' \subseteq Credential
  BY ShapeNow DEF Relating
<1>3. Loaded(req[t], list) \in Request /\ Shaped(Loaded(req[t], list))
  BY <1>1, LoadedShaped
<1> QED BY <1>2, <1>3

LEMMA ReadShape ==
  ASSUME ShapeInv, NEW t \in Slot, Read(t) \/ Garbled(t) PROVE ShapeInv'
<1>1. req[t] \in Request /\ Shaped(req[t])
  BY ShapeNow
<1>2. UNCHANGED <<row, bound, wire, form, told, begun, setting>>
  BY DEF Read, Garbled
<1>3. CASE Set(t, Thrown(req[t])) /\ view' = view
  BY <1>1, <1>2, <1>3, ThrownShaped, ShapeNow, ShapeStep
<1>4. ASSUME req[t].phase = "read",
             NEW list \in {{}, row[RecordOf(req[t].op)]},
             Set(t, Loaded(req[t], list)),
             view' = IF req[t].op = "load" THEN list ELSE view
      PROVE  ShapeInv'
  <2>1. list \subseteq IF req[t].op \in Relating THEN Related ELSE Credential
    BY ReadIs
  <2>2. view' \subseteq Credential /\ \E r \in Request : Set(t, r) /\ Shaped(r)
    BY <1>4, <2>1, ListShape
  <2> QED BY <1>2, <2>2, ShapeNow, ShapeStep
<1> QED BY <1>3, <1>4 DEF Read, Garbled

\* A row that is stored is the list of its own record.
LEMMA StoredIs ==
  ASSUME ShapeInv, NEW t \in Slot
  PROVE  /\ Stored(req[t]) \in [Record -> SUBSET Item]
         /\ Stored(req[t])["relationships"] =
              IF req[t].op \in Relating THEN req[t].list ELSE row["relationships"]
         /\ Stored(req[t])["entitlements"] =
              IF req[t].op \in Relating THEN row["entitlements"] ELSE req[t].list
<1>1. req[t] \in Request /\ row \in [Record -> SUBSET Item]
      /\ req[t].list \in SUBSET Item
  BY ShapeNow DEF Request
<1> QED BY <1>1 DEF Stored, RecordOf, Record, Relating

LEMMA WriteShape == ASSUME ShapeInv, NEW t \in Slot, Write(t) PROVE ShapeInv'
<1>1. req[t] \in Request /\ Shaped(req[t]) /\ req[t].item \in Item
  BY ShapeNow DEF Request
<1>2. /\ UNCHANGED <<bound, wire, form, begun, setting>>
      /\ row' \in {row, Stored(req[t])}
      /\ told' \subseteq Item
  <2>1. Carried(req[t]) \subseteq Item
    BY <1>1 DEF Carried, Shaped, Item, Related, Grant
  <2> QED BY <1>1, <2>1, ShapeNow DEF Write
<1>3. row' \in [Record -> SUBSET Item] /\ row'["relationships"] \subseteq Related
      /\ row'["entitlements"] \subseteq Credential
  BY <1>1, <1>2, StoredIs, ShapeNow DEF Shaped
<1>4. view' \subseteq Credential
  BY <1>1, ShapeNow DEF Write, Shaped, Relating
<1>5. \E r \in Request : Set(t, r) /\ Shaped(r)
  BY <1>1, IdleShaped, ThrownShaped DEF Write
<1> QED BY <1>2, <1>3, <1>4, <1>5, ShapeNow, ShapeStep

\* An activated request saves anew, from an empty list.
LEMMA AgainShaped ==
  ASSUME NEW r \in Request, Shaped(r), r.op = "upsert"
  PROVE  LET a == [Call(r, "read", {}) EXCEPT !.healed = TRUE] IN
         a \in Request /\ Shaped(a) /\ a.phase = "read" /\ a.op = "upsert"
         /\ a.pc = "present" /\ ~a.fresh
<1> DEFINE c == Call(r, "read", {})
<1>1. c \in Request /\ Shaped(c) /\ c.phase = "read" /\ c.op = "upsert"
      /\ c.pc = "present" /\ ~c.fresh
  <2>1. {} \subseteq IF r.op \in Relating THEN Related ELSE Credential
    OBVIOUS
  <2> QED BY <2>1, CallShaped
<1> HIDE DEF c
<1>2. LET a == [c EXCEPT !.healed = TRUE] IN
      a \in Request /\ Shaped(a) /\ a.phase = "read" /\ a.op = "upsert"
      /\ a.pc = "present" /\ ~a.fresh
  BY <1>1 DEF Request, Shaped
<1> QED BY <1>2 DEF c

LEMMA ActivateShape == ASSUME ShapeInv, NEW t \in Slot, Activate(t) PROVE ShapeInv'
<1>1. req[t] \in Request /\ Shaped(req[t]) /\ req[t].op = "upsert"
  BY ShapeNow DEF Activate, Shaped
<1>2. /\ UNCHANGED <<row, wire, page, told, begun, setting>>
      /\ bound' \in {"none", "narrow", "full"}
  BY ShapeNow DEF Activate
<1>3. \E r \in Request : Set(t, r) /\ Shaped(r)
  BY <1>1, AgainShaped, IdleShaped DEF Activate
<1> QED BY <1>2, <1>3, ShapeNow, ShapeStep DEF page

LEMMA LapseShape == ASSUME ShapeInv, Lapse PROVE ShapeInv'
<1>1. /\ UNCHANGED <<row, page, req, told, begun, setting>>
      /\ wire' \in {"none", "live", "dead"} /\ bound' \in {"none", "narrow", "full"}
  BY ShapeNow DEF Lapse
<1> QED BY <1>1 DEF ShapeInv, TypeOK, setting, page

LEMMA ShapeNext == ShapeInv /\ [Next]_vars => ShapeInv'
<1> SUFFICES ASSUME ShapeInv, [Next]_vars PROVE ShapeInv'
  OBVIOUS
<1>1. CASE UNCHANGED vars
  BY <1>1 DEF vars, ShapeInv, TypeOK
<1> QED BY <1>1, BeginShape, CallsShape, ReadShape, WriteShape, ActivateShape,
           LapseShape DEF Next

-----------------------------------------------------------------------------
(* One request at a time *)

LEMMA KeptInit == Init => KeptInv
<1> SUFFICES ASSUME Init PROVE KeptInv
  OBVIOUS
<1>1. Kept
  BY DEF Init, Kept, OneAtATime, Carries, CarriesCalm, Page, Active, Idle
<1> QED BY <1>1, ShapeInit DEF KeptInv

\* The same save bears the same.
LEMMA SameBears ==
  ASSUME NEW q, NEW r, NEW saved, Bears(q, saved), r.op = q.op,
         r.item = q.item, r.list = q.list, r.wired = q.wired
  PROVE  Bears(r, saved)
BY DEF Bears, Carried, Cleared

\* What is known of the request at work.
LEMMA KeptNow ==
  ASSUME ShapeInv, Kept, NEW t \in Slot, Active(t)
  PROVE  LET r == req[t] IN
    /\ r \in Request /\ Shaped(r) /\ r.pc # "done"
    /\ \A u \in Slot \ {t} : ~Active(u)
    /\ r.phase = "write" /\ r.op \in Relating =>
         Bears(r, told)
    /\ world # "garbled" => told \cap Related \subseteq row["relationships"]
    /\ world = "calm" =>
         /\ told \cap Credential \subseteq row["entitlements"]
         /\ ~self => wire = "live"
         /\ form = "open" /\ r.op # "load" => told \cap Credential \subseteq view
         /\ r.op = "add" => r.item \in r.list /\ told \cap Credential \subseteq r.list
         /\ r.op = "remove" => (told \cap Credential) \ {r.item} \subseteq r.list
         /\ r.fresh /\ r.pc # "present" => wire = "live"
<1>1. \A u \in Slot \ {t} : ~Active(u)
  BY DEF Kept, OneAtATime
<1>2. req[t] \in Request /\ Shaped(req[t]) /\ req[t].pc # "done"
  BY ShapeNow DEF Active
<1>3. Carries(t) /\ (world = "calm" => CarriesCalm(t) /\ Page)
  BY DEF Kept
<1>4. world = "calm" /\ form = "open" /\ req[t].op # "load" =>
         told \cap Credential \subseteq view
  BY <1>1, <1>3 DEF Page
<1> QED BY <1>1, <1>2, <1>3, <1>4 DEF Carries, CarriesCalm, Page, Kept

\* A step of the only request keeps everything that is kept when the rows, the
\* page and the request itself still carry what was told.
LEMMA KeptStep ==
  ASSUME ShapeInv, NEW t \in Slot, \A u \in Slot \ {t} : ~Active(u),
         NEW r \in Request, Set(t, r), UNCHANGED setting,
         r.pc # "done" /\ r.phase = "write" /\ r.op \in Relating =>
           Bears(r, told'),
         world # "garbled" => told' \cap Related \subseteq row'["relationships"],
         world = "calm" =>
           /\ told' \cap Credential \subseteq row'["entitlements"]
           /\ ~self => wire' = "live"
           /\ form' = "open" /\ (r.pc # "done" => r.op # "load")
                => told' \cap Credential \subseteq view'
           /\ r.pc # "done" /\ r.op = "add" =>
                r.item \in r.list /\ told' \cap Credential \subseteq r.list
           /\ r.pc # "done" /\ r.op = "remove" =>
                (told' \cap Credential) \ {r.item} \subseteq r.list
           /\ r.pc # "done" /\ r.fresh /\ r.pc # "present" => wire' = "live"
  PROVE  Kept'
<1>1. req'[t] = r /\ \A u \in Slot \ {t} : ~Active(u)'
  BY DEF Active, ShapeInv, TypeOK, Set
<1>2. Active(t)' <=> r.pc # "done"
  BY <1>1 DEF Active
<1>3. world' = world /\ self' = self
  BY DEF setting
<1>4. OneAtATime'
  BY <1>1 DEF OneAtATime
<1>5. \A u \in Slot : Carries(u)'
  <2>1. Carries(t)'
    BY <1>1, <1>2, <1>3 DEF Carries, Bears
  <2> QED BY <1>1, <2>1 DEF Carries
<1>6. world = "calm" => \A u \in Slot : CarriesCalm(u)'
  <2>1. world = "calm" => CarriesCalm(t)'
    BY <1>1, <1>2, <1>3 DEF CarriesCalm
  <2> QED BY <1>1, <2>1 DEF CarriesCalm
<1>7. world = "calm" => Page'
  <2>1. (\A u \in Slot : Active(u)' => req'[u].op # "load") =>
          (r.pc # "done" => r.op # "load")
    BY <1>1, <1>2
  <2> QED BY <1>3, <2>1 DEF Page
<1> QED BY <1>3, <1>4, <1>5, <1>6, <1>7 DEF Kept

\* A step that only moves the request on, or ends it: a load that ends
\* without a list takes the form away.
LEMMA MoveKept ==
  ASSUME ShapeInv, Kept, NEW t \in Slot, Active(t), NEW r \in Request, Set(t, r),
         \/ r.pc = "done"
         \/ /\ r.op = req[t].op /\ r.item = req[t].item /\ r.list = req[t].list
            /\ r.phase = req[t].phase /\ r.wired = req[t].wired,
         UNCHANGED <<row, told, view, setting>>,
         form' \in {form, "hidden"},
         world = "calm" =>
           /\ ~self => wire' = "live"
           /\ r.pc # "done" /\ r.fresh /\ r.pc # "present" => wire' = "live"
           /\ r.pc = "done" /\ req[t].op = "load" => form' = "hidden"
  PROVE  Kept'
<1> DEFINE q == req[t]
<1>1. /\ \A u \in Slot \ {t} : ~Active(u)
      /\ q.phase = "write" /\ q.op \in Relating =>
           Bears(q, told)
      /\ world # "garbled" => told \cap Related \subseteq row["relationships"]
      /\ world = "calm" =>
         /\ told \cap Credential \subseteq row["entitlements"]
         /\ form = "open" /\ q.op # "load" => told \cap Credential \subseteq view
         /\ q.op = "add" => q.item \in q.list /\ told \cap Credential \subseteq q.list
         /\ q.op = "remove" => (told \cap Credential) \ {q.item} \subseteq q.list
  BY KeptNow
<1>2. \/ r.pc = "done"
      \/ /\ r.op = q.op /\ r.item = q.item /\ r.list = q.list
         /\ r.phase = q.phase /\ r.wired = q.wired
  OBVIOUS
<1>3. world = "calm" /\ r.pc = "done" /\ q.op = "load" => form' = "hidden"
  OBVIOUS
<1> HIDE DEF q
<1>4. r.pc # "done" /\ r.phase = "write" /\ r.op \in Relating =>
        Bears(r, told')
  BY <1>1, <1>2, SameBears
<1>5. world = "calm" =>
        /\ form' = "open" /\ (r.pc # "done" => r.op # "load")
             => told' \cap Credential \subseteq view'
        /\ r.pc # "done" /\ r.op = "add" =>
             r.item \in r.list /\ told' \cap Credential \subseteq r.list
        /\ r.pc # "done" /\ r.op = "remove" =>
             (told' \cap Credential) \ {r.item} \subseteq r.list
  BY <1>1, <1>2, <1>3
<1> QED BY <1>1, <1>4, <1>5, KeptStep

LEMMA BeginKept ==
  ASSUME KeptInv, alone, NEW t \in Slot, Begin(t) PROVE Kept'
<1>1. ShapeInv /\ Kept /\ (\A u \in Slot : ~Active(u))
  BY DEF KeptInv, Begin
<1>2. PICK r \in Request :
        /\ Set(t, r) /\ Shaped(r) /\ r.pc = "present" /\ ~r.fresh
        /\ \/ r.op \in Relating /\ r.phase = "read" /\ UNCHANGED page
           \/ r.op = "load" /\ form' = "open" /\ view' = view
           \/ /\ form = "open" /\ UNCHANGED page
              /\ r.op \in {"add", "remove"}
              /\ r.list = IF r.op = "add" THEN view \cup {r.item}
                          ELSE view \ {r.item}
  BY <1>1, BeginIs
<1>3. UNCHANGED <<row, bound, wire, told, setting>>
  BY DEF Begin
<1>4. /\ world # "garbled" => told \cap Related \subseteq row["relationships"]
      /\ world = "calm" =>
           /\ told \cap Credential \subseteq row["entitlements"]
           /\ ~self => wire = "live"
           /\ form = "open" => told \cap Credential \subseteq view
  BY <1>1 DEF Kept, Page
<1>5. r.pc # "done" /\ r.phase = "write" /\ r.op \in Relating =>
        Bears(r, told')
  BY <1>2 DEF Relating
<1>6. world = "calm" =>
        /\ form' = "open" /\ (r.pc # "done" => r.op # "load")
             => told' \cap Credential \subseteq view'
        /\ r.pc # "done" /\ r.op = "add" =>
             r.item \in r.list /\ told' \cap Credential \subseteq r.list
        /\ r.pc # "done" /\ r.op = "remove" =>
             (told' \cap Credential) \ {r.item} \subseteq r.list
  BY <1>2, <1>3, <1>4 DEF page, Relating
<1> QED BY <1>1, <1>2, <1>3, <1>4, <1>5, <1>6, KeptStep

\* In a calm world no call fails, and a delegation is refused at most once.
LEMMA RejectedCalm ==
  ASSUME ShapeInv, Kept, NEW t \in Slot, Active(t), req[t].pc = "verify",
         world = "calm", FALSE \in Verdicts(wire)
  PROVE  self /\ ~req[t].fresh
<1>1. /\ ~self => wire = "live"
      /\ req[t].fresh /\ req[t].pc # "present" => wire = "live"
  BY KeptNow
<1>2. wire # "live"
  BY DEF Verdicts, Faulty
<1> QED BY <1>1, <1>2

LEMMA PresentKept ==
  ASSUME KeptInv, alone, NEW t \in Slot, Present(t) PROVE Kept'
<1>1. ShapeInv /\ Kept /\ Active(t)
  BY DEF KeptInv, Present, Active
<1>2. req[t] \in Request /\ Shaped(req[t]) /\ (world = "calm" /\ ~self => wire = "live")
  BY <1>1, KeptNow
<1>3. UNCHANGED <<row, bound, page, told, begun, setting>>
  BY DEF Present
<1>4. CASE /\ Set(t, [req[t] EXCEPT !.pc = "verify"])
           /\ wire' = IF self /\ (req[t].fresh \/ wire = "none") THEN "live" ELSE wire
  <2> DEFINE r == [req[t] EXCEPT !.pc = "verify"]
  <2>1. r \in Request /\ r.op = req[t].op /\ r.item = req[t].item
        /\ r.list = req[t].list /\ r.phase = req[t].phase /\ r.pc = "verify"
        /\ r.fresh = req[t].fresh /\ r.wired = req[t].wired
    BY <1>2, PcShaped
  <2>2. Set(t, r)
    BY <1>4
  <2> HIDE DEF r
  <2>3. world = "calm" => /\ ~self => wire' = "live"
                          /\ r.fresh => wire' = "live"
    BY <1>2, <1>4, <2>1
  <2> QED BY <1>1, <1>3, <2>1, <2>2, <2>3, MoveKept DEF page
<1>5. CASE Faulty /\ Set(t, Thrown(req[t])) /\ UNCHANGED wire
  <2>1. world # "calm"
    BY <1>5 DEF Faulty
  <2> QED BY <1>1, <1>2, <1>3, <1>5, <2>1, ThrownShaped, MoveKept DEF page
<1> QED BY <1>4, <1>5 DEF Present

LEMMA VerifyKept ==
  ASSUME KeptInv, alone, NEW t \in Slot, Verify(t) PROVE Kept'
<1>1. ShapeInv /\ Kept /\ Active(t) /\ req[t].pc = "verify"
  BY DEF KeptInv, Verify, Active
<1>2. /\ req[t] \in Request /\ Shaped(req[t])
      /\ world = "calm" => /\ ~self => wire = "live"
                           /\ req[t].fresh => wire = "live"
  BY <1>1, KeptNow
<1>3. UNCHANGED <<row, bound, page, told, begun, setting>>
  BY DEF Verify
<1>4. CASE Set(t, [req[t] EXCEPT !.pc = "gate"]) /\ UNCHANGED wire
  BY <1>1, <1>2, <1>3, <1>4, PcShaped, MoveKept DEF page
<1>5. CASE Faulty /\ Set(t, Thrown(req[t])) /\ UNCHANGED wire
  <2>1. world # "calm"
    BY <1>5 DEF Faulty
  <2> QED BY <1>1, <1>2, <1>3, <1>5, <2>1, ThrownShaped, MoveKept DEF page
<1>6. CASE /\ FALSE \in Verdicts(wire)
           /\ Set(t, Rejected(req[t]))
           /\ wire' = IF self /\ ~req[t].fresh THEN "none" ELSE wire
  <2>1. CASE self /\ ~req[t].fresh
    <3>1. Rejected(req[t]) \in Request /\ Rejected(req[t]).pc = "present"
          /\ Rejected(req[t]).op = req[t].op /\ Rejected(req[t]).item = req[t].item
          /\ Rejected(req[t]).list = req[t].list
          /\ Rejected(req[t]).phase = req[t].phase
          /\ Rejected(req[t]).wired = req[t].wired
      BY <1>2, <2>1, RejectedShaped
    <3> QED BY <1>1, <1>3, <1>6, <2>1, <3>1, MoveKept DEF page
  <2>2. CASE ~(self /\ ~req[t].fresh)
    <3>1. world # "calm" /\ Rejected(req[t]) = Thrown(req[t])
      BY <1>1, <1>2, <1>6, <2>2, RejectedCalm, RejectedShaped
    <3> QED BY <1>1, <1>2, <1>3, <1>6, <3>1, ThrownShaped, MoveKept DEF page
  <2> QED BY <2>1, <2>2
<1> QED BY <1>4, <1>5, <1>6 DEF Verify

LEMMA GateKept ==
  ASSUME KeptInv, alone, NEW t \in Slot, Gate(t) PROVE Kept'
<1>1. ShapeInv /\ Kept /\ Active(t) /\ req[t].pc = "gate"
  BY DEF KeptInv, Gate, Active
<1>2. /\ req[t] \in Request /\ Shaped(req[t])
      /\ world = "calm" => /\ ~self => wire = "live"
                           /\ req[t].fresh => wire = "live"
  BY <1>1, KeptNow
<1>3. UNCHANGED <<row, bound, wire, view, told, begun, setting>>
  BY DEF Gate, page
<1>4. CASE Set(t, [req[t] EXCEPT !.pc = "touch"]) /\ UNCHANGED page
  BY <1>1, <1>2, <1>3, <1>4, PcShaped, MoveKept DEF page
<1>5. CASE /\ Set(t, Thrown(req[t]))
           /\ form' = IF req[t].op = "load" THEN "hidden" ELSE form
  <2>1. /\ Thrown(req[t]) \in Request
        /\ \/ Thrown(req[t]).pc = "done"
           \/ /\ Thrown(req[t]).op = req[t].op /\ Thrown(req[t]).item = req[t].item
              /\ Thrown(req[t]).list = req[t].list
              /\ Thrown(req[t]).phase = req[t].phase
              /\ Thrown(req[t]).fresh = req[t].fresh
              /\ Thrown(req[t]).wired = req[t].wired
    BY <1>2, ThrownShaped
  <2>2. world = "calm" /\ Thrown(req[t]).pc # "done" /\ Thrown(req[t]).fresh =>
          wire' = "live"
    BY <1>2, <1>3, <2>1
  <2> QED BY <1>1, <1>2, <1>3, <1>5, <2>1, <2>2, MoveKept
<1>6. CASE Faulty /\ Set(t, Thrown(req[t])) /\ UNCHANGED page
  <2>1. world # "calm"
    BY <1>6 DEF Faulty
  <2> QED BY <1>1, <1>2, <1>3, <1>6, <2>1, ThrownShaped, MoveKept DEF page
<1> QED BY <1>4, <1>5, <1>6 DEF Gate

LEMMA ReadKept ==
  ASSUME KeptInv, alone, NEW t \in Slot, Read(t) PROVE Kept'
<1>1. /\ ShapeInv /\ Kept /\ Active(t) /\ req[t].pc = "touch"
      /\ req[t].phase = "read"
  BY DEF KeptInv, Read, Active
<1>2. /\ req[t] \in Request /\ Shaped(req[t])
      /\ \A u \in Slot \ {t} : ~Active(u)
      /\ world # "garbled" => told \cap Related \subseteq row["relationships"]
      /\ world = "calm" =>
           /\ told \cap Credential \subseteq row["entitlements"]
           /\ ~self => wire = "live"
           /\ req[t].fresh => wire = "live"
           /\ form = "open" /\ req[t].op # "load" => told \cap Credential \subseteq view
  BY <1>1, KeptNow
<1>3. UNCHANGED <<row, bound, wire, form, told, begun, setting>>
  BY DEF Read
<1>4. CASE Faulty /\ Set(t, Thrown(req[t])) /\ UNCHANGED view
  <2>1. world # "calm"
    BY <1>4 DEF Faulty
  <2> QED BY <1>1, <1>2, <1>3, <1>4, <2>1, ThrownShaped, MoveKept
<1>5. CASE /\ Set(t, Loaded(req[t], row[RecordOf(req[t].op)]))
           /\ view' = IF req[t].op = "load" THEN row[RecordOf(req[t].op)] ELSE view
  <2> DEFINE list == row[RecordOf(req[t].op)]
             r == Loaded(req[t], list)
  <2>1. /\ list \subseteq IF req[t].op \in Relating THEN Related ELSE Credential
        /\ req[t].op \in Relating => list = row["relationships"]
        /\ req[t].op \notin Relating => list = row["entitlements"]
    BY <1>1, ReadIs
  <2> HIDE DEF list
  <2>2. /\ r \in Request
        /\ r.pc # "done" => /\ r.op \in Relating /\ r.op = req[t].op
                            /\ r.pc = "present"
                            /\ Carried(r) \subseteq r.list
                            /\ list \ Cleared(r) \subseteq r.list
    BY <1>1, <1>2, <2>1, LoadedShaped
  <2>3. Set(t, r) /\ view' = IF req[t].op = "load" THEN list ELSE view
    BY <1>5 DEF list
  <2> HIDE DEF r
  <2>5. r.pc # "done" /\ r.phase = "write" /\ r.op \in Relating => Bears(r, told')
    BY <1>2, <1>3, <2>1, <2>2 DEF Bears
  <2>6. world = "calm" /\ form' = "open" /\ (r.pc # "done" => r.op # "load") =>
          told' \cap Credential \subseteq view'
    BY <1>2, <1>3, <2>1, <2>3 DEF Relating
  <2> QED BY <1>1, <1>2, <1>3, <2>2, <2>3, <2>5, <2>6, KeptStep DEF Relating
<1> QED BY <1>4, <1>5 DEF Read

\* A garbled answer to a read starts the save from nothing: it bears no more
\* than it carries, which is all that is claimed where answers are garbled.
LEMMA GarbledKept ==
  ASSUME KeptInv, alone, NEW t \in Slot, Garbled(t) PROVE Kept'
<1>1. /\ ShapeInv /\ Kept /\ Active(t) /\ world = "garbled"
      /\ UNCHANGED <<row, bound, wire, form, told, begun, setting>>
  BY DEF KeptInv, Garbled, Active
<1>2. /\ req[t] \in Request /\ Shaped(req[t])
      /\ \A u \in Slot \ {t} : ~Active(u)
  BY <1>1, KeptNow
<1>3. CASE Set(t, Thrown(req[t])) /\ UNCHANGED view
  BY <1>1, <1>2, <1>3, ThrownShaped, MoveKept
<1>4. CASE req[t].phase = "read" /\ Set(t, Loaded(req[t], {}))
  <2> DEFINE r == Loaded(req[t], {})
  <2>1. r \in Request /\ (r.pc # "done" => Carried(r) \subseteq r.list)
    BY <1>2, <1>4, LoadedShaped
  <2>2. Set(t, r)
    BY <1>4
  <2> HIDE DEF r
  <2>3. r.pc # "done" => Bears(r, told')
    BY <1>1, <2>1 DEF Bears
  <2> QED BY <1>1, <1>2, <2>1, <2>2, <2>3, KeptStep
<1> QED BY <1>3, <1>4 DEF Garbled

\* Relationships and credentials are different things.
LEMMA Apart == Related \cap Credential = {}
BY DEF Related, Link, Grant

LEMMA WriteKept ==
  ASSUME KeptInv, alone, NEW t \in Slot, Write(t) PROVE Kept'
<1> DEFINE q == req[t]
<1>1. /\ ShapeInv /\ Kept /\ Active(t) /\ q.pc = "touch" /\ q.phase = "write"
  BY DEF KeptInv, Write, Active
<1>2. /\ q \in Request /\ Shaped(q) /\ q.op \in Op /\ q.op # "load"
      /\ \A u \in Slot \ {t} : ~Active(u)
      /\ q.op \in Relating =>
           Bears(q, told)
      /\ world # "garbled" => told \cap Related \subseteq row["relationships"]
      /\ world = "calm" =>
           /\ told \cap Credential \subseteq row["entitlements"]
           /\ ~self => wire = "live"
           /\ q.fresh => wire = "live"
           /\ form = "open" => told \cap Credential \subseteq view
           /\ q.op = "add" => q.item \in q.list /\ told \cap Credential \subseteq q.list
           /\ q.op = "remove" => (told \cap Credential) \ {q.item} \subseteq q.list
  BY <1>1, KeptNow DEF Shaped, Request
<1>3. UNCHANGED <<bound, wire, form, begun, setting>>
  BY DEF Write
<1>4. /\ q.op \in Relating => q.item \in Related /\ q.item \notin Credential
      /\ q.op \notin Relating => q.item \in Credential /\ q.item \notin Related
      /\ q.op \notin Relating => q.op \in {"add", "remove"}
      /\ q.op \in Relating => q.op \notin {"add", "remove"}
  BY <1>2, Apart DEF Shaped, Related, Relating, Op
<1>5. /\ Stored(q)["relationships"] =
           IF q.op \in Relating THEN q.list ELSE row["relationships"]
      /\ Stored(q)["entitlements"] =
           IF q.op \in Relating THEN row["entitlements"] ELSE q.list
  BY <1>1, StoredIs
<1>6. /\ q.op \in Relating => Carried(q) \subseteq Related /\ Cleared(q) \subseteq Related
      /\ q.op \notin Relating =>
           /\ Carried(q) \subseteq Credential /\ Cleared(q) \subseteq Credential
           /\ q.op = "add" => Carried(q) = {q.item} /\ Cleared(q) = {}
           /\ q.op = "remove" => Carried(q) = {} /\ Cleared(q) = {q.item}
  BY <1>2, <1>4 DEF Carried, Cleared, Shaped, Relating, Related, Grant
<1>7. CASE /\ row' = Stored(q) /\ Set(t, Idle)
           /\ told' = (told \ Cleared(q)) \cup Carried(q)
           /\ view' = IF q.op \in {"add", "remove"} THEN q.list ELSE view
  <2> HIDE DEF q
  <2>1. world # "garbled" => told' \cap Related \subseteq row'["relationships"]
    <3>1. CASE q.op \in Relating
      BY <1>2, <1>5, <1>6, <1>7, <3>1 DEF Bears
    <3>2. CASE q.op \notin Relating
      <4>1. told' \cap Related \subseteq told \cap Related
        BY <1>6, <1>7, <3>2, Apart
      <4> QED BY <1>2, <1>5, <1>7, <3>2, <4>1
    <3> QED BY <3>1, <3>2
  <2>2. world = "calm" =>
          /\ told' \cap Credential \subseteq row'["entitlements"]
          /\ form' = "open" => told' \cap Credential \subseteq view'
    <3>1. CASE q.op \in Relating
      <4>1. told' \cap Credential \subseteq told \cap Credential
        BY <1>6, <1>7, <3>1, Apart
      <4> QED BY <1>2, <1>3, <1>4, <1>5, <1>7, <3>1, <4>1
    <3>2. CASE q.op \notin Relating
      <4>1. world = "calm" => told' \cap Credential \subseteq q.list
        BY <1>2, <1>4, <1>6, <1>7, <3>2
      <4> QED BY <1>4, <1>5, <1>7, <3>2, <4>1
    <3> QED BY <3>1, <3>2
  <2> QED BY <1>1, <1>2, <1>3, <1>7, <2>1, <2>2, IdleShaped, KeptStep
<1>8. CASE /\ Faulty /\ row' \in {row, Stored(q)}
           /\ told' = told \ Cleared(q)
           /\ Set(t, Thrown(q)) /\ UNCHANGED view
  <2> DEFINE r == Thrown(q)
  <2>1. /\ r \in Request
        /\ \/ r.pc = "done"
           \/ r.op = q.op /\ r.item = q.item /\ r.list = q.list /\ r.wired = q.wired
    BY <1>2, ThrownShaped
  <2>2. Set(t, r) /\ world # "calm"
    BY <1>8 DEF Faulty
  <2> HIDE DEF q, r
  <2>3. world # "garbled" => told' \cap Related \subseteq row'["relationships"]
    <3>1. world # "garbled" => told' \cap Related \subseteq row["relationships"]
      BY <1>2, <1>8
    <3>2. world # "garbled" => told' \cap Related \subseteq Stored(q)["relationships"]
      <4>1. CASE q.op \in Relating
        BY <1>2, <1>5, <1>8, <4>1 DEF Bears
      <4>2. CASE q.op \notin Relating
        BY <1>2, <1>5, <1>8, <4>2
      <4> QED BY <4>1, <4>2
    <3> QED BY <1>8, <3>1, <3>2
  <2>4. q.op \in Relating => Bears(q, told')
    BY <1>2, <1>8 DEF Bears
  <2>5. r.pc # "done" /\ r.phase = "write" /\ r.op \in Relating => Bears(r, told')
    BY <2>1, <2>4, SameBears
  <2> QED BY <1>1, <1>2, <1>3, <2>1, <2>2, <2>3, <2>5, KeptStep
<1> QED BY <1>7, <1>8 DEF Write

LEMMA ActivateKept ==
  ASSUME KeptInv, alone, NEW t \in Slot, Activate(t) PROVE Kept'
<1>1. /\ ShapeInv /\ Kept /\ Active(t) /\ req[t].pc = "activate"
  BY DEF KeptInv, Activate, Active
<1>2. /\ req[t] \in Request /\ Shaped(req[t]) /\ req[t].op = "upsert"
      /\ \A u \in Slot \ {t} : ~Active(u)
      /\ world # "garbled" => told \cap Related \subseteq row["relationships"]
      /\ world = "calm" =>
           /\ told \cap Credential \subseteq row["entitlements"]
           /\ ~self => wire = "live"
           /\ form = "open" => told \cap Credential \subseteq view
  BY <1>1, KeptNow DEF Shaped
<1>3. UNCHANGED <<row, wire, page, told, begun, setting>>
  BY DEF Activate
<1>4. \E r \in Request : /\ Set(t, r) /\ (r.pc = "done" \/ r.phase = "read")
                         /\ r.pc # "done" => ~r.fresh /\ r.op = "upsert"
  <2>1. CASE Set(t, [Call(req[t], "read", {}) EXCEPT !.healed = TRUE])
    BY <1>2, <2>1, AgainShaped
  <2>2. CASE Set(t, Idle)
    BY <1>2, <2>2, IdleShaped
  <2> QED BY <2>1, <2>2 DEF Activate
<1> QED BY <1>1, <1>2, <1>3, <1>4, KeptStep DEF page

LEMMA LapseKept == ASSUME KeptInv, alone, Lapse PROVE Kept'
<1>1. Kept /\ UNCHANGED <<row, page, req, told, begun, setting>>
      /\ world # "calm"
  BY DEF KeptInv, Lapse, Faulty
<1> QED BY <1>1 DEF Kept, OneAtATime, Carries, Bears, Active, setting

LEMMA KeptNext == KeptInv /\ [Next]_vars => KeptInv'
<1> SUFFICES ASSUME KeptInv, [Next]_vars PROVE KeptInv'
  OBVIOUS
<1>1. ShapeInv'
  BY ShapeNext DEF KeptInv
<1>2. alone' = alone
  BY DEF Next, vars, setting, Begin, Present, Verify, Gate, Read, Garbled,
         Write, Activate, Lapse
<1>3. ASSUME alone PROVE Kept'
  <2>1. CASE UNCHANGED vars
    BY <1>3, <2>1 DEF KeptInv, vars, Kept, OneAtATime, Carries, Bears,
                      CarriesCalm, Page, Active
  <2> QED BY <1>3, <2>1, BeginKept, PresentKept, VerifyKept, GateKept, ReadKept,
             GarbledKept, WriteKept, ActivateKept, LapseKept DEF Next
<1> QED BY <1>1, <1>2, <1>3 DEF KeptInv

-----------------------------------------------------------------------------
(* What holds of every behaviour *)

\* One request at a time, a list about to be written has lost nothing that was
\* told saved but what its own save takes out, through every refusal, retry and
\* lost answer, where every failed call says that it failed.
THEOREM KeptInvariant == Spec => []KeptInv
BY KeptInit, KeptNext, PTL DEF Spec

\* Every variable keeps its shape: no list is sealed into the other record.
THEOREM TypeCorrect == Spec => []TypeOK
<1>1. KeptInv => TypeOK
  BY DEF KeptInv, ShapeInv
<1> QED BY <1>1, KeptInvariant, PTL

\* An owner whose requests do not overlap, where every call that fails says so,
\* loses no relationship that was answered saved, no entitlement id attached to
\* it, and its grant only to a later save with a null in its place; nor, when no
\* call fails, an entitlement that the page said was saved.
THEOREM SavedAlwaysKept == Spec => []SavedIsKept
<1>1. KeptInv => SavedIsKept
  BY DEF KeptInv, Kept, SavedIsKept
<1> QED BY <1>1, KeptInvariant, PTL
=============================================================================
