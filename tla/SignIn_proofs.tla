--------------------------- MODULE SignIn_proofs ---------------------------
(***************************************************************************)
(* SignIn, for any apps, agents, credentials, clocks and number of         *)
(* requests: its type invariant, single use, the audience of a sign-in and *)
(* the growth of the facet lists.  Fits says of a request how far it has   *)
(* come and what that took: a taken ticket has left the store before it is *)
(* judged.  Tied says of a ticket what its use left behind.                *)
(***************************************************************************)
EXTENDS SignIn, SequenceTheorems, TLAPS

\* A request that comes after its ticket was used gets nowhere.
Stopped(r) ==
  /\ r.said # "ok"
  /\ r.pc # "done" =>
       /\ ticket[r.id].kind # "token" /\ used[r.id] > 0
       /\ \/ r.pc = "get"
          \/ r.pc = "delete" /\ ~r.found
          \/ r.pc = "seen" /\ until[r.id] >= r.at

Fits(r) ==
  LET k == ticket[r.id].kind IN
  /\ r.pc # "done" \/ r.said = "ok" => r.id \in 1..minted
  /\ r.pc # "done" => /\ r.said = "nothing"
                      /\ k \in {"state", "nonce"} <=> r.cred # NoCredential
  /\ r.pc = "delete" => k \in Taken
  /\ r.pc = "seen" => k \in Marked /\ r.at <= clock
  /\ r.pc = "judge" => /\ k \in Taken \cup Marked
                       /\ k \in Taken => r.id \notin live
  /\ r.pc \in {"links", "append"} =>
       k \in {"state", "nonce"} /\ r.agent \in Agent /\ r.id \notin live
  /\ r.pc = "mint" => k \in {"state", "grant"} /\ r.id \notin live
  /\ r.pc = "record" => k \in Marked \cup {"token"}
  /\ r.pc \in {"seen", "judge", "record"} /\ k = "envelope" =>
       ticket[r.id].ts - Freshness <= clock
  /\ r.said = "ok" /\ k \in {"code", "authcode"} => r.app = ticket[r.id].app
  /\ r.late => Stopped(r)

Tied(i) ==
  LET k == ticket[i].kind IN
  /\ i > minted => used[i] = 0
  /\ i <= minted => /\ ticket[i].root \in 1..minted
                    /\ ticket[i].app = ticket[ticket[i].root].app
  /\ used[i] > 0 => /\ k \in Taken => i \notin live
                    /\ k = "envelope" => until[i] >= ticket[i].ts + Freshness
  /\ k = "token" => used[i] <= usage[i] /\ used[i] <= Limit

TicketInv ==
  TypeOK /\ (\A i \in Id : Tied(i)) /\ (\A t \in Slot : Fits(req[t]))

\* No step takes any of this away from a ticket that exists.
Grows ==
  /\ minted' \in Nat /\ minted' >= minted
  /\ \A i \in 1..minted :
       /\ ticket'[i] = ticket[i] /\ (i \in live' => i \in live)
       /\ used'[i] \in Nat /\ used'[i] >= used[i]
       /\ until'[i] \in Int /\ (until'[i] >= until[i] \/ until'[i] >= clock)
  /\ clock' \in Nat /\ clock' >= clock

USE SignInConstants

-----------------------------------------------------------------------------
(* Records *)

LEMMA IdleRequest == Idle \in Request /\ Idle.pc = "done"
                     /\ Idle.said = "nothing" /\ ~Idle.late
<1>1. (CHOOSE i \in Id : TRUE) \in Id
  <2>1. 1 \in Id
    BY DEF Id
  <2> QED BY <2>1
<1>2. <<>> \in Seq(Agent) /\ 0 \in Time
  BY DEF Time
<1> QED BY <1>1, <1>2 DEF Idle, Request

LEMMA EndedRequest ==
  ASSUME NEW r \in Request
  PROVE  /\ Ended(r) \in Request /\ Ended(r).pc = "done"
         /\ Ended(r).said = "ok" /\ Ended(r).id = r.id
         /\ Ended(r).app = r.app /\ Ended(r).late = r.late
<1>1. <<>> \in Seq(Agent)
  OBVIOUS
<1>2. PICK now \in Time : now = 0
  BY DEF Time
<1>3. [r EXCEPT !.pc = "done", !.said = "ok", !.links = <<>>,
                !.agent = NoAgent, !.found = FALSE] \in Request
  BY <1>1 DEF Request
<1> QED BY <1>1, <1>2, <1>3 DEF Ended, Request

LEMMA IdleFits ==
  ASSUME TypeOK
  PROVE  Idle \in Request /\ Fits(Idle) /\ Fits(Idle)'
BY IdleRequest DEF Fits, Idle

LEMMA TicketNow ==
  ASSUME TicketInv
  PROVE  /\ minted \in Nat /\ minted <= MaxTickets /\ clock \in Nat /\ clock <= MaxTime
         /\ live \subseteq 1..minted
         /\ \A i \in live : ticket[i].kind \in Taken
         /\ \A i \in Id : /\ i \in Nat /\ ticket[i] \in Ticket
                          /\ ticket[i].ts \in Int
                          /\ until[i] \in Int /\ usage[i] \in Nat
                          /\ used[i] \in Nat /\ Tied(i)
         /\ \A t \in Slot : req[t] \in Request /\ Fits(req[t]) /\ req[t].id \in Id
<1>1. TypeOK /\ (\A i \in Id : Tied(i)) /\ (\A t \in Slot : Fits(req[t]))
  BY DEF TicketInv
<1>2. /\ minted \in Nat /\ minted <= MaxTickets /\ clock \in Nat /\ clock <= MaxTime
      /\ live \subseteq 1..minted
      /\ \A i \in live : ticket[i].kind \in Taken
  BY <1>1 DEF TypeOK, Time
<1>3. \A i \in Id : /\ i \in Nat /\ ticket[i] \in Ticket
                    /\ until[i] \in Int /\ usage[i] \in Nat
                    /\ used[i] \in Nat
  <2>1. Id \subseteq Nat
    BY DEF Id
  <2>2. /\ ticket \in [Id -> Ticket] /\ until \in [Id -> {-1} \cup Nat]
        /\ usage \in [Id -> Nat] /\ used \in [Id -> Nat]
    BY <1>1 DEF TypeOK
  <2> QED BY <2>1, <2>2
<1>4. \A i \in Id : ticket[i].ts \in Int
  BY <1>3 DEF Ticket
<1>5. \A t \in Slot : req[t] \in Request /\ req[t].id \in Id
  BY <1>1 DEF TypeOK, Request
<1> QED BY <1>1, <1>2, <1>3, <1>4, <1>5

\* What fits a state still fits one it has grown into.
LEMMA FitsGrow ==
  ASSUME TicketInv, NEW r \in Request, Fits(r), Grows
  PROVE  Fits(r)'
<1>1. CASE r.id \in 1..minted
  <2>1. r.id \in Id /\ r.id \in 1..minted'
    BY <1>1, TicketNow DEF Grows, Id
  <2>2. /\ ticket'[r.id] = ticket[r.id] /\ used'[r.id] >= used[r.id]
        /\ used'[r.id] \in Nat
        /\ r.id \in live' => r.id \in live
    BY <1>1 DEF Grows
  <2>3. ticket[r.id].ts \in Int /\ used[r.id] \in Nat /\ clock \in Nat
    BY <2>1, TicketNow
  <2>4. ticket[r.id].ts - Freshness <= clock => ticket[r.id].ts - Freshness <= clock'
    BY <2>3 DEF Grows
  <2>5. r.at \in Nat /\ (r.at <= clock => r.at <= clock')
    BY <2>3 DEF Grows, Request, Time
  <2>6. r.at <= clock /\ until[r.id] >= r.at => until'[r.id] >= r.at
    BY <1>1, <2>1, <2>3, <2>5, TicketNow DEF Grows
  <2>7. used[r.id] > 0 => used'[r.id] > 0
    BY <2>2, <2>3
  <2>8. r.late => Stopped(r)'
    BY <2>2, <2>6, <2>7 DEF Fits, Stopped
  <2> HIDE DEF TicketInv
  <2> QED BY <2>1, <2>2, <2>4, <2>5, <2>8 DEF Fits
<1>2. CASE r.id \notin 1..minted
  <2>1. r.pc = "done" /\ r.said # "ok"
    BY <1>2 DEF Fits
  <2> QED BY <2>1 DEF Fits, Stopped
<1> QED BY <1>1, <1>2

\* One request takes a step.
LEMMA OneStep ==
  ASSUME TicketInv, Grows, NEW t \in Slot, NEW r \in Request, Set(t, r), Fits(r)'
  PROVE  req' \in [Slot -> Request] /\ \A u \in Slot : Fits(req[u])'
<1>1. req \in [Slot -> Request]
  BY DEF TicketInv, TypeOK
<1>2. req' \in [Slot -> Request] /\ req'[t] = r /\ \A u \in Slot \ {t} : req'[u] = req[u]
  BY <1>1 DEF Set
<1>3. ASSUME NEW u \in Slot \ {t} PROVE Fits(req[u])'
  <2>1. PICK q \in Request : q = req[u]
    BY <1>1
  <2>2. Fits(q)'
    BY <2>1, TicketNow, FitsGrow
  <2>3. q = req'[u]
    BY <1>2, <2>1
  <2> QED BY <2>2, <2>3 DEF Fits, Stopped
<1>4. Fits(req[t])'
  BY <1>2 DEF Fits, Stopped
<1> QED BY <1>2, <1>3, <1>4

-----------------------------------------------------------------------------
(* Tickets *)

\* What no ticket is part of moves.
LEMMA QuietTied ==
  ASSUME TicketInv, UNCHANGED <<minted, ticket, until, usage, used>>,
         live' \subseteq live, clock' \in Time, clock' >= clock
  PROVE  /\ Grows /\ \A i \in Id : Tied(i)'
         /\ live' \subseteq {i \in 1..minted' : ticket'[i].kind \in Taken}
<1>1. Grows
  <2>1. 1..minted \subseteq Id
    BY TicketNow DEF Id
  <2> QED BY <2>1, TicketNow DEF Grows, Time
<1>2. ASSUME NEW i \in Id PROVE Tied(i)'
  <2>1. Tied(i) /\ ticket[i].ts \in Int /\ clock \in Nat /\ clock' \in Nat
    BY TicketNow DEF Time
  <2> HIDE DEF TicketInv
  <2> QED BY <2>1 DEF Tied
<1>3. live' \subseteq {i \in 1..minted' : ticket'[i].kind \in Taken}
  BY DEF TicketInv, TypeOK
<1> QED BY <1>1, <1>2, <1>3

\* What is made is new, and bound as it was asked.
LEMMA NewTicket ==
  ASSUME TicketInv, NEW k \in Kind, NEW app \in App,
         NEW link \in Agent \cup {NoAgent}, NEW ts \in -Freshness..MaxTime + Freshness,
         NEW root \in Id, New(k, app, link, ts, root)
  PROVE  /\ minted' = minted + 1 /\ minted' \in Id /\ minted' \in 0..MaxTickets
         /\ ticket' \in [Id -> Ticket]
         /\ \A i \in Id \ {minted'} : ticket'[i] = ticket[i]
         /\ ticket'[minted'].kind = k /\ ticket'[minted'].app = app
         /\ ticket'[minted'].root = root
         /\ k = "envelope" => ticket'[minted'].ts = ts
         /\ \A i \in 1..minted : i \in Id /\ i # minted'
         /\ \A i \in Id \ {minted'} : i \in live' <=> i \in live
         /\ live' \subseteq {i \in 1..minted' : ticket'[i].kind \in Taken}
<1>1. minted \in Nat /\ minted < MaxTickets /\ minted' = minted + 1
  BY TicketNow DEF New
<1>2. minted' \in Id /\ minted' \in 0..MaxTickets
  BY <1>1 DEF Id
<1>3. \A i \in 1..minted : i \in Id /\ i # minted'
  BY <1>1 DEF Id
<1> DEFINE n == [kind |-> k, app |-> app, link |-> link, root |-> root,
                 ts |-> IF k = "envelope" THEN ts ELSE 0]
<1>4. n \in Ticket /\ n.kind = k /\ n.app = app /\ n.root = root
      /\ (k = "envelope" => n.ts = ts)
  BY DEF Ticket
<1>5. ticket' = [ticket EXCEPT ![minted'] = n]
  BY DEF New
<1> HIDE DEF n
<1>6. /\ ticket' \in [Id -> Ticket] /\ ticket'[minted'] = n
      /\ \A i \in Id \ {minted'} : ticket'[i] = ticket[i]
  BY <1>2, <1>4, <1>5 DEF TicketInv, TypeOK
<1>7. /\ \A i \in Id \ {minted'} : i \in live' <=> i \in live
      /\ live' \subseteq live \cup {minted'}
      /\ minted' \in live' => k \in Taken
  <2>1. minted' \notin live
    BY <1>1, TicketNow
  <2> QED BY <2>1 DEF New, Stored
<1>8. live' \subseteq {i \in 1..minted' : ticket'[i].kind \in Taken}
  <2>1. ASSUME NEW i \in live' PROVE i \in 1..minted' /\ ticket'[i].kind \in Taken
    <3>1. CASE i = minted'
      BY <1>1, <1>4, <1>6, <1>7, <3>1
    <3>2. CASE i # minted'
      BY <1>1, <1>3, <1>6, <1>7, <3>2, TicketNow
    <3> QED BY <3>1, <3>2
  <2> QED BY <2>1
<1> QED BY <1>1, <1>2, <1>3, <1>4, <1>6, <1>7, <1>8

\* A ticket is made, and perhaps the one it is made for is used.
LEMMA NewTied ==
  ASSUME TicketInv, NEW k \in Kind, NEW app \in App,
         NEW link \in Agent \cup {NoAgent}, NEW ts \in -Freshness..MaxTime + Freshness,
         NEW root \in Id, New(k, app, link, ts, root),
         \/ root = minted + 1
         \/ root \in 1..minted /\ ticket[root].app = app,
         UNCHANGED <<until, usage, clock>>,
         \/ UNCHANGED used
         \/ \E j \in 1..minted : /\ ticket[j].kind \in Taken /\ j \notin live
                                 /\ used' = [used EXCEPT ![j] = @ + 1]
  PROVE  Grows /\ (\A i \in Id : Tied(i)') /\ used' \in [Id -> Nat]
<1>1. /\ minted' = minted + 1 /\ minted' \in Id /\ minted \in Nat
      /\ \A i \in Id \ {minted'} : ticket'[i] = ticket[i]
      /\ ticket'[minted'].kind = k /\ ticket'[minted'].app = app
      /\ ticket'[minted'].root = root
      /\ k = "envelope" => ticket'[minted'].ts = ts
      /\ \A i \in 1..minted : i \in Id /\ i # minted'
      /\ \A i \in Id \ {minted'} : i \in live' <=> i \in live
  BY NewTicket, TicketNow
<1>2. /\ used \in [Id -> Nat]
      /\ used' \in [Id -> Nat]
      /\ \A i \in Id : /\ used'[i] >= used[i]
                       /\ \/ used'[i] = used[i]
                          \/ /\ i \in 1..minted /\ ticket[i].kind \in Taken
                             /\ i \notin live
  <2>1. used \in [Id -> Nat]
    BY DEF TicketInv, TypeOK
  <2>2. CASE UNCHANGED used
    BY <2>1, <2>2
  <2>3. ASSUME NEW j \in 1..minted, ticket[j].kind \in Taken, j \notin live,
               used' = [used EXCEPT ![j] = @ + 1]
        PROVE  /\ used' \in [Id -> Nat]
               /\ \A i \in Id : /\ used'[i] >= used[i]
                                /\ \/ used'[i] = used[i]
                                   \/ /\ i \in 1..minted /\ ticket[i].kind \in Taken
                                      /\ i \notin live
    <3>1. j \in Id /\ used[j] \in Nat
      BY <1>1, <2>1
    <3> QED BY <2>1, <2>3, <3>1
  <2> QED BY <2>1, <2>2, <2>3
<1>3. Grows
  BY <1>1, <1>2, TicketNow DEF Grows
<1>4. ASSUME NEW i \in Id PROVE Tied(i)'
  <2>0. /\ Tied(i) /\ used[i] \in Nat /\ usage[i] \in Nat /\ i \in Nat
        /\ used'[i] \in Nat
        /\ until' = until /\ usage' = usage /\ clock' = clock
    BY <1>2, TicketNow
  <2>1. CASE i = minted'
    <3>1. used[i] = 0 /\ used'[i] = 0
      BY <1>1, <1>2, <2>0, <2>1 DEF Tied
    <3>2. root \in 1..minted' /\ ticket'[root].app = app
      BY <1>1
    <3> QED BY <1>1, <2>0, <2>1, <3>1, <3>2 DEF Tied
  <2>2. CASE i # minted'
    <3>1. ticket'[i] = ticket[i] /\ (i \in live' <=> i \in live)
      BY <1>1, <2>2
    <3>2. i > minted' => used'[i] = 0
      BY <1>1, <1>2, <2>0 DEF Tied
    <3>3. i <= minted' =>
            /\ ticket'[i].root \in 1..minted'
            /\ ticket'[i].app = ticket'[ticket'[i].root].app
      <4>1. i <= minted' => i <= minted
        BY <1>1, <2>0, <2>2
      <4>2. ASSUME i <= minted
            PROVE  /\ ticket[i].root \in 1..minted
                   /\ ticket[i].app = ticket[ticket[i].root].app
        BY <2>0, <4>2 DEF Tied
      <4>3. ASSUME i <= minted
            PROVE  /\ ticket'[i].root \in 1..minted'
                   /\ ticket'[ticket[i].root] = ticket[ticket[i].root]
        BY <1>1, <3>1, <4>2, <4>3
      <4> QED BY <2>0, <3>1, <4>1, <4>2, <4>3
    <3>4. ticket[i].kind = "token" => used'[i] = used[i]
      BY <1>2 DEF Taken
    <3>5. ticket[i].kind \in {"envelope", "siwe"} => used'[i] = used[i]
      BY <1>2 DEF Taken
    <3>6. used'[i] > 0 /\ ticket[i].kind \in Taken => i \notin live
      BY <1>2, <2>0 DEF Tied
    <3> QED BY <2>0, <3>1, <3>2, <3>3, <3>4, <3>5, <3>6 DEF Tied
  <2> QED BY <2>1, <2>2
<1> QED BY <1>2, <1>3, <1>4

\* A ticket that has left the store is used.
LEMMA UseTied ==
  ASSUME TicketInv, NEW j \in 1..minted, ticket[j].kind \in Taken, j \notin live,
         used' = [used EXCEPT ![j] = @ + 1],
         UNCHANGED <<minted, ticket, live, until, usage, clock>>
  PROVE  Grows /\ (\A i \in Id : Tied(i)') /\ used' \in [Id -> Nat]
<1>1. /\ used \in [Id -> Nat] /\ j \in Id /\ used[j] \in Nat
      /\ 1..minted \subseteq Id /\ minted \in Nat /\ ~(j > minted)
  <2>1. used \in [Id -> Nat]
    BY DEF TicketInv, TypeOK
  <2>2. minted \in Nat /\ minted <= MaxTickets
    BY TicketNow
  <2>3. 1..minted \subseteq Id /\ ~(j > minted)
    BY <2>2 DEF Id
  <2> QED BY <2>1, <2>2, <2>3
<1>2. used' \in [Id -> Nat] /\ used'[j] = used[j] + 1
      /\ \A i \in Id \ {j} : used'[i] = used[i]
  BY <1>1
<1>3. Grows
  BY <1>1, <1>2, TicketNow DEF Grows
<1>4. ASSUME NEW i \in Id PROVE Tied(i)'
  <2>1. Tied(i)
    BY TicketNow
  <2>2. CASE i = j
    <3>1. ticket[j].kind \notin {"token", "envelope", "siwe"}
      BY DEF Taken
    <3> QED BY <1>1, <1>2, <2>1, <2>2, <3>1 DEF Tied
  <2>3. CASE i # j
    BY <1>2, <2>1, <2>3 DEF Tied
  <2> QED BY <2>2, <2>3
<1> QED BY <1>2, <1>3, <1>4

-----------------------------------------------------------------------------
(* Requests *)

LEMMA InvStep ==
  ASSUME TicketInv, \A i \in Id : Tied(i)', \A u \in Slot : Fits(req[u])',
         req' \in [Slot -> Request],
         minted' \in 0..MaxTickets, ticket' \in [Id -> Ticket],
         live' \subseteq {i \in 1..minted' : ticket'[i].kind \in Taken},
         until' \in [Id -> {-1} \cup Nat], usage' \in [Id -> Nat],
         facet' \in [Credential -> Seq(Agent)], clock' \in Time,
         begun' \in 0..MaxBegins, UNCHANGED <<alone, world>>,
         used' \in [Id -> Nat]
  PROVE  TicketInv'
BY DEF TicketInv, TypeOK

\* A step that touches only the request.
LEMMA RequestMoves ==
  ASSUME TicketInv, NEW t \in Slot, NEW r \in Request, Fits(r), Set(t, r),
         UNCHANGED <<minted, ticket, live, until, usage, facet, clock, alone,
                     world, used>>,
         begun' \in 0..MaxBegins
  PROVE  TicketInv'
<1>1. TypeOK /\ clock' \in Time /\ clock' >= clock
  BY TicketNow DEF TicketInv, TypeOK, Time
<1>2. Grows /\ (\A i \in Id : Tied(i)')
  BY <1>1, QuietTied
<1>3. Fits(r)'
  BY <1>2, FitsGrow
<1>4. req' \in [Slot -> Request] /\ \A u \in Slot : Fits(req[u])'
  BY <1>2, <1>3, OneStep
<1> QED BY <1>1, <1>2, <1>4, InvStep DEF TypeOK

LEMMA RefusedIs ==
  ASSUME TicketInv, NEW t \in Slot, Refused(t)
  PROVE  \E r \in Request : Set(t, r) /\ Fits(r)
BY IdleFits DEF TicketInv, Refused

LEMMA PresentKeeps == ASSUME TicketInv, NEW t \in Slot, Present(t) PROVE TicketInv'
<1>1. PICK i \in 1..minted, app \in App, c \in Credential \cup {NoCredential} :
       /\ ticket[i].kind \in {"state", "nonce"} <=> c # NoCredential
       /\ Set(t, [id |-> i, app |-> app, cred |-> c,
                  pc |-> IF ticket[i].kind = "siwe" THEN "seen" ELSE "get",
                  found |-> FALSE, agent |-> NoAgent, links |-> <<>>,
                  said |-> "nothing",
                  at |-> IF ticket[i].kind = "siwe" THEN clock ELSE 0,
                  late |-> Late(i)])
  BY DEF Present
<1>2. UNCHANGED <<minted, ticket, live, until, usage, facet, clock, alone,
                  world, used>> /\ begun' \in 0..MaxBegins
  BY DEF Present, TicketInv, TypeOK
<1>3. PICK late \in BOOLEAN : late = Late(i)
  BY DEF Late
<1>3a. PICK pc \in {"get", "seen"} :
         pc = IF ticket[i].kind = "siwe" THEN "seen" ELSE "get"
  OBVIOUS
<1>3b. PICK at \in Time : at = IF ticket[i].kind = "siwe" THEN clock ELSE 0
  BY TicketNow DEF Time
<1> DEFINE r == [id |-> i, app |-> app, cred |-> c, pc |-> pc,
                 found |-> FALSE, agent |-> NoAgent, links |-> <<>>,
                 said |-> "nothing", at |-> at, late |-> late]
<1>4. i \in Id /\ <<>> \in Seq(Agent)
  BY TicketNow DEF Id
<1>5. r \in Request
  BY <1>4 DEF Request
<1>6. Fits(r)
  <2>1. pc = "seen" => ticket[i].kind = "siwe" /\ at = clock
    BY <1>3a, <1>3b
  <2>2. late => ticket[i].kind # "token" /\ used[i] > 0
                /\ (pc = "seen" => until[i] >= at)
    BY <1>3, <2>1 DEF Late, Known
  <2>3. clock \in Nat /\ "siwe" \in Marked
    BY TicketNow DEF Marked
  <2> QED BY <1>1, <2>1, <2>2, <2>3 DEF Fits, Stopped
<1>7. Set(t, r)
  BY <1>1, <1>3, <1>3a, <1>3b
<1> HIDE DEF r
<1> QED BY <1>2, <1>5, <1>6, <1>7, RequestMoves

LEMMA GetKeeps == ASSUME TicketInv, NEW t \in Slot, Get(t) PROVE TicketInv'
<1> DEFINE q == req[t]
           k == ticket[q.id].kind
<1>1. /\ q \in Request /\ Fits(q) /\ q.id \in Id /\ q.pc = "get"
      /\ Tied(q.id) /\ ticket[q.id].ts \in Int /\ until[q.id] \in Int
      /\ used[q.id] \in Nat /\ clock \in Nat
  BY TicketNow DEF Get
<1>2. /\ q.id \in 1..minted /\ q.said = "nothing" /\ k \in Kind
      /\ k \in {"state", "nonce"} <=> q.cred # NoCredential
      /\ q.late => k # "token" /\ used[q.id] > 0
  BY <1>1, TicketNow DEF Fits, Stopped, Ticket
<1>3. UNCHANGED <<minted, ticket, live, until, usage, facet, clock, alone,
                  world, used>> /\ begun' \in 0..MaxBegins
  BY DEF Get, TicketInv, TypeOK
<1>4. \E r \in Request : Set(t, r) /\ Fits(r)
  <2>1. CASE Refused(t)
    BY <2>1, RefusedIs
  <2>2. CASE k \in Taken /\ Set(t, [q EXCEPT !.pc = "delete", !.found = q.id \in live])
    <3>1. PICK found \in BOOLEAN : found = (q.id \in live)
      <4>1. CASE q.id \in live
        BY <4>1
      <4>2. CASE q.id \notin live
        <5>1. FALSE = (q.id \in live)
          BY <4>2
        <5> QED BY <5>1
      <4> QED BY <4>1, <4>2
    <3> DEFINE r == [q EXCEPT !.pc = "delete", !.found = found]
    <3>2. r \in Request /\ r.pc = "delete" /\ r.found = found /\ r.id = q.id
          /\ r.said = q.said /\ r.late = q.late /\ r.cred = q.cred
      BY <1>1 DEF Request
    <3>3. q.late => ~found
      BY <1>1, <1>2, <2>2, <3>1 DEF Tied
    <3>4. Set(t, r)
      BY <2>2, <3>1
    <3> HIDE DEF r, q
    <3>5. Fits(r)
      BY <1>2, <2>2, <3>2, <3>3 DEF Fits, Stopped
    <3> QED BY <3>2, <3>4, <3>5
  <2>3. CASE k = "envelope" /\ Fresh(ticket[q.id].ts)
             /\ Set(t, [q EXCEPT !.pc = "seen", !.at = clock])
    <3>0. PICK now \in Time : now = clock
      BY TicketNow DEF Time
    <3> DEFINE r == [q EXCEPT !.pc = "seen", !.at = now]
    <3>1. r \in Request /\ r.pc = "seen" /\ r.id = q.id /\ r.at = now
          /\ r.said = q.said /\ r.late = q.late /\ r.cred = q.cred
      BY <1>1 DEF Request
    <3>2. ticket[q.id].ts - Freshness <= clock /\ clock <= ticket[q.id].ts + Freshness
      BY <1>1, <2>3 DEF Fresh
    <3>3. q.late => until[q.id] >= now
      BY <1>1, <1>2, <2>3, <3>0, <3>2 DEF Tied
    <3>4. Set(t, r)
      BY <2>3, <3>0
    <3> HIDE DEF r, q
    <3>5. k \in Marked /\ now <= clock
      BY <1>1, <2>3, <3>0 DEF Marked
    <3>6. Fits(r)
      BY <1>2, <2>3, <3>1, <3>2, <3>3, <3>5 DEF Fits, Stopped
    <3> QED BY <3>1, <3>4, <3>6
  <2>4. CASE k = "token" /\ Goto(t, "record")
    <3> DEFINE r == [q EXCEPT !.pc = "record"]
    <3>1. r \in Request /\ r.pc = "record" /\ r.id = q.id
          /\ r.said = q.said /\ r.late = q.late /\ r.cred = q.cred
      BY <1>1 DEF Request
    <3>2. Set(t, r)
      BY <2>4 DEF Goto
    <3> HIDE DEF r, q
    <3>3. Fits(r)
      BY <1>2, <2>4, <3>1 DEF Fits
    <3> QED BY <3>1, <3>2, <3>3
  <2>5. Of(t).kind = k /\ Of(t).ts = ticket[q.id].ts
    BY DEF Of
  <2> QED BY <2>1, <2>2, <2>3, <2>4, <2>5 DEF Get
<1> QED BY <1>3, <1>4, RequestMoves

\* A look at the nonce store: what it still knows is refused, and a request
\* that is late would have been.
LEMMA SeenKeeps == ASSUME TicketInv, NEW t \in Slot, Seen(t) PROVE TicketInv'
<1> DEFINE q == req[t]
           k == ticket[q.id].kind
<1>1. /\ q \in Request /\ Fits(q) /\ q.id \in Id /\ q.pc = "seen"
      /\ q.id \in 1..minted /\ q.said = "nothing" /\ k \in Marked
      /\ k \in {"state", "nonce"} <=> q.cred # NoCredential
      /\ k = "envelope" => ticket[q.id].ts - Freshness <= clock
      /\ q.late => until[q.id] >= q.at
  BY TicketNow DEF Seen, Fits, Stopped
<1>2. UNCHANGED <<minted, ticket, live, until, usage, facet, clock, alone,
                  world, used>> /\ begun' \in 0..MaxBegins
  BY DEF Seen, TicketInv, TypeOK
<1>3. CASE Refused(t)
  BY <1>2, <1>3, RefusedIs, RequestMoves
<1>4. CASE ~Known(q.id) /\ Set(t, [q EXCEPT !.pc = "judge", !.at = 0,
                                           !.late = @ /\ q.at = clock])
  <2>1. ~(q.late /\ q.at = clock)
    BY <1>1, <1>4 DEF Known
  <2>2. 0 \in Time
    BY DEF Time
  <2>3. PICK late \in BOOLEAN : late = FALSE
    OBVIOUS
  <2> DEFINE r == [q EXCEPT !.pc = "judge", !.at = 0, !.late = late]
  <2>4. r \in Request /\ r.pc = "judge" /\ r.id = q.id
        /\ r.said = q.said /\ r.late = late /\ r.cred = q.cred
    BY <1>1, <2>2 DEF Request
  <2>5. late = (q.late /\ q.at = clock)
    <3>1. FALSE = (q.late /\ q.at = clock)
      BY <2>1
    <3> QED BY <2>3, <3>1
  <2>6. Set(t, r)
    BY <1>4, <2>5
  <2>7. k \notin Taken
    BY <1>1 DEF Taken, Marked
  <2> HIDE DEF r, q
  <2>8. Fits(r)
    BY <1>1, <2>3, <2>4, <2>7 DEF Fits
  <2> QED BY <1>2, <2>4, <2>6, <2>8, RequestMoves
<1> QED BY <1>3, <1>4 DEF Seen

LEMMA DeleteKeeps == ASSUME TicketInv, NEW t \in Slot, Delete(t) PROVE TicketInv'
<1> DEFINE q == req[t]
           k == ticket[q.id].kind
<1>1. /\ q \in Request /\ Fits(q) /\ q.pc = "delete" /\ k \in Taken
      /\ q.id \in 1..minted /\ q.said = "nothing"
      /\ k \in {"state", "nonce"} <=> q.cred # NoCredential
      /\ q.late => ~q.found
  BY TicketNow DEF Delete, Fits, Stopped
<1>2. /\ UNCHANGED <<minted, ticket, until, usage, facet, clock, begun,
                     alone, world, used>>
      /\ live' = live \ {q.id}
  BY DEF Delete
<1>3. TypeOK /\ clock' \in Time /\ clock' >= clock /\ live' \subseteq live
  BY <1>2, TicketNow DEF TicketInv, TypeOK, Time
<1>4. /\ Grows /\ (\A i \in Id : Tied(i)')
      /\ live' \subseteq {i \in 1..minted' : ticket'[i].kind \in Taken}
  BY <1>2, <1>3, QuietTied
<1>5. \E r \in Request : Set(t, r) /\ Fits(r)'
  <2>1. CASE q.found /\ Goto(t, "judge")
    <3> DEFINE r == [q EXCEPT !.pc = "judge"]
    <3>1. r \in Request /\ r.pc = "judge" /\ r.id = q.id
          /\ r.said = q.said /\ r.late = q.late /\ r.cred = q.cred
      BY <1>1 DEF Request
    <3>2. Set(t, r)
      BY <2>1 DEF Goto
    <3>3. PICK p \in Request : p = r
      BY <3>1
    <3>4. ~p.late /\ p.pc = "judge" /\ p.id = q.id /\ p.said = "nothing"
          /\ p.cred = q.cred
      BY <1>1, <2>1, <3>1, <3>3
    <3>5. /\ ticket'[p.id].kind = k /\ p.id \notin live' /\ p.id \in 1..minted'
      BY <1>1, <1>2, <3>4
    <3>6. k # "envelope" /\ k \in Taken
      BY <1>1 DEF Taken
    <3> HIDE DEF r, q, k
    <3>7. Fits(p)'
      BY <1>1, <3>4, <3>5, <3>6 DEF Fits
    <3> QED BY <3>2, <3>3, <3>7
  <2>2. CASE Refused(t)
    BY <1>3, <2>2, IdleFits DEF Refused
  <2> QED BY <2>1, <2>2 DEF Delete
<1>6. PICK r \in Request : Set(t, r) /\ Fits(r)'
  BY <1>5
<1>7. req' \in [Slot -> Request] /\ \A u \in Slot : Fits(req[u])'
  BY <1>4, <1>6, OneStep
<1> QED BY <1>2, <1>3, <1>4, <1>7, InvStep DEF TypeOK

\* A request that succeeds is one that was not late.
LEMMA EndedFits ==
  ASSUME NEW r \in Request, Fits(r), r.pc # "done", ~r.late,
         ticket[r.id].kind \in {"code", "authcode"} => r.app = ticket[r.id].app
  PROVE  Ended(r) \in Request /\ Fits(Ended(r))
<1>1. Ended(r) \in Request /\ Ended(r).pc = "done" /\ Ended(r).said = "ok"
      /\ Ended(r).id = r.id /\ Ended(r).app = r.app /\ Ended(r).late = r.late
  BY EndedRequest
<1> QED BY <1>1 DEF Fits

\* A request that goes on as the agent it stands for.
LEMMA StandsFits ==
  ASSUME TicketInv, NEW t \in Slot, req[t].pc = "judge",
         NEW pc \in {"links", "mint"}, NEW a \in Agent,
         Of(t).kind \in {"state", "nonce"}, pc = "mint" => Of(t).kind = "state",
         Set(t, [req[t] EXCEPT !.agent = a, !.pc = pc])
  PROVE  \E r \in Request : Set(t, r) /\ Fits(r)
<1> DEFINE q == req[t]
           r == [q EXCEPT !.agent = a, !.pc = pc]
<1>1. /\ q \in Request /\ Fits(q) /\ q.pc = "judge"
      /\ ticket[q.id].kind \in {"state", "nonce"}
      /\ pc = "mint" => ticket[q.id].kind = "state"
  BY TicketNow DEF Of
<1>2. r \in Request /\ r.pc = pc /\ r.id = q.id /\ r.agent = a
      /\ r.said = q.said /\ r.late = q.late /\ r.cred = q.cred
  BY <1>1 DEF Request
<1>3. Set(t, r)
  OBVIOUS
<1> HIDE DEF r, q
<1>4. Fits(r)
  BY <1>1, <1>2 DEF Fits, Stopped, Taken
<1> QED BY <1>2, <1>3, <1>4

LEMMA OldestIs ==
  ASSUME TicketInv, NEW c \in Credential, Oldest(c) # NoAgent
  PROVE  Oldest(c) \in Agent
<1>1. facet[c] \in Seq(Agent) /\ facet[c] # <<>>
  BY DEF TicketInv, TypeOK, Oldest
<1> QED BY <1>1 DEF Oldest

LEMMA JudgeKeeps == ASSUME TicketInv, NEW t \in Slot, Judge(t) PROVE TicketInv'
<1> DEFINE q == req[t]
           k == ticket[q.id].kind
<1>1. /\ q \in Request /\ Fits(q) /\ q.pc = "judge" /\ q.id \in Id
      /\ q.id \in 1..minted /\ q.said = "nothing"
      /\ k \in {"state", "nonce"} <=> q.cred # NoCredential
      /\ k \in Taken => q.id \notin live
      /\ Of(t).kind = k /\ ticket[q.id] \in Ticket /\ clock \in Nat
  BY TicketNow DEF Judge, Fits, Of
<1>2. /\ UNCHANGED <<minted, ticket, live, until, usage, facet, clock, begun,
                     alone, world>>
      /\ begun' \in 0..MaxBegins
  BY DEF Judge, TicketInv, TypeOK
<1>3. ~q.late
  BY <1>1 DEF Fits, Stopped
<1>4. CASE UNCHANGED used /\ \E r \in Request : Set(t, r) /\ Fits(r)
  BY <1>2, <1>4, RequestMoves
<1>5. CASE k \in {"code", "authcode"} /\ q.app = ticket[q.id].app /\ Succeeds(t)
  <2>1. k \in Taken /\ k # "siwe"
    BY <1>5 DEF Taken
  <2>2. Ended(q) \in Request /\ Fits(Ended(q))
    BY <1>1, <1>3, <1>5, <2>1, EndedFits
  <2>3. PICK r \in Request : r = Ended(q) /\ Fits(r) /\ Set(t, r)
    BY <1>5, <2>2 DEF Succeeds
  <2>4. used' = [used EXCEPT ![q.id] = @ + 1]
    BY <1>5 DEF Succeeds, Used
  <2>5. Grows /\ (\A i \in Id : Tied(i)') /\ used' \in [Id -> Nat]
    BY <1>1, <1>2, <2>1, <2>4, UseTied
  <2>6. Fits(r)'
    BY <2>3, <2>5, FitsGrow
  <2>7. req' \in [Slot -> Request] /\ \A u \in Slot : Fits(req[u])'
    BY <2>3, <2>5, <2>6, OneStep
  <2>8. TypeOK
    BY DEF TicketInv
  <2> QED BY <1>2, <2>5, <2>7, <2>8, InvStep DEF TypeOK
<1>6. CASE Callback(t)
  <2>0. UNCHANGED used /\ k = "state" /\ q.cred \in Credential
    BY <1>1, <1>6 DEF Callback, Request
  <2>1. CASE Of(t).link # NoAgent
             /\ Set(t, [q EXCEPT !.agent = Of(t).link, !.pc = "links"])
    <3>1. Of(t).link \in Agent
      BY <1>1, <2>1 DEF Of, Ticket
    <3> QED BY <1>1, <1>4, <2>0, <2>1, <3>1, StandsFits
  <2>2. CASE Set(t, [q EXCEPT !.agent = HomeOf[q.cred], !.pc = "links"])
    <3>1. HomeOf[q.cred] \in Agent
      BY <2>0
    <3> QED BY <1>1, <1>4, <2>0, <2>2, <3>1, StandsFits
  <2>3. CASE Oldest(q.cred) # NoAgent
             /\ Set(t, [q EXCEPT !.agent = Oldest(q.cred), !.pc = "mint"])
    <3>1. Oldest(q.cred) \in Agent
      BY <2>0, <2>3, OldestIs
    <3> QED BY <1>1, <1>4, <2>0, <2>3, <3>1, StandsFits
  <2>4. CASE Refused(t)
    BY <1>4, <2>0, <2>4, RefusedIs
  <2> QED BY <1>6, <2>1, <2>2, <2>3, <2>4 DEF Callback
<1>7. CASE Prove(t)
  <2>1. PICK a \in Agent : Set(t, [q EXCEPT !.agent = a, !.pc = "links"])
    BY <1>7 DEF Prove
  <2>2. UNCHANGED used /\ Of(t).kind = "nonce"
    BY <1>7 DEF Prove
  <2> QED BY <1>1, <1>4, <2>1, <2>2, StandsFits
<1>8. CASE Refused(t) /\ UNCHANGED used
  BY <1>4, <1>8, RefusedIs
<1>9. CASE k = "grant" /\ Goto(t, "mint") /\ UNCHANGED used
  <2> DEFINE r == [q EXCEPT !.pc = "mint"]
  <2>1. r \in Request /\ r.pc = "mint" /\ r.id = q.id
        /\ r.said = q.said /\ r.late = q.late /\ r.cred = q.cred
    BY <1>1 DEF Request
  <2>2. Set(t, r)
    BY <1>9 DEF Goto
  <2>3. k \in Taken /\ ~q.late
    BY <1>3, <1>9 DEF Taken
  <2> HIDE DEF r, q
  <2>4. Fits(r)
    BY <1>1, <1>9, <2>1, <2>3 DEF Fits
  <2> QED BY <1>4, <1>9, <2>1, <2>2, <2>4
<1>10. CASE k \in Marked /\ Goto(t, "record") /\ UNCHANGED used
  <2> DEFINE r == [q EXCEPT !.pc = "record"]
  <2>1. r \in Request /\ r.pc = "record" /\ r.id = q.id
        /\ r.said = q.said /\ r.late = q.late /\ r.cred = q.cred
    BY <1>1 DEF Request
  <2>2. Set(t, r)
    BY <1>10 DEF Goto
  <2>3. ~q.late /\ (k = "envelope" => ticket[q.id].ts - Freshness <= clock)
    BY <1>1, <1>3, <1>10 DEF Fits
  <2> HIDE DEF r, q
  <2>4. Fits(r)
    BY <1>1, <1>10, <2>1, <2>3 DEF Fits
  <2> QED BY <1>4, <1>10, <2>1, <2>2, <2>4
<1>11. CASE Grant(t)
  BY <1>1, <1>8, <1>9, <1>11 DEF Grant
<1>12. CASE Exchange(t)
  BY <1>1, <1>5, <1>8, <1>12 DEF Exchange, Of
<1>13. CASE Verify(t)
  BY <1>1, <1>8, <1>10, <1>13 DEF Verify, Of
<1> QED BY <1>6, <1>7, <1>8, <1>11, <1>12, <1>13 DEF Judge

LEMMA ReadLinksKeeps == ASSUME TicketInv, NEW t \in Slot, ReadLinks(t) PROVE TicketInv'
<1> DEFINE q == req[t]
           r == [q EXCEPT !.pc = "append", !.links = facet[q.cred]]
<1>1. /\ q \in Request /\ Fits(q) /\ q.pc = "links" /\ q.id \in 1..minted
      /\ ticket[q.id].kind \in {"state", "nonce"} /\ ~q.late
      /\ q.cred \in Credential
  BY TicketNow DEF ReadLinks, Fits, Stopped, Request
<1>2. UNCHANGED <<minted, ticket, live, until, usage, facet, clock, alone,
                  world, used>> /\ begun' \in 0..MaxBegins
  BY DEF ReadLinks, TicketInv, TypeOK
<1>3. facet[q.cred] \in Seq(Agent)
  BY <1>1 DEF TicketInv, TypeOK
<1>4. r \in Request /\ r.pc = "append" /\ r.id = q.id /\ r.agent = q.agent
      /\ r.said = q.said /\ r.late = q.late /\ r.cred = q.cred
  BY <1>1, <1>3 DEF Request
<1>5. Set(t, r)
  BY DEF ReadLinks
<1> HIDE DEF r, q
<1>6. Fits(r)
  BY <1>1, <1>4 DEF Fits
<1> QED BY <1>2, <1>4, <1>5, <1>6, RequestMoves

\* A facet list is written back with one agent more.
LEMMA LinkedIs ==
  ASSUME NEW r \in Request, r.agent \in Agent
  PROVE  Linked(r) \in Seq(Agent)
BY DEF Linked, Request

LEMMA AppendKeeps == ASSUME TicketInv, NEW t \in Slot, Append_(t) PROVE TicketInv'
<1> DEFINE q == req[t]
           k == ticket[q.id].kind
<1>1. /\ q \in Request /\ Fits(q) /\ q.pc = "append" /\ q.id \in 1..minted
      /\ k \in {"state", "nonce"} /\ ~q.late /\ q.id \notin live
      /\ q.cred \in Credential /\ q.agent \in Agent /\ Of(t).kind = k
  BY TicketNow DEF Append_, Fits, Stopped, Request, Of
<1>2. /\ UNCHANGED <<minted, ticket, live, until, usage, clock, begun, alone,
                     world>>
      /\ facet' = IF Has(q) THEN facet ELSE [facet EXCEPT ![q.cred] = Linked(q)]
  BY DEF Append_
<1>3. TypeOK /\ clock' \in Time /\ clock' >= clock
  BY <1>2, TicketNow DEF TicketInv, TypeOK, Time
<1>4. facet' \in [Credential -> Seq(Agent)]
  BY <1>1, <1>2, <1>3, LinkedIs DEF TypeOK
<1>5. ASSUME NEW r \in Request, Set(t, r), Fits(r), Grows, \A i \in Id : Tied(i)',
             used' \in [Id -> Nat]
      PROVE  TicketInv'
  <2>1. Fits(r)'
    BY <1>5, FitsGrow
  <2>2. req' \in [Slot -> Request] /\ \A u \in Slot : Fits(req[u])'
    BY <1>5, <2>1, OneStep
  <2> QED BY <1>2, <1>3, <1>4, <1>5, <2>2, InvStep DEF TypeOK
<1>6. CASE k = "state" /\ Set(t, [q EXCEPT !.pc = "mint", !.links = <<>>])
           /\ UNCHANGED used
  <2> DEFINE r == [q EXCEPT !.pc = "mint", !.links = <<>>]
  <2>1. r \in Request /\ r.pc = "mint" /\ r.id = q.id
        /\ r.said = q.said /\ r.late = q.late /\ r.cred = q.cred
    <3>1. <<>> \in Seq(Agent)
      OBVIOUS
    <3> QED BY <1>1, <3>1 DEF Request
  <2>2. Set(t, r)
    BY <1>6
  <2> HIDE DEF r
  <2>3. Fits(r)
    BY <1>1, <1>6, <2>1 DEF Fits
  <2>4. Grows /\ (\A i \in Id : Tied(i)') /\ used' \in [Id -> Nat]
    BY <1>2, <1>3, <1>6, QuietTied DEF TypeOK
  <2> QED BY <1>5, <2>1, <2>2, <2>3, <2>4
<1>7. CASE Succeeds(t)
  <2>1. Ended(q) \in Request /\ Fits(Ended(q))
    BY <1>1, EndedFits
  <2>2. PICK r \in Request : r = Ended(q) /\ Fits(r) /\ Set(t, r)
    BY <1>7, <2>1 DEF Succeeds
  <2>3. k \in Taken /\ used' = [used EXCEPT ![q.id] = @ + 1]
    BY <1>1, <1>7 DEF Succeeds, Used, Taken
  <2>4. Grows /\ (\A i \in Id : Tied(i)') /\ used' \in [Id -> Nat]
    BY <1>1, <1>2, <2>3, UseTied
  <2> QED BY <1>5, <2>2, <2>4
<1>8. \/ k = "state" /\ Set(t, [q EXCEPT !.pc = "mint", !.links = <<>>])
         /\ UNCHANGED used
      \/ Succeeds(t)
  BY <1>1 DEF Append_
<1> QED BY <1>6, <1>7, <1>8

LEMMA MintCodeKeeps == ASSUME TicketInv, NEW t \in Slot, MintCode(t) PROVE TicketInv'
<1> DEFINE q == req[t]
           k == ticket[q.id].kind
           app == ticket[q.id].app
           root == ticket[q.id].root
<1>1. /\ q \in Request /\ Fits(q) /\ q.pc = "mint" /\ q.id \in 1..minted
      /\ q.id \in Id /\ k \in {"state", "grant"} /\ ~q.late /\ q.id \notin live
  BY TicketNow DEF MintCode, Fits, Stopped, Request
<1>2. /\ UNCHANGED <<until, usage, facet, clock, begun, alone, world>>
      /\ Succeeds(t)
  BY DEF MintCode
<1>3. TypeOK /\ ticket[q.id] \in Ticket /\ Tied(q.id) /\ clock \in Nat
      /\ clock <= MaxTime /\ minted \in Nat
  BY <1>1, TicketNow DEF TicketInv
<1>4. app \in App /\ root \in Id /\ root \in 1..minted /\ ticket[root].app = app
  BY <1>1, <1>3 DEF Ticket, Tied
<1>5. PICK c \in {"code", "authcode"} : New(c, app, NoAgent, clock, root)
  BY DEF MintCode, Of
<1>6. c \in Kind /\ NoAgent \in Agent \cup {NoAgent}
      /\ clock \in -Freshness..MaxTime + Freshness
  BY <1>3 DEF Kind, Taken
<1>7. k \in Taken /\ used' = [used EXCEPT ![q.id] = @ + 1]
  BY <1>1, <1>2 DEF Succeeds, Used, Taken
<1>8. /\ minted' \in 0..MaxTickets /\ ticket' \in [Id -> Ticket]
      /\ live' \subseteq {i \in 1..minted' : ticket'[i].kind \in Taken}
  BY <1>4, <1>5, <1>6, NewTicket
<1>9. \E j \in 1..minted : /\ ticket[j].kind \in Taken /\ j \notin live
                           /\ used' = [used EXCEPT ![j] = @ + 1]
  BY <1>1, <1>7
<1>10. Grows /\ (\A i \in Id : Tied(i)') /\ used' \in [Id -> Nat]
  BY <1>2, <1>4, <1>5, <1>6, <1>9, NewTied
<1>11. Ended(q) \in Request /\ Fits(Ended(q))
  BY <1>1, EndedFits
<1>12. PICK r \in Request : r = Ended(q) /\ Fits(r) /\ Set(t, r)
  BY <1>2, <1>11 DEF Succeeds
<1>13. req' \in [Slot -> Request] /\ \A u \in Slot : Fits(req[u])'
  BY <1>10, <1>12, FitsGrow, OneStep
<1> QED BY <1>2, <1>3, <1>8, <1>10, <1>13, InvStep DEF TypeOK

\* An envelope or a message is marked when it is used, a token counted.
LEMMA RecordKeeps == ASSUME TicketInv, NEW t \in Slot, Record(t) PROVE TicketInv'
<1> DEFINE q == req[t]
           i == q.id
           k == ticket[i].kind
<1>1. /\ q \in Request /\ Fits(q) /\ q.pc = "record" /\ i \in 1..minted
      /\ i \in Id /\ k \in Marked \cup {"token"} /\ ~q.late
      /\ k = "envelope" => ticket[i].ts - Freshness <= clock
      /\ Of(t).kind = k
  BY TicketNow DEF Record, Fits, Stopped, Request, Of
<1>2. /\ UNCHANGED <<minted, ticket, live, facet, clock, begun, alone, world>>
      /\ until' \in [Id -> {-1} \cup Nat] /\ usage' \in [Id -> Nat]
      /\ \A j \in Id \ {i} : until'[j] = until[j] /\ usage'[j] = usage[j]
      /\ k \in Marked => until'[i] = clock + Kept(k)
      /\ k = "token" => usage'[i] = usage[i] + 1
  <2>0. UNCHANGED <<minted, ticket, live, facet, clock, begun, alone, world>>
    BY DEF Record
  <2>1. until \in [Id -> {-1} \cup Nat] /\ usage \in [Id -> Nat]
        /\ clock + Kept(k) \in Nat /\ usage[i] + 1 \in Nat
    <3>1. clock \in Nat /\ Kept(k) \in Nat
      BY TicketNow DEF Kept, Keep
    <3> QED BY <1>1, <3>1, TicketNow DEF TicketInv, TypeOK
  <2>2. CASE k = "token"
    <3>1. usage' = [usage EXCEPT ![i] = @ + 1] /\ UNCHANGED until
      BY <1>1, <2>2 DEF Record
    <3>2. k \notin Marked
      BY <2>2 DEF Marked
    <3> QED BY <1>1, <2>0, <2>1, <2>2, <3>1, <3>2
  <2>3. CASE k # "token"
    <3>1. until' = [until EXCEPT ![i] = clock + Kept(k)] /\ UNCHANGED usage
      BY <1>1, <2>3 DEF Record
    <3> QED BY <1>1, <2>0, <2>1, <2>3, <3>1
  <2> QED BY <2>2, <2>3
<1>3. \/ UNCHANGED used /\ Refused(t)
      \/ /\ used' = [used EXCEPT ![i] = @ + 1] /\ Set(t, Ended(q))
         /\ k = "token" => usage[i] + 1 <= Limit
  BY <1>1 DEF Record, Succeeds, Used
<1>4. /\ used \in [Id -> Nat] /\ used' \in [Id -> Nat]
      /\ \A j \in Id \ {i} : used'[j] = used[j]
      /\ \/ used'[i] = used[i]
         \/ used'[i] = used[i] + 1 /\ (k = "token" => usage[i] + 1 <= Limit)
  <2>1. used \in [Id -> Nat] /\ i \in Id /\ used[i] \in Nat
    BY <1>1 DEF TicketInv, TypeOK
  <2>2. CASE UNCHANGED used
    BY <2>1, <2>2
  <2>3. CASE /\ used' = [used EXCEPT ![i] = @ + 1]
             /\ k = "token" => usage[i] + 1 <= Limit
    <3> HIDE DEF q, i, k
    <3> QED BY <2>1, <2>3
  <2> QED BY <1>3, <2>2, <2>3
<1>5. Grows
  <2>1. 1..minted \subseteq Id
    BY TicketNow DEF Id
  <2>2. \A j \in Id : used[j] \in Nat /\ used'[j] \in Nat /\ used'[j] >= used[j]
    BY <1>4
  <2>3. \A j \in Id : /\ until'[j] \in Int
                       /\ (until'[j] >= until[j] \/ until'[j] >= clock)
    <3>1. \A j \in Id : until[j] \in Int
      BY TicketNow
    <3>2. k \in Marked => until'[i] \in Int /\ until'[i] >= clock
      BY <1>2, TicketNow DEF Kept, Keep
    <3>3. k \notin Marked => UNCHANGED until
      BY <1>1 DEF Record, Marked
    <3> QED BY <1>2, <3>1, <3>2, <3>3
  <2> QED BY <1>2, <2>1, <2>2, <2>3, TicketNow DEF Grows
<1>6. ASSUME NEW j \in Id PROVE Tied(j)'
  <2>1. /\ Tied(j) /\ ticket[j].ts \in Int /\ until[j] \in Int /\ usage[j] \in Nat
        /\ used[j] \in Nat /\ clock \in Nat /\ minted \in Nat
        /\ j \in Nat
    BY TicketNow
  <2>2. CASE j # i
    BY <1>2, <1>4, <2>1, <2>2 DEF Tied
  <2>3. CASE j = i
    <3>1. /\ ~(j > minted) /\ ticket'[j] = ticket[j] /\ live' = live
          /\ ticket' = ticket /\ minted' = minted /\ clock' = clock
      BY <1>1, <1>2, <2>1, <2>3
    <3>2. k = "envelope" => until'[j] >= ticket[j].ts + Freshness
      BY <1>1, <1>2, <2>1, <2>3 DEF Kept, Keep, Marked
    <3>4. k = "token" => used'[j] <= usage'[j] /\ used'[j] <= Limit
      <4>1. k = "token" => used[j] <= usage[j] /\ used[j] <= Limit
        BY <2>1, <2>3 DEF Tied
      <4> QED BY <1>2, <1>4, <2>1, <2>3, <4>1
    <3>5. k \notin Taken
      BY <1>1 DEF Taken, Marked
    <3> QED BY <2>1, <2>3, <3>1, <3>2, <3>4, <3>5 DEF Tied
  <2> QED BY <2>2, <2>3
<1>7. \E r \in Request : Set(t, r) /\ Fits(r)
  <2>1. CASE Refused(t)
    BY <2>1, RefusedIs
  <2>2. CASE Set(t, Ended(q))
    <3>1. k \notin {"code", "authcode"}
      BY <1>1 DEF Marked
    <3> QED BY <1>1, <2>2, <3>1, EndedFits
  <2> QED BY <1>3, <2>1, <2>2
<1>8. PICK r \in Request : Set(t, r) /\ Fits(r)
  BY <1>7
<1>9. req' \in [Slot -> Request] /\ \A u \in Slot : Fits(req[u])'
  BY <1>5, <1>8, FitsGrow, OneStep
<1> QED BY <1>2, <1>4, <1>6, <1>9, InvStep DEF TicketInv, TypeOK

LEMMA DieKeeps == ASSUME TicketInv, NEW t \in Slot, Die(t) PROVE TicketInv'
<1>1. UNCHANGED <<minted, ticket, live, until, usage, facet, clock, alone,
                  world, used>> /\ begun' \in 0..MaxBegins /\ Refused(t)
  BY DEF Die, Refused, TicketInv, TypeOK
<1> QED BY <1>1, RefusedIs, RequestMoves

\* What a sign-in begins with.
LEMMA MakeKeeps == ASSUME TicketInv, Make PROVE TicketInv'
<1>1. UNCHANGED <<until, usage, facet, req, clock, begun, alone, world, used>>
  BY DEF Make
<1>2. TypeOK /\ clock \in Nat /\ clock <= MaxTime /\ minted \in Nat
      /\ (\A t \in Slot : req[t] \in Request /\ Fits(req[t]))
  BY TicketNow DEF TicketInv
<1>3. PICK k \in Kind, app \in App, link \in Agent \cup {NoAgent},
           ts \in -Freshness..MaxTime + Freshness :
        New(k, app, link, ts, minted + 1)
  <2>1. clock \in -Freshness..MaxTime + Freshness
        /\ \A d \in -Freshness..Freshness :
             clock + d \in -Freshness..MaxTime + Freshness
    BY <1>2
  <2>2. CASE StartSocial
    BY <2>1, <2>2 DEF StartSocial, First, Kind, Taken
  <2>3. CASE IssueNonce
    BY <2>1, <2>3 DEF IssueNonce, First, Kind, Taken
  <2>4. CASE AuthorizeGrant
    BY <2>1, <2>4 DEF AuthorizeGrant, First, Kind, Taken
  <2>5. CASE SignEnvelope
    <3>1. PICK d \in -Freshness..Freshness :
            New("envelope", Home, NoAgent, clock + d, minted + 1)
      BY <2>5 DEF SignEnvelope, First
    <3>2. "envelope" \in Kind /\ "envelope" # "siwe"
      BY DEF Kind, Marked
    <3>3. PICK ts \in -Freshness..MaxTime + Freshness : ts = clock + d
      BY <2>1
    <3> QED BY <3>1, <3>2, <3>3
  <2>6. CASE SignSiwe
    <3>1. "siwe" \in Kind
      BY DEF Kind, Marked
    <3> QED BY <2>1, <2>6, <3>1 DEF SignSiwe, First
  <2>7. CASE MintToken
    BY <2>1, <2>7 DEF MintToken, First, Kind
  <2> QED BY <2>2, <2>3, <2>4, <2>5, <2>6, <2>7 DEF Make
<1>4. minted + 1 \in Id
  BY <1>2, <1>3 DEF New, Id
<1>5. /\ minted' \in 0..MaxTickets /\ ticket' \in [Id -> Ticket]
      /\ live' \subseteq {i \in 1..minted' : ticket'[i].kind \in Taken}
  BY <1>3, <1>4, NewTicket
<1>6. Grows /\ (\A i \in Id : Tied(i)') /\ used' \in [Id -> Nat]
  BY <1>1, <1>3, <1>4, NewTied
<1>7. ASSUME NEW u \in Slot PROVE Fits(req[u])'
  <2>1. PICK r \in Request : r = req[u] /\ Fits(r)
    BY <1>2
  <2>2. Fits(r)'
    BY <1>6, <2>1, FitsGrow
  <2>3. r = req'[u]
    BY <1>1, <2>1
  <2> QED BY <2>2, <2>3 DEF Fits, Stopped
<1> QED BY <1>1, <1>2, <1>5, <1>6, <1>7, InvStep DEF TypeOK

LEMMA WaitKeeps == ASSUME TicketInv, Lapse \/ Tick PROVE TicketInv'
<1>1. UNCHANGED <<minted, ticket, until, usage, facet, req, begun, alone,
                  world, used>>
      /\ live' \subseteq live
  BY DEF Lapse, Tick
<1>2. TypeOK /\ (\A t \in Slot : req[t] \in Request /\ Fits(req[t]))
      /\ clock \in Nat /\ clock <= MaxTime
  BY TicketNow DEF TicketInv
<1>3. clock' \in Time /\ clock' >= clock
  BY <1>2 DEF Lapse, Tick, Time
<1>4. /\ Grows /\ (\A i \in Id : Tied(i)')
      /\ live' \subseteq {i \in 1..minted' : ticket'[i].kind \in Taken}
  BY <1>1, <1>3, QuietTied
<1>5. ASSUME NEW u \in Slot PROVE Fits(req[u])'
  <2>1. PICK r \in Request : r = req[u] /\ Fits(r)
    BY <1>2
  <2>2. Fits(r)'
    BY <1>4, <2>1, FitsGrow
  <2>3. r = req'[u]
    BY <1>1, <2>1
  <2> QED BY <2>2, <2>3 DEF Fits, Stopped
<1> QED BY <1>1, <1>2, <1>3, <1>4, <1>5, InvStep DEF TypeOK

LEMMA TicketInit == Init => TicketInv
<1> SUFFICES ASSUME Init PROVE TicketInv
  OBVIOUS
<1>1. 1 \in Id /\ Id \subseteq Nat /\ \A i \in Id : i > 0
  BY DEF Id
<1>2. TypeOK
  <2>2. Idle \in Request
    BY IdleRequest
  <2>3. ticket \in [Id -> Ticket]
    BY <1>1 DEF Init, Ticket, Kind
  <2>4. until \in [Id -> {-1} \cup Nat] /\ usage \in [Id -> Nat]
        /\ used \in [Id -> Nat] /\ facet \in [Credential -> Seq(Agent)]
    BY DEF Init
  <2> QED BY <2>2, <2>3, <2>4 DEF Init, TypeOK, Time
<1>3. \A i \in Id : Tied(i)
  BY <1>1 DEF Init, Tied
<1>4. \A t \in Slot : Fits(req[t])
  BY <1>2, IdleFits DEF Init
<1> QED BY <1>2, <1>3, <1>4 DEF TicketInv

LEMMA TicketNext == TicketInv /\ [Next]_vars => TicketInv'
<1> SUFFICES ASSUME TicketInv, [Next]_vars PROVE TicketInv'
  OBVIOUS
<1>1. CASE UNCHANGED vars
  <2>1. TypeOK'
    BY <1>1 DEF vars, TicketInv, TypeOK
  <2>2. \A i \in Id : Tied(i)'
    BY <1>1 DEF vars, TicketInv, Tied
  <2>3. \A t \in Slot : Fits(req[t])'
    BY <1>1 DEF vars, TicketInv, Fits, Stopped
  <2> QED BY <2>1, <2>2, <2>3 DEF TicketInv
<1> QED BY <1>1, PresentKeeps, GetKeeps, SeenKeeps, DeleteKeeps, JudgeKeeps, ReadLinksKeeps,
           AppendKeeps, MintCodeKeeps, RecordKeeps, DieKeeps, MakeKeeps,
           WaitKeeps DEF Next

-----------------------------------------------------------------------------
(* The facet lists, with one request at a time for a credential *)

FacetInv ==
  alone =>
    /\ \A t, u \in Slot :
         Active(t) /\ Active(u) /\ req[t].cred = req[u].cred
           /\ req[t].cred # NoCredential => t = u
    /\ \A t \in Slot : req[t].pc = "append" => req[t].links = facet[req[t].cred]

LEMMA FacetStep ==
  ASSUME TicketInv, FacetInv, NEW t \in Slot, NEW r \in Request, Set(t, r),
         alone' = alone,
         \/ r.pc = "done"
         \/ Active(t) /\ r.cred = req[t].cred
         \/ alone /\ r.cred # NoCredential =>
              \A u \in Slot : Active(u) => req[u].cred # r.cred,
         r.pc = "append" => r.links = facet'[r.cred],
         \A u \in Slot \ {t} : alone /\ req[u].pc = "append" =>
           facet'[req[u].cred] = facet[req[u].cred]
  PROVE  FacetInv'
<1>1. req'[t] = r /\ \A u \in Slot \ {t} : req'[u] = req[u]
  BY DEF Set, TicketInv, TypeOK
<1> SUFFICES ASSUME alone PROVE FacetInv'
  BY DEF FacetInv
<1>2. ASSUME NEW u \in Slot, NEW v \in Slot, Active(u)', Active(v)',
             req'[u].cred = req'[v].cred, req'[u].cred # NoCredential
      PROVE  u = v
  <2>1. CASE u # t /\ v # t
    BY <1>1, <1>2, <2>1 DEF FacetInv, Active
  <2>2. ASSUME NEW w \in Slot \ {t}, Active(w), r.pc # "done", req[w].cred = r.cred,
               r.cred # NoCredential
        PROVE  FALSE
    BY <2>2 DEF FacetInv
  <2>3. CASE u = t /\ v # t
    BY <1>1, <1>2, <2>2, <2>3 DEF Active
  <2>4. CASE u # t /\ v = t
    BY <1>1, <1>2, <2>2, <2>4 DEF Active
  <2> QED BY <2>1, <2>3, <2>4
<1>3. ASSUME NEW u \in Slot, req'[u].pc = "append"
      PROVE  req'[u].links = facet'[req'[u].cred]
  BY <1>1, <1>3 DEF FacetInv
<1> QED BY <1>2, <1>3 DEF FacetInv

\* Every step but a presentation and an append leaves the lists alone and the
\* request with its credential.
LEMMA FacetQuiet ==
  ASSUME TicketInv, FacetInv, NEW t \in Slot,
         \/ Get(t) \/ Seen(t) \/ Delete(t) \/ Judge(t) \/ MintCode(t)
         \/ Record(t) \/ Die(t) \/ ReadLinks(t)
  PROVE  FacetInv' /\ UNCHANGED facet
<1> DEFINE q == req[t]
<1>1. /\ q \in Request /\ Active(t) /\ facet' = facet /\ alone' = alone
      /\ Idle \in Request /\ Idle.pc = "done"
  BY TicketNow, IdleFits DEF TicketInv, Get, Seen, Delete, Judge, MintCode, Record, Die,
                             ReadLinks, Active, Idle
<1>2. ASSUME NEW r \in Request, Set(t, r), r.pc = "done" \/ r.cred = q.cred,
             r.pc = "append" => r.links = facet[r.cred]
      PROVE  FacetInv'
  BY <1>1, <1>2, FacetStep
<1>3. CASE Refused(t)
  BY <1>1, <1>2, <1>3 DEF Refused
<1>4. ASSUME NEW pc \in {"delete", "judge", "mint", "record"}, Goto(t, pc)
      PROVE  FacetInv'
  <2>1. [q EXCEPT !.pc = pc] \in Request /\ [q EXCEPT !.pc = pc].cred = q.cred
        /\ [q EXCEPT !.pc = pc].pc = pc
    BY <1>1 DEF Request
  <2> QED BY <1>2, <1>4, <2>1 DEF Goto
<1>5. CASE Set(t, Ended(q))
  <2>2. Ended(q) \in Request /\ Ended(q).pc = "done"
    BY <1>1, EndedRequest
  <2> QED BY <1>1, <1>2, <1>5, <2>2
<1>6. CASE Get(t)
  <2>1. \/ Refused(t) \/ Goto(t, "record")
        \/ Set(t, [q EXCEPT !.pc = "delete", !.found = q.id \in live])
        \/ Set(t, [q EXCEPT !.pc = "seen", !.at = clock])
    <3>1. Of(t).kind \in Kind
      BY <1>1, TicketNow DEF Of, Ticket
    <3> QED BY <1>6, <3>1 DEF Get, Kind, Marked, Taken
  <2>2. CASE Set(t, [q EXCEPT !.pc = "delete", !.found = q.id \in live])
    <3> DEFINE r == [q EXCEPT !.pc = "delete", !.found = q.id \in live]
    <3>0. (q.id \in live) \in BOOLEAN
      OBVIOUS
    <3>1. r \in Request /\ r.cred = q.cred /\ r.pc = "delete"
      BY <1>1, <3>0 DEF Request
    <3> HIDE DEF r
    <3>2. Set(t, r)
      BY <2>2 DEF r
    <3> QED BY <1>1, <1>2, <3>1, <3>2
  <2>3. CASE Set(t, [q EXCEPT !.pc = "seen", !.at = clock])
    <3>0. PICK now \in Time : now = clock
      BY TicketNow DEF Time
    <3> DEFINE r == [q EXCEPT !.pc = "seen", !.at = now]
    <3>1. r \in Request /\ r.cred = q.cred /\ r.pc = "seen"
      BY <1>1 DEF Request
    <3>2. Set(t, r)
      BY <2>3, <3>0
    <3> HIDE DEF r
    <3> QED BY <1>1, <1>2, <3>1, <3>2
  <2> QED BY <1>1, <1>3, <1>4, <2>1, <2>2, <2>3
<1>13. CASE Seen(t)
  <2>1. CASE Set(t, [q EXCEPT !.pc = "judge", !.at = 0,
                              !.late = @ /\ q.at = clock])
    <3>1. PICK late \in BOOLEAN : late = (q.late /\ q.at = clock)
      OBVIOUS
    <3>2. 0 \in Time
      BY DEF Time
    <3> DEFINE r == [q EXCEPT !.pc = "judge", !.at = 0, !.late = late]
    <3>3. r \in Request /\ r.cred = q.cred /\ r.pc = "judge"
      BY <1>1, <3>2 DEF Request
    <3>4. Set(t, r)
      BY <2>1, <3>1
    <3> HIDE DEF r
    <3> QED BY <1>1, <1>2, <3>3, <3>4
  <2> QED BY <1>3, <1>13, <2>1 DEF Seen
<1>7. CASE Delete(t)
  BY <1>3, <1>4, <1>7 DEF Delete
<1>8. CASE Judge(t)
  <2>1. ASSUME NEW a \in Agent, NEW pc \in {"links", "mint"},
               Set(t, [q EXCEPT !.agent = a, !.pc = pc])
        PROVE  FacetInv'
    <3> DEFINE r == [q EXCEPT !.agent = a, !.pc = pc]
    <3>1. r \in Request /\ r.cred = q.cred /\ r.pc = pc
      BY <1>1 DEF Request
    <3> HIDE DEF r
    <3>2. Set(t, r)
      BY <2>1 DEF r
    <3> QED BY <1>2, <3>1, <3>2
  <2>2. ticket[q.id] \in Ticket
    BY <1>1, TicketNow DEF Request
  <2>3. CASE Callback(t)
    <3>1. q.cred \in Credential
      BY <1>8, <2>3, TicketNow DEF Judge, Callback, Fits, Of, Request
    <3>2. Of(t).link # NoAgent => Of(t).link \in Agent
      BY <2>2 DEF Of, Ticket
    <3>3. HomeOf[q.cred] \in Agent /\ (Oldest(q.cred) # NoAgent => Oldest(q.cred) \in Agent)
      BY <3>1, OldestIs
    <3> QED BY <1>1, <1>3, <2>1, <2>3, <3>2, <3>3 DEF Callback
  <2>4. CASE Prove(t)
    BY <1>1, <2>1, <2>4 DEF Prove
  <2>5. CASE Grant(t) \/ Exchange(t) \/ Verify(t)
    BY <1>1, <1>3, <1>4, <1>5, <2>5 DEF Grant, Exchange, Verify, Succeeds
  <2> QED BY <1>3, <1>8, <2>3, <2>4, <2>5 DEF Judge
<1>9. CASE MintCode(t)
  BY <1>5, <1>9 DEF MintCode, Succeeds
<1>10. CASE Record(t)
  BY <1>3, <1>5, <1>10 DEF Record, Succeeds
<1>11. CASE Die(t)
  BY <1>3, <1>11 DEF Die, Refused
<1>12. CASE ReadLinks(t)
  <2> DEFINE r == [q EXCEPT !.pc = "append", !.links = facet[q.cred]]
  <2>1. q.cred \in Credential
    BY <1>12, TicketNow DEF ReadLinks, Fits, Request
  <2>2. facet[q.cred] \in Seq(Agent)
    BY <2>1 DEF TicketInv, TypeOK
  <2>3. r \in Request /\ r.cred = q.cred /\ r.links = facet[q.cred]
    BY <1>1, <2>2 DEF Request
  <2> HIDE DEF r
  <2>4. Set(t, r)
    BY <1>12 DEF ReadLinks, r
  <2> QED BY <1>1, <1>2, <2>3, <2>4
<1> QED BY <1>1, <1>6, <1>7, <1>8, <1>9, <1>10, <1>11, <1>12, <1>13

LEMMA FacetPresent ==
  ASSUME TicketInv, FacetInv, NEW t \in Slot, Present(t)
  PROVE  FacetInv' /\ UNCHANGED facet
<1>1. PICK i \in 1..minted, app \in App, c \in Credential \cup {NoCredential} :
       /\ alone /\ c # NoCredential => \A u \in Slot : Active(u) => req[u].cred # c
       /\ Set(t, [id |-> i, app |-> app, cred |-> c,
                  pc |-> IF ticket[i].kind = "siwe" THEN "seen" ELSE "get",
                  found |-> FALSE, agent |-> NoAgent, links |-> <<>>,
                  said |-> "nothing",
                  at |-> IF ticket[i].kind = "siwe" THEN clock ELSE 0,
                  late |-> Late(i)])
  BY DEF Present
<1>2. UNCHANGED <<facet, alone>>
  BY DEF Present
<1>5. PICK late \in BOOLEAN : late = Late(i)
  BY DEF Late
<1>6. PICK pc \in {"get", "seen"} :
         pc = IF ticket[i].kind = "siwe" THEN "seen" ELSE "get"
  OBVIOUS
<1>7. PICK at \in Time : at = IF ticket[i].kind = "siwe" THEN clock ELSE 0
  BY TicketNow DEF Time
<1> DEFINE r == [id |-> i, app |-> app, cred |-> c, pc |-> pc,
                 found |-> FALSE, agent |-> NoAgent, links |-> <<>>,
                 said |-> "nothing", at |-> at, late |-> late]
<1>3. r \in Request /\ r.cred = c /\ r.pc = pc
  <2>1. i \in Id /\ <<>> \in Seq(Agent)
    BY TicketNow DEF Id
  <2> QED BY <2>1 DEF Request
<1>4. Set(t, r)
  BY <1>1, <1>5, <1>6, <1>7
<1> HIDE DEF r
<1> QED BY <1>1, <1>2, <1>3, <1>4, FacetStep

\* An append adds one agent at the end of the list the request read, which
\* is still the list.
LEMMA FacetAppend ==
  ASSUME TicketInv, FacetInv, NEW t \in Slot, Append_(t)
  PROVE  /\ FacetInv'
         /\ alone => \A c \in Credential :
              facet'[c] = facet[c] \/ \E a \in Agent : facet'[c] = Append(facet[c], a)
<1> DEFINE q == req[t]
<1>1. /\ q \in Request /\ q.pc = "append" /\ q.cred \in Credential
      /\ q.agent \in Agent /\ Active(t)
  BY TicketNow DEF Append_, Fits, Request, Active
<1>2. /\ alone' = alone
      /\ facet' = IF Has(q) THEN facet ELSE [facet EXCEPT ![q.cred] = Linked(q)]
  BY DEF Append_
<1>3. facet \in [Credential -> Seq(Agent)]
  BY DEF TicketInv, TypeOK
<1>4. \A c \in Credential \ {q.cred} : facet'[c] = facet[c]
  BY <1>1, <1>2, <1>3
<1>5. alone => facet'[q.cred] = facet[q.cred]
                \/ facet'[q.cred] = Append(facet[q.cred], q.agent)
  <2>1. alone => q.links = facet[q.cred]
    BY <1>1 DEF FacetInv
  <2> QED BY <1>1, <1>2, <1>3, <2>1 DEF Linked
<1>6. alone => \A c \in Credential :
        facet'[c] = facet[c] \/ \E a \in Agent : facet'[c] = Append(facet[c], a)
  BY <1>1, <1>4, <1>5
<1>7. ASSUME NEW u \in Slot \ {t}, alone, req[u].pc = "append"
      PROVE  facet'[req[u].cred] = facet[req[u].cred]
  <2>1. req[u].cred \in Credential /\ Active(u)
    BY <1>7, TicketNow DEF Fits, Request, Active
  <2>2. req[u].cred # q.cred
    BY <1>1, <1>7, <2>1 DEF FacetInv
  <2> QED BY <1>4, <2>1, <2>2
<1>8. \E r \in Request : Set(t, r) /\ (r.pc = "done" \/ r.cred = q.cred)
                         /\ r.pc # "append"
  <2>0. <<>> \in Seq(Agent)
    OBVIOUS
  <2>1. CASE Set(t, [q EXCEPT !.pc = "mint", !.links = <<>>])
    <3> DEFINE r == [q EXCEPT !.pc = "mint", !.links = <<>>]
    <3>1. r \in Request /\ r.cred = q.cred /\ r.pc = "mint"
      BY <1>1, <2>0 DEF Request
    <3> HIDE DEF r
    <3>2. Set(t, r)
      BY <2>1 DEF r
    <3> QED BY <3>1, <3>2
  <2>2. CASE Set(t, Ended(q))
    <3>1. Ended(q) \in Request /\ Ended(q).pc = "done"
      BY <1>1, EndedRequest
    <3> QED BY <2>2, <3>1
  <2> QED BY <2>1, <2>2 DEF Append_, Succeeds
<1>9. FacetInv'
  BY <1>1, <1>2, <1>7, <1>8, FacetStep
<1> QED BY <1>6, <1>9

LEMMA FacetWait ==
  ASSUME FacetInv, Make \/ Lapse \/ Tick \/ UNCHANGED vars
  PROVE  FacetInv' /\ UNCHANGED facet
<1>1. UNCHANGED <<facet, req, alone>>
  BY DEF Make, Lapse, Tick, vars
<1> QED BY <1>1 DEF FacetInv, Active

\* What a step may do to the lists.
LEMMA FacetNext ==
  ASSUME TicketInv, FacetInv, [Next]_vars
  PROVE  /\ FacetInv'
         /\ alone => \A c \in Credential :
              facet'[c] = facet[c] \/ \E a \in Agent : facet'[c] = Append(facet[c], a)
<1>1. CASE \E t \in Slot : Append_(t)
  BY <1>1, FacetAppend
<1>2. CASE \E t \in Slot : Present(t)
  BY <1>2, FacetPresent
<1>3. CASE \E t \in Slot : \/ Get(t) \/ Seen(t) \/ Delete(t) \/ Judge(t) \/ MintCode(t)
                           \/ Record(t) \/ Die(t) \/ ReadLinks(t)
  BY <1>3, FacetQuiet
<1>4. CASE Make \/ Lapse \/ Tick \/ UNCHANGED vars
  BY <1>4, FacetWait
<1> QED BY <1>1, <1>2, <1>3, <1>4 DEF Next

\* A list that is kept, or has one more at its end, has grown at its end.
LEMMA GrownAtEnd ==
  ASSUME NEW s \in Seq(Agent), NEW u,
         u = s \/ \E a \in Agent : u = Append(s, a)
  PROVE  Len(s) <= Len(u) /\ SubSeq(u, 1, Len(s)) = s
<1>1. CASE u = s
  BY <1>1, SubSeqFull
<1>2. ASSUME NEW a \in Agent, u = Append(s, a)
      PROVE  Len(s) <= Len(u) /\ SubSeq(u, 1, Len(s)) = s
  <2>1. /\ u \in Seq(Agent) /\ Len(u) = Len(s) + 1 /\ Len(s) \in Nat
        /\ \A k \in 1..Len(s) : u[k] = s[k]
    BY <1>2
  <2>2. SubSeq(u, 1, Len(s)) \in Seq(Agent) /\ Len(SubSeq(u, 1, Len(s))) = Len(s)
        /\ \A k \in 1..Len(s) : SubSeq(u, 1, Len(s))[k] = u[k]
    BY <2>1
  <2>3. SubSeq(u, 1, Len(s)) = s
    BY <2>1, <2>2, SeqEqual
  <2> QED BY <2>1, <2>3
<1> QED BY <1>1, <1>2

LEMMA FacetInit == Init => FacetInv
BY DEF Init, FacetInv, Active, Idle

-----------------------------------------------------------------------------
(* What holds of every behaviour *)

\* A taken ticket is out of the store before it is judged, a marked one's
\* record outlives it, and a late request never passes its first look.
THEOREM TicketInvariant == Spec => []TicketInv
BY TicketInit, TicketNext, PTL DEF Spec

\* Every variable keeps its shape.
THEOREM TypeCorrect == Spec => []TypeOK
<1>1. TicketInv => TypeOK
  BY DEF TicketInv
<1> QED BY <1>1, TicketInvariant, PTL

\* No state, nonce, grant or code lets through a request that came after it was
\* used; nor does a SIWE message while its nonce is kept, nor an envelope while
\* the clock stands still between the two looks; and no token more than Limit.
THEOREM NeverUsedLate == Spec => []NoLateUse
<1>1. TicketInv => NoLateUse
  BY DEF TicketInv, NoLateUse, Fits, Stopped, Tied
<1> QED BY <1>1, TicketInvariant, PTL

\* A code that is redeemed goes to the app its sign-in was begun for.
THEOREM AlwaysBoundToApp == Spec => []BoundToApp
<1>1. ASSUME TicketInv, NEW t \in Slot, req[t].said = "ok",
             Of(t).kind \in {"code", "authcode"}
      PROVE  req[t].app = ticket[Of(t).root].app
  <2>1. Fits(req[t]) /\ req[t].id \in Id /\ minted \in Nat
    BY <1>1, TicketNow
  <2>2. req[t].id \in 1..minted /\ req[t].app = ticket[req[t].id].app
    BY <1>1, <2>1 DEF Fits, Of
  <2>3. Tied(req[t].id)
    BY <1>1, <2>1, TicketNow
  <2> QED BY <2>1, <2>2, <2>3 DEF Tied, Of
<1>2. TicketInv => BoundToApp
  BY <1>1 DEF BoundToApp
<1> QED BY <1>2, TicketInvariant, PTL

THEOREM FacetInvariant == Spec => []FacetInv
<1>1. TicketInv /\ FacetInv /\ [Next]_vars => FacetInv'
  BY FacetNext
<1> QED BY <1>1, FacetInit, TicketInvariant, PTL DEF Spec

\* With one request at a time for a credential, the agents linked to it
\* stay, in their order: the oldest, which the broker falls back on, is
\* always the same.
THEOREM FacetsAlwaysGrow == Spec => FacetsOnlyGrow
<1>1. ASSUME TicketInv, FacetInv, [Next]_vars
      PROVE  [alone => \A c \in Credential :
                /\ Len(facet[c]) <= Len(facet'[c])
                /\ SubSeq(facet'[c], 1, Len(facet[c])) = facet[c]]_vars
  <2>1. facet \in [Credential -> Seq(Agent)]
    BY <1>1 DEF TicketInv, TypeOK
  <2> QED BY <1>1, <2>1, FacetNext, GrownAtEnd
<1> QED BY <1>1, TicketInvariant, FacetInvariant, PTL DEF Spec, FacetsOnlyGrow
=============================================================================
