---------------------------- MODULE Homes_proofs ----------------------------
(***************************************************************************)
(* Homes, for any accounts, labels, tabs and number of attempts: its type  *)
(* invariant, what a request may be told, and what a calm world adds.      *)
(* Good says of a request what it has been told and what it did so far; it *)
(* is kept because labels, code and approvals are never taken back.        *)
(***************************************************************************)
EXTENDS Homes, TLAPS

Managed == {"treasury", "agent"}

Good(r) ==
  /\ r.pc # "done" => r.said = "nothing" /\ ~r.short /\ r.home \in Account
  /\ r.name # 0 /\ ~r.short /\ (r.pc # "done" \/ r.said \in {"ok", "warned"})
       => owner[r.name] = r.home /\ r.home \in Account
  /\ r.pc = "record" =>
       /\ r.home \in code \cap approved
       /\ r.label # 0 => owner[r.label] = r.home
  /\ r.hits <= r.lost + 1
  /\ r.pc \notin {"again", "done"} => r.hits <= r.lost
  /\ r.flow = "act" =>
       /\ r.pc # "done" => /\ r.pc \in {"build", "submit"} /\ r.hits = r.lost
                           /\ r.label = 0 /\ ~r.deploy
       /\ r.said = "ok" => r.hits = r.lost + 1

HomesInv ==
  /\ TypeOK /\ NoOrphanName /\ RecordedIsApproved
  /\ \A t \in Tab : Good(req[t])

\* Labels, code and approvals are never taken back.
Grows ==
  /\ \A l \in Label : owner[l] # NoHome => owner'[l] = owner[l]
  /\ code \subseteq code' /\ approved \subseteq approved'

USE HomesConstants

-----------------------------------------------------------------------------
(* Requests *)

LEMMA IdleGood == Idle \in Request /\ Good(Idle) /\ Good(Idle)'
BY DEF Idle, Request, Flow, Pc, Good

LEMMA GoodGrows ==
  ASSUME NEW r \in Request, Good(r), Grows
  PROVE  Good(r)'
<1>1. r.name # 0 => r.name \in Label
  BY DEF Request, Label
<1>2. r.label # 0 => r.label \in Label
  BY DEF Request, Label
<1>3. NoHome \notin Account
  OBVIOUS
<1>4. r.pc = "record" => r.home \in Account
  BY DEF Good
<1> QED BY <1>1, <1>2, <1>3, <1>4 DEF Good, Grows

LEMMA Zero == 0 \in 0..NLabel /\ 0 \in 0..(Attempts - 1) /\ 0 \in 0..(Resends - 1)
OBVIOUS

LEMMA EndedIs ==
  ASSUME NEW r \in Request, NEW said, NEW name
  PROVE  /\ Ended(r, said, name).pc = "done" /\ Ended(r, said, name).said = said
         /\ Ended(r, said, name).name = name
         /\ Ended(r, said, name).home = r.home
         /\ Ended(r, said, name).hits = r.hits
         /\ Ended(r, said, name).lost = r.lost
         /\ Ended(r, said, name).flow = r.flow
         /\ Ended(r, said, name).short = r.short
         /\ Ended(r, said, name).label = r.label
         /\ Ended(r, said, name).wish = r.wish
         /\ Ended(r, said, name).refused = r.refused
BY DEF Ended, Request

LEMMA EndedRequest ==
  ASSUME NEW r \in Request, NEW said \in {"ok", "failed", "warned"},
         NEW name \in 0..NLabel
  PROVE  Ended(r, said, name) \in Request
BY Zero DEF Ended, Request, Pc

\* A request may end with a name it owns or with none.
LEMMA EndedGood ==
  ASSUME NEW r \in Request, Good(r), r.pc # "done",
         NEW said \in {"ok", "failed", "warned"}, NEW name \in 0..NLabel,
         name # 0 => owner[name] = r.home, r.flow = "act" => said # "ok"
  PROVE  Ended(r, said, name) \in Request /\ Good(Ended(r, said, name))
<1>1. PICK e \in Request : e = Ended(r, said, name)
  BY EndedRequest
<1>2. /\ e.pc = "done" /\ e.said = said /\ e.name = name
      /\ e.home = r.home /\ e.hits = r.hits /\ e.lost = r.lost
      /\ e.flow = r.flow /\ e.short = r.short
  BY <1>1, EndedIs
<1>3. Good(e)
  BY <1>2 DEF Good
<1> QED BY <1>1, <1>3

\* A failed claim leaves the request without a name.
LEMMA ClaimedGood ==
  ASSUME NEW r \in Request, Good(r), r.pc \in {"pick", "build", "submit"}
  PROVE  Claimed(r, FALSE) \in Request /\ Good(Claimed(r, FALSE))
<1>1. CASE r.flow = "wallet" /\ r.fresh
  <2> DEFINE c == [r EXCEPT !.pc = "again", !.name = 0]
  <2>1. /\ c \in Request /\ c.pc = "again" /\ c.name = 0 /\ c.said = r.said
        /\ c.short = r.short /\ c.home = r.home /\ c.hits = r.hits
        /\ c.lost = r.lost /\ c.flow = r.flow
    BY Zero DEF Request, Pc
  <2>2. Claimed(r, FALSE) = c
    BY <1>1 DEF Claimed
  <2> HIDE DEF c
  <2>3. Good(c)
    BY <1>1, <2>1 DEF Good
  <2> QED BY <2>1, <2>2, <2>3
<1>2. CASE ~(r.flow = "wallet" /\ r.fresh)
  <2>1. PICK said \in {"ok", "failed", "warned"} :
          /\ Claimed(r, FALSE) = Ended(r, said, 0)
          /\ r.flow = "act" => said # "ok"
    BY <1>2 DEF Claimed
  <2> QED BY <2>1, Zero, EndedGood
<1> QED BY <1>1, <1>2

\* After an error the request tries again or ends.
LEMMA FailedGood ==
  ASSUME NEW r \in Request, Good(r), r.pc \in {"build", "submit"}
  PROVE  Failed(r) \in Request /\ Good(Failed(r))
<1>1. CASE r.deploy \/ r.flow = "nameAgent"
  <2>1. Failed(r) = Ended(r, "failed", 0)
    BY <1>1 DEF Failed
  <2> QED BY <2>1, Zero, EndedGood
<1>2. CASE ~(r.deploy \/ r.flow = "nameAgent") /\ r.tries + 1 < Attempts
  <2> DEFINE f == [r EXCEPT !.pc = "build", !.tries = r.tries + 1]
  <2>0. r.tries + 1 \in 0..(Attempts - 1)
    BY <1>2 DEF Request
  <2>1. /\ f \in Request /\ f.pc = "build" /\ f.name = r.name /\ f.said = r.said
        /\ f.short = r.short /\ f.home = r.home /\ f.hits = r.hits
        /\ f.lost = r.lost /\ f.flow = r.flow /\ f.label = r.label
        /\ f.deploy = r.deploy
    BY <2>0 DEF Request, Pc
  <2>2. Failed(r) = f
    BY <1>2 DEF Failed
  <2> HIDE DEF f
  <2>3. Good(f)
    BY <2>1 DEF Good
  <2> QED BY <2>1, <2>2, <2>3
<1>3. CASE ~(r.deploy \/ r.flow = "nameAgent") /\ ~(r.tries + 1 < Attempts)
  BY <1>3, ClaimedGood DEF Failed
<1> QED BY <1>1, <1>2, <1>3

\* A request that only moves on.
LEMMA MovedGood ==
  ASSUME NEW r \in Request, Good(r), NEW s \in Request, r.pc \notin {"again", "done"},
         s.pc \notin {"record", "done"}, s.name = r.name, s.said = r.said,
         s.short = r.short, s.home = r.home, s.hits = r.hits, s.lost = r.lost,
         s.flow = r.flow,
         r.flow = "act" => /\ s.pc \in {"build", "submit"} /\ s.label = r.label
                           /\ s.deploy = r.deploy
  PROVE  Good(s)
BY DEF Good

\* An operation that held: its label is the account's, and a managed account
\* is there and approved.
LEMMA SucceededGood ==
  ASSUME NEW r \in Request, Good(r), r.pc = "submit", NEW h \in Nat,
         h = IF r.deploy THEN r.hits ELSE r.hits + 1,
         r.label # 0 => owner'[r.label] = r.home,
         r.deploy /\ r.flow \in Managed => r.home \in code' \cap approved',
         r.name # 0 => owner'[r.name] = r.home
  PROVE  LET s == [r EXCEPT !.hits = h] IN
         Succeeded(s) \in Request /\ Good(Succeeded(s))'
<1> DEFINE s == [r EXCEPT !.hits = h]
<1>1. /\ s \in Request /\ s.pc = "submit" /\ s.hits = h /\ s.home = r.home
      /\ s.label = r.label /\ s.deploy = r.deploy /\ s.flow = r.flow
      /\ s.lost = r.lost /\ s.said = "nothing" /\ ~s.short /\ s.name = r.name
      /\ s.wish = r.wish /\ s.fresh = r.fresh
  BY DEF Request, Good
<1>2. /\ r.hits \in Nat /\ r.lost \in Nat /\ r.hits <= r.lost /\ r.home \in Account
      /\ r.flow = "act" => r.hits = r.lost /\ r.label = 0 /\ ~r.deploy
      /\ r.label \in 0..NLabel
  BY DEF Request, Good
<1>3. /\ s.hits <= s.lost + 1 /\ (s.deploy => s.hits <= s.lost)
      /\ s.flow = "act" => s.hits = s.lost + 1 /\ ~s.deploy
      /\ s.label \in 0..NLabel /\ s.home \in Account
      /\ s.label # 0 => owner'[s.label] = s.home
      /\ s.name # 0 => owner'[s.name] = s.home
      /\ s.deploy /\ s.flow \in Managed => s.home \in code' \cap approved'
  BY <1>1, <1>2
<1> HIDE DEF s
<1>4. ASSUME NEW e \in Request, e = Ended(s, "ok", s.label)
      PROVE  Good(e)'
  <2>1. /\ e.pc = "done" /\ e.said = "ok" /\ e.name = s.label
        /\ e.home = s.home /\ e.hits = s.hits /\ e.lost = s.lost
        /\ e.flow = s.flow
    BY <1>1, <1>3, <1>4, EndedIs
  <2> QED BY <1>3, <2>1 DEF Good
<1>5. Ended(s, "ok", s.label) \in Request
  BY <1>1, <1>3, EndedRequest
<1>6. CASE ~s.deploy
  <2>1. CASE s.flow = "wallet" /\ s.fresh
    <3>1. PICK c \in Request : c = [s EXCEPT !.pc = "again", !.name = s.label]
      BY <1>1, <1>3 DEF Request, Pc
    <3>2. /\ c.pc = "again" /\ c.name = s.label /\ c.said = s.said
          /\ c.short = s.short /\ c.home = s.home /\ c.hits = s.hits
          /\ c.lost = s.lost /\ c.flow = "wallet"
      BY <1>1, <2>1, <3>1 DEF Request
    <3>3. Good(c)'
      BY <1>1, <1>3, <3>2 DEF Good
    <3>4. Succeeded(s) = c
      BY <1>6, <2>1, <3>1 DEF Succeeded, Claimed
    <3> QED BY <3>3, <3>4 DEF s
  <2>2. CASE ~(s.flow = "wallet" /\ s.fresh)
    <3>1. Succeeded(s) = Ended(s, "ok", s.label)
      BY <1>6, <2>2 DEF Succeeded, Claimed
    <3>2. PICK e \in Request : e = Ended(s, "ok", s.label)
      BY <1>5
    <3>3. Good(e)'
      BY <1>4, <3>2
    <3> QED BY <3>1, <3>2, <3>3 DEF s
  <2> QED BY <2>1, <2>2
<1>7. CASE s.deploy
  <2>1. CASE s.flow = "passkey"
    <3>1. PICK c \in Request : c = [s EXCEPT !.pc = "again", !.name = s.label]
      BY <1>1, <1>3 DEF Request, Pc
    <3>2. /\ c.pc = "again" /\ c.name = s.label /\ c.said = s.said
          /\ c.short = s.short /\ c.home = s.home /\ c.hits = s.hits
          /\ c.lost = s.lost /\ c.flow = s.flow
      BY <1>1, <3>1 DEF Request
    <3>3. Good(c)'
      BY <1>1, <1>3, <2>1, <3>2 DEF Good
    <3>4. Succeeded(s) = c
      BY <1>7, <2>1, <3>1 DEF Succeeded
    <3> QED BY <3>3, <3>4 DEF s
  <2>2. CASE s.flow = "wallet"
    <3>1. PICK c \in Request :
            c = [s EXCEPT !.pc = IF s.wish = 0 THEN "again" ELSE "pick",
                          !.deploy = FALSE, !.fresh = TRUE]
      BY <1>1, <1>3 DEF Request, Pc
    <3>2. /\ c.pc \in {"again", "pick"} /\ c.name = s.name /\ c.said = s.said
          /\ c.short = s.short /\ c.home = s.home /\ c.hits = s.hits
          /\ c.lost = s.lost /\ c.flow = s.flow
      BY <1>1, <3>1 DEF Request
    <3>3. Good(c)'
      BY <1>1, <1>3, <1>7, <2>2, <3>2 DEF Good
    <3>4. Succeeded(s) = c
      BY <1>7, <2>2, <3>1 DEF Succeeded
    <3> QED BY <3>3, <3>4 DEF s
  <2>3. CASE s.flow \in Managed
    <3>1. PICK c \in Request : c = [s EXCEPT !.pc = "record"]
      BY <1>1, <1>3 DEF Request, Pc
    <3>2. /\ c.pc = "record" /\ c.name = s.name /\ c.said = s.said
          /\ c.short = s.short /\ c.home = s.home /\ c.hits = s.hits
          /\ c.lost = s.lost /\ c.flow = s.flow /\ c.label = s.label
      BY <1>1, <3>1 DEF Request
    <3>3. Good(c)'
      BY <1>1, <1>3, <1>7, <2>3, <3>2 DEF Good, Managed
    <3>4. Succeeded(s) = c
      BY <1>7, <2>3, <3>1 DEF Succeeded, Managed
    <3> QED BY <3>3, <3>4 DEF s
  <2>4. CASE s.flow \notin {"passkey", "wallet"} \cup Managed
    <3>1. Succeeded(s) = Ended(s, "ok", s.label)
      BY <1>7, <2>4 DEF Succeeded, Managed
    <3>2. PICK e \in Request : e = Ended(s, "ok", s.label)
      BY <1>5
    <3>3. Good(e)'
      BY <1>4, <3>2
    <3> QED BY <3>1, <3>2, <3>3 DEF s
  <2> QED BY <2>1, <2>2, <2>3, <2>4
<1> QED BY <1>6, <1>7 DEF s

-----------------------------------------------------------------------------
(* Steps *)

\* What is known of the request a step works on.
LEMMA HomesNow ==
  ASSUME HomesInv, NEW t \in Tab
  PROVE  req[t] \in Request /\ Good(req[t])
BY DEF HomesInv, TypeOK

LEMMA GrowsInv ==
  ASSUME HomesInv, Grows, NEW t \in Tab, NEW r \in Request, Set(t, r), Good(r)',
         code' \subseteq Account, approved' \subseteq Account,
         drawn' \subseteq Fresh, nonce' \in [Account -> Nat],
         owner' \in [Label -> Account \cup {NoHome}],
         begun' \in 0..MaxBegins, calm' = calm, NoOrphanName',
         recorded' \subseteq code' \cap approved'
  PROVE  HomesInv'
<1>1. req \in [Tab -> Request]
  BY DEF HomesInv, TypeOK
<1>2. req' \in [Tab -> Request] /\ req'[t] = r /\ \A u \in Tab \ {t} : req'[u] = req[u]
  BY <1>1 DEF Set
<1>3. ASSUME NEW u \in Tab \ {t} PROVE Good(req[u])'
  <2>1. PICK q \in Request : q = req[u] /\ Good(q)
    BY <1>1 DEF HomesInv
  <2>2. Good(q)'
    BY <2>1, GoodGrows
  <2> QED BY <1>2, <2>1, <2>2 DEF Good
<1>4. Good(req[t])'
  BY <1>2 DEF Good
<1>5. TypeOK' /\ RecordedIsApproved'
  BY <1>2 DEF HomesInv, TypeOK, RecordedIsApproved
<1> QED BY <1>3, <1>4, <1>5 DEF HomesInv

\* A step that touches only the request.
LEMMA MovesInv ==
  ASSUME HomesInv, NEW t \in Tab, NEW r \in Request, Set(t, r), Good(r),
         UNCHANGED <<chain, recorded, calm>>,
         drawn' \subseteq Fresh, begun' \in 0..MaxBegins
  PROVE  HomesInv'
<1>1. UNCHANGED <<code, nonce, owner, approved, recorded, calm>>
  BY DEF chain
<1>2. Grows
  BY <1>1 DEF Grows
<1>3. Good(r)'
  BY <1>2, GoodGrows
<1>4. TypeOK /\ NoOrphanName /\ RecordedIsApproved
  BY DEF HomesInv
<1>5. NoOrphanName'
  BY <1>1, <1>4 DEF NoOrphanName
<1> QED BY <1>1, <1>2, <1>3, <1>4, <1>5, GrowsInv DEF TypeOK, RecordedIsApproved

LEMMA BeginInv == ASSUME HomesInv, NEW t \in Tab, Begin(t) PROVE HomesInv'
<1>1. PICK f \in Flows, h \in Account, w \in Wish :
       /\ Starts(f, h, w)
       /\ Set(t, [Idle EXCEPT !.flow = f, !.home = h, !.wish = w,
                              !.pc = First(f, w),
                              !.deploy = f \in {"treasury", "agent"},
                              !.label = IF f = "nameAgent" THEN w ELSE 0])
       /\ drawn' = IF f = "agent" THEN drawn \cup {h} ELSE drawn
  BY DEF Begin
<1>2. UNCHANGED <<chain, recorded, calm>> /\ begun' \in 0..MaxBegins
  BY DEF Begin, HomesInv, TypeOK
<1>3. drawn' \subseteq Fresh
  BY <1>1 DEF HomesInv, TypeOK, Starts
<1>4. First(f, w) \in {"login", "look", "reverse", "pick", "build"}
      /\ (f = "act" => First(f, w) = "build")
      /\ w \in 0..NLabel /\ f \in Flow
  BY DEF First
<1>5. PICK d \in BOOLEAN : d = (f \in {"treasury", "agent"})
  <2>1. CASE f \in {"treasury", "agent"}
    BY <2>1
  <2>2. CASE f \notin {"treasury", "agent"}
    <3>1. FALSE = (f \in {"treasury", "agent"})
      BY <2>2
    <3> QED BY <3>1
  <2> QED BY <2>1, <2>2
<1>6. PICK l \in 0..NLabel : l = IF f = "nameAgent" THEN w ELSE 0
  BY <1>4, Zero
<1>7. PICK p \in Pc : p = First(f, w)
  BY <1>4 DEF Pc
<1> DEFINE r == [Idle EXCEPT !.flow = f, !.home = h, !.wish = w, !.pc = p,
                             !.deploy = d, !.label = l]
<1>8. /\ r \in Request /\ r.pc = p /\ r.flow = f /\ r.home = h /\ r.deploy = d
      /\ r.label = l /\ r.hits = 0 /\ r.lost = 0 /\ r.name = 0
      /\ r.said = "nothing" /\ ~r.short
  BY <1>4, Zero DEF Idle, Request
<1>9. Set(t, r)
  BY <1>1, <1>5, <1>6, <1>7
<1> HIDE DEF r
<1>10. Good(r)
  <2>1. f = "act" => ~d /\ l = 0 /\ p = "build"
    BY <1>4, <1>5, <1>6, <1>7
  <2>2. p \notin {"record", "again", "done"}
    BY <1>4, <1>7
  <2> QED BY <1>8, <2>1, <2>2 DEF Good
<1> QED BY <1>2, <1>3, <1>8, <1>9, <1>10, MovesInv

\* The steps that read and choose.
LEMMA ChoosesInv ==
  ASSUME HomesInv, NEW t \in Tab,
         Login(t) \/ Guard(t) \/ Again(t) \/ Look(t) \/ Reverse(t) \/ Pick(t)
  PROVE  HomesInv'
<1>1. UNCHANGED <<chain, recorded, calm>> /\ drawn' \subseteq Fresh
      /\ begun' \in 0..MaxBegins
  BY DEF Login, Guard, Again, Look, Reverse, Pick, HomesInv, TypeOK
<1>2. PICK r \in Request : r = req[t] /\ Good(r)
  BY HomesNow
<1>3. r.wish \in 0..NLabel /\ r.name \in 0..NLabel
  BY DEF Request
<1>4. ASSUME NEW pc \in {"guard", "again", "build", "pick", "reverse"},
             NEW d \in BOOLEAN, NEW l \in 0..NLabel, r.flow # "act",
             r.pc \notin {"again", "done"},
             Set(t, [r EXCEPT !.pc = pc, !.deploy = d, !.label = l])
      PROVE  HomesInv'
  <2>1. PICK s \in Request : s = [r EXCEPT !.pc = pc, !.deploy = d, !.label = l]
    BY DEF Request, Pc
  <2>2. /\ s.pc = pc /\ s.name = r.name /\ s.said = r.said /\ s.short = r.short
        /\ s.home = r.home /\ s.hits = r.hits /\ s.lost = r.lost /\ s.flow = r.flow
    BY <2>1 DEF Request
  <2>3. Good(s)
    BY <1>2, <1>4, <2>2, MovedGood
  <2> QED BY <1>1, <1>4, <2>1, <2>3, MovesInv
<1>5. r.deploy \in BOOLEAN /\ r.label \in 0..NLabel
  BY DEF Request
<1>6. ASSUME NEW pc \in {"guard", "again", "build", "pick", "reverse"},
             r.flow # "act", r.pc \notin {"again", "done"},
             Set(t, [r EXCEPT !.pc = pc])
      PROVE  HomesInv'
  <2>1. [r EXCEPT !.pc = pc] = [r EXCEPT !.pc = pc, !.deploy = r.deploy,
                                         !.label = r.label]
    BY DEF Request
  <2> QED BY <1>4, <1>5, <1>6, <2>1
<1>7. ASSUME NEW pc \in {"build", "pick"}, r.flow # "act",
             r.pc \notin {"again", "done"},
             Set(t, [r EXCEPT !.pc = pc, !.deploy = TRUE])
      PROVE  HomesInv'
  <2>1. [r EXCEPT !.pc = pc, !.deploy = TRUE]
          = [r EXCEPT !.pc = pc, !.deploy = TRUE, !.label = r.label]
    BY DEF Request
  <2> QED BY <1>4, <1>5, <1>7, <2>1
<1>8. ASSUME NEW said \in {"ok", "failed"}, NEW name \in 0..NLabel,
             name # 0 => owner[name] = r.home, r.flow = "act" => said # "ok",
             r.pc # "done", Set(t, Ended(r, said, name))
      PROVE  HomesInv'
  BY <1>1, <1>2, <1>8, EndedGood, MovesInv
<1>9. r.pc \in {"login", "guard", "again", "look", "reverse", "pick"}
      => r.flow # "act" /\ r.pc # "done"
  BY <1>2 DEF Good
<1>10. CASE Login(t)
  <2>1. r.pc = "login"
    BY <1>2, <1>10 DEF Login
  <2>2. \/ Set(t, [r EXCEPT !.pc = "reverse"]) \/ Set(t, Ended(r, "ok", 0))
        \/ Set(t, [r EXCEPT !.pc = "build", !.deploy = TRUE])
        \/ Set(t, [r EXCEPT !.pc = "guard"])
    BY <1>2, <1>10 DEF Login
  <2> QED BY <1>6, <1>7, <1>8, <1>9, <2>1, <2>2, Zero
<1>11. CASE Guard(t)
  <2>1. r.pc = "guard"
    BY <1>2, <1>11 DEF Guard
  <2>2. \/ Set(t, [r EXCEPT !.pc = "again"])
        \/ Set(t, [r EXCEPT !.pc = "build", !.deploy = TRUE])
        \/ Set(t, [r EXCEPT !.pc = "pick", !.deploy = TRUE])
    BY <1>2, <1>11 DEF Guard, Deploying
  <2> QED BY <1>6, <1>7, <1>9, <2>1, <2>2
<1>12. CASE Again(t)
  <2>1. r.pc = "again" /\ (r.name # 0 => owner[r.name] = r.home)
    BY <1>2, <1>12 DEF Again, Good
  <2>2. PICK said \in {"ok", "failed"} : Set(t, Ended(r, said, r.name))
    BY <1>2, <1>12 DEF Again
  <2> QED BY <1>3, <1>8, <1>9, <2>1, <2>2
<1>13. CASE Look(t)
  <2>1. r.pc = "look"
    BY <1>2, <1>13 DEF Look
  <2>2. CASE Set(t, [Ended(r, "ok", r.wish) EXCEPT !.short = TRUE])
    <3>1. PICK e \in Request : e = Ended(r, "ok", r.wish)
      BY <1>3, EndedRequest
    <3>2. /\ e.pc = "done" /\ e.said = "ok" /\ e.hits = r.hits /\ e.lost = r.lost
          /\ e.flow = r.flow
      BY <3>1, EndedIs
    <3>3. PICK s \in Request : s = [e EXCEPT !.short = TRUE]
      BY DEF Request
    <3>4. /\ s.pc = "done" /\ s.said = "ok" /\ s.hits = r.hits /\ s.lost = r.lost
          /\ s.flow = r.flow /\ s.short
      BY <3>2, <3>3 DEF Request
    <3>5. Good(s)
      BY <1>2, <1>9, <2>1, <3>4 DEF Good
    <3> QED BY <1>1, <2>2, <3>1, <3>3, <3>5, MovesInv
  <2>3. CASE Set(t, [r EXCEPT !.pc = "build", !.deploy = TRUE, !.label = r.wish])
    BY <1>3, <1>4, <1>9, <2>1, <2>3
  <2> QED BY <1>2, <1>13, <2>2, <2>3 DEF Look
<1>14. CASE Reverse(t)
  <2>1. r.pc = "reverse"
    BY <1>2, <1>14 DEF Reverse
  <2>2. \/ Set(t, [r EXCEPT !.pc = "pick"])
        \/ \E l \in NameOf(r.home) : Set(t, Ended(r, "ok", l))
    BY <1>2, <1>14 DEF Reverse, SeesName
  <2>3. \A l \in NameOf(r.home) : l \in 0..NLabel /\ owner[l] = r.home
    BY DEF NameOf, Label
  <2> QED BY <1>6, <1>8, <1>9, <2>1, <2>2, <2>3
<1>15. CASE Pick(t)
  <2>1. r.pc = "pick"
    BY <1>2, <1>15 DEF Pick
  <2>2. \/ \E l \in Label : Set(t, [r EXCEPT !.pc = "build", !.label = l])
        \/ Set(t, Claimed(r, FALSE))
    BY <1>2, <1>15 DEF Pick, Free
  <2>3. CASE Set(t, Claimed(r, FALSE))
    BY <1>1, <1>2, <2>1, <2>3, ClaimedGood, MovesInv
  <2>4. \A l \in Label : l \in 0..NLabel
    BY DEF Label
  <2>5. ASSUME NEW l \in 0..NLabel, Set(t, [r EXCEPT !.pc = "build", !.label = l])
        PROVE  HomesInv'
    <3>1. [r EXCEPT !.pc = "build", !.label = l]
            = [r EXCEPT !.pc = "build", !.deploy = r.deploy, !.label = l]
      BY DEF Request
    <3> QED BY <1>4, <1>5, <1>9, <2>1, <2>5, <3>1
  <2> QED BY <2>2, <2>3, <2>4, <2>5
<1> QED BY <1>10, <1>11, <1>12, <1>13, <1>14, <1>15

LEMMA BuildInv == ASSUME HomesInv, NEW t \in Tab, Build(t) PROVE HomesInv'
<1>1. UNCHANGED <<chain, recorded, calm>> /\ drawn' \subseteq Fresh
      /\ begun' \in 0..MaxBegins
  BY DEF Build, HomesInv, TypeOK
<1>2. PICK r \in Request : r = req[t] /\ Good(r) /\ r.pc = "build"
  BY HomesNow DEF Build
<1>3. CASE Set(t, Failed(r))
  BY <1>1, <1>2, <1>3, FailedGood, MovesInv
<1>4. ASSUME NEW n \in Nat,
             Set(t, [r EXCEPT !.pc = "submit", !.nonce = n, !.sends = 0])
      PROVE  HomesInv'
  <2>1. PICK s \in Request : s = [r EXCEPT !.pc = "submit", !.nonce = n, !.sends = 0]
    BY Zero DEF Request, Pc
  <2>2. /\ s.pc = "submit" /\ s.name = r.name /\ s.said = r.said /\ s.short = r.short
        /\ s.home = r.home /\ s.hits = r.hits /\ s.lost = r.lost /\ s.flow = r.flow
        /\ s.label = r.label /\ s.deploy = r.deploy
    BY <2>1 DEF Request
  <2>3. Good(s)
    BY <1>2, <2>2, MovedGood
  <2> QED BY <1>1, <1>4, <2>1, <2>3, MovesInv
<1>5. SeesNonce(r.home) \subseteq Nat
  <2>1. r.home \in Account /\ nonce[r.home] \in Nat
    BY <1>2 DEF Good, HomesInv, TypeOK
  <2> QED BY <2>1 DEF SeesNonce
<1>6. \/ Set(t, Failed(r))
      \/ \E n \in SeesNonce(r.home) :
           Set(t, [r EXCEPT !.pc = "submit", !.nonce = n, !.sends = 0])
  BY <1>2 DEF Build
<1> QED BY <1>3, <1>4, <1>5, <1>6

LEMMA ResendInv == ASSUME HomesInv, NEW t \in Tab, Resend(t) PROVE HomesInv'
<1>1. UNCHANGED <<chain, recorded, calm>> /\ drawn' \subseteq Fresh
      /\ begun' \in 0..MaxBegins
  BY DEF Resend, HomesInv, TypeOK
<1>2. PICK r \in Request : r = req[t] /\ Good(r) /\ r.pc = "submit"
                           /\ r.sends + 1 < Resends
                           /\ Set(t, [r EXCEPT !.sends = r.sends + 1])
  BY HomesNow DEF Resend
<1>3. r.sends + 1 \in 0..(Resends - 1)
  BY <1>2 DEF Request
<1>4. PICK s \in Request : s = [r EXCEPT !.sends = r.sends + 1]
  BY <1>3 DEF Request
<1>5. /\ s.pc = r.pc /\ s.name = r.name /\ s.said = r.said /\ s.short = r.short
      /\ s.home = r.home /\ s.hits = r.hits /\ s.lost = r.lost /\ s.flow = r.flow
      /\ s.label = r.label /\ s.deploy = r.deploy
  BY <1>4 DEF Request
<1>6. Good(s)
  BY <1>2, <1>5, MovedGood
<1> QED BY <1>1, <1>2, <1>4, <1>6, MovesInv

LEMMA RefusedInv == ASSUME HomesInv, NEW t \in Tab, Refused(t) PROVE HomesInv'
<1>1. UNCHANGED <<chain, recorded, calm>> /\ drawn' \subseteq Fresh
      /\ begun' \in 0..MaxBegins
  BY DEF Refused, HomesInv, TypeOK
<1>2. PICK r \in Request : r = req[t] /\ Good(r) /\ r.pc = "submit"
                           /\ Set(t, Failed([r EXCEPT !.refused = TRUE]))
  BY HomesNow DEF Refused
<1>3. PICK s \in Request : s = [r EXCEPT !.refused = TRUE]
  BY DEF Request
<1>4. /\ s.pc = r.pc /\ s.name = r.name /\ s.said = r.said /\ s.short = r.short
      /\ s.home = r.home /\ s.hits = r.hits /\ s.lost = r.lost /\ s.flow = r.flow
      /\ s.label = r.label /\ s.deploy = r.deploy
  BY <1>3 DEF Request
<1>5. Good(s)
  BY <1>2, <1>4, MovedGood
<1> QED BY <1>1, <1>2, <1>3, <1>4, <1>5, FailedGood, MovesInv

LEMMA LeaveInv == ASSUME HomesInv, NEW t \in Tab, Leave(t) PROVE HomesInv'
<1>1. UNCHANGED <<chain, recorded, calm>> /\ drawn' \subseteq Fresh
      /\ begun' \in 0..MaxBegins /\ Set(t, Idle)
  BY DEF Leave, HomesInv, TypeOK
<1> QED BY <1>1, IdleGood, MovesInv

LEMMA DirectDeployInv == ASSUME HomesInv, NEW t \in Tab, DirectDeploy(t) PROVE HomesInv'
<1>1. PICK r \in Request : /\ r = req[t] /\ Good(r) /\ r.pc = "build"
                           /\ r.flow = "direct" /\ Set(t, Ended(r, "ok", 0))
  BY HomesNow DEF DirectDeploy
<1>2. /\ UNCHANGED <<nonce, owner, approved, recorded, drawn, begun, calm>>
      /\ code \subseteq code' /\ code' \subseteq code \cup {r.home}
  BY <1>1 DEF DirectDeploy
<1>3. TypeOK /\ NoOrphanName /\ RecordedIsApproved /\ r.home \in Account
  BY <1>1 DEF HomesInv, Good
<1>4. Grows
  BY <1>2 DEF Grows
<1>5. PICK e \in Request : e = Ended(r, "ok", 0) /\ Good(e)
  BY <1>1, Zero, EndedGood
<1>6. Good(e)'
  BY <1>4, <1>5, GoodGrows
<1>7. NoOrphanName'
  BY <1>2, <1>3 DEF NoOrphanName
<1> QED BY <1>1, <1>2, <1>3, <1>4, <1>5, <1>6, <1>7, GrowsInv
        DEF TypeOK, RecordedIsApproved

LEMMA RecordInv == ASSUME HomesInv, NEW t \in Tab, Record(t) PROVE HomesInv'
<1>1. PICK r \in Request : r = req[t] /\ Good(r) /\ r.pc = "record"
  BY HomesNow DEF Record
<1>2. PICK said \in {"ok", "warned"} : Set(t, Ended(r, said, r.label))
  BY <1>1 DEF Record
<1>3. /\ UNCHANGED <<code, nonce, owner, approved, drawn, begun, calm>>
      /\ recorded' \subseteq recorded \cup {r.home}
  BY <1>1 DEF Record, chain
<1>4. /\ r.home \in code \cap approved /\ (r.label # 0 => owner[r.label] = r.home)
      /\ r.flow # "act" /\ r.label \in 0..NLabel
  BY <1>1 DEF Good, Request
<1>5. PICK e \in Request : e = Ended(r, said, r.label) /\ Good(e)
  BY <1>1, <1>4, EndedGood
<1>6. Grows
  BY <1>3 DEF Grows
<1>7. Good(e)'
  BY <1>5, <1>6, GoodGrows
<1>8. TypeOK /\ NoOrphanName /\ RecordedIsApproved
  BY DEF HomesInv
<1>9. NoOrphanName' /\ recorded' \subseteq code' \cap approved'
  BY <1>3, <1>4, <1>8 DEF NoOrphanName, RecordedIsApproved
<1> QED BY <1>2, <1>3, <1>5, <1>6, <1>7, <1>8, <1>9, GrowsInv DEF TypeOK

\* An operation lands: its batch holds, or nothing but the nonce and the code
\* is left of it.
LEMMA LandInv == ASSUME HomesInv, NEW t \in Tab, Land(t) PROVE HomesInv'
<1>1. PICK r \in Request : r = req[t] /\ Good(r) /\ r.pc = "submit" /\ r.home \in Account
  BY HomesNow DEF Land, Approve, Good
<1>2. TypeOK /\ NoOrphanName /\ RecordedIsApproved
  BY DEF HomesInv
<1>3. PICK held \in BOOLEAN : held = BatchHolds(r)
  <2>1. CASE BatchHolds(r)
    BY <2>1
  <2>2. CASE ~BatchHolds(r)
    <3>1. FALSE = BatchHolds(r)
      BY <2>2 DEF BatchHolds
    <3> QED BY <3>1
  <2> QED BY <2>1, <2>2
<1>4. PICK h \in Nat : h = IF held /\ ~r.deploy THEN r.hits + 1 ELSE r.hits
  BY DEF Request
<1>5. PICK s \in Request : s = [r EXCEPT !.hits = h]
  BY DEF Request
<1>6. /\ s.pc = "submit" /\ s.name = r.name /\ s.said = r.said /\ s.short = r.short
      /\ s.home = r.home /\ s.hits = h /\ s.lost = r.lost /\ s.flow = r.flow
      /\ s.label = r.label /\ s.deploy = r.deploy
  BY <1>1, <1>5 DEF Request
<1>7. /\ code' = code \cup {r.home}
      /\ nonce' = [nonce EXCEPT ![r.home] = @ + 1]
      /\ Register(r)
      /\ approved' = IF held /\ r.flow \in {"treasury", "agent"} /\ r.deploy
                     THEN approved \cup {r.home} ELSE approved
      /\ \/ Set(t, AnswerFor(s, held))
         \/ Set(t, Failed([s EXCEPT !.lost = s.lost + 1]))
      /\ UNCHANGED <<recorded, drawn, begun, calm>>
  BY <1>1, <1>3, <1>4, <1>5 DEF Land, Approve
<1>8. r.label # 0 => r.label \in Label
  BY DEF Request, Label
<1>9. /\ owner' \in [Label -> Account \cup {NoHome}]
      /\ \A l \in Label : owner[l] # NoHome => owner'[l] = owner[l]
      /\ \A l \in Label : owner'[l] = owner[l] \/ owner'[l] = r.home
      /\ held /\ r.label # 0 => owner'[r.label] = r.home
  <2>1. CASE r.label # 0 /\ BatchHolds(r)
    <3>1. owner' = [owner EXCEPT ![r.label] = r.home] /\ owner[r.label] = NoHome
      BY <1>7, <2>1 DEF Register, BatchHolds
    <3> QED BY <1>1, <1>2, <1>8, <2>1, <3>1 DEF TypeOK
  <2>2. CASE ~(r.label # 0 /\ BatchHolds(r))
    <3>1. owner' = owner
      BY <1>7, <2>2 DEF Register
    <3> QED BY <1>2, <1>3, <2>2, <3>1 DEF TypeOK
  <2> QED BY <2>1, <2>2
<1>10. Grows
  BY <1>7, <1>9 DEF Grows
<1>11. NoOrphanName'
  BY <1>2, <1>7, <1>9 DEF NoOrphanName
<1>12. /\ code' \subseteq Account /\ approved' \subseteq Account
       /\ nonce' \in [Account -> Nat] /\ recorded' \subseteq code' \cap approved'
  BY <1>1, <1>2, <1>7 DEF TypeOK, RecordedIsApproved
<1>13. r.flow = "act" => held
  <2>1. r.flow = "act" => r.label = 0
    BY <1>1 DEF Good
  <2> QED BY <1>3, <2>1 DEF BatchHolds
<1>14. ASSUME NEW q \in Request, Set(t, q), Good(q)' PROVE HomesInv'
  BY <1>2, <1>7, <1>9, <1>10, <1>11, <1>12, <1>14, GrowsInv DEF TypeOK
<1>15. CASE Set(t, Failed([s EXCEPT !.lost = s.lost + 1]))
  <2>1. PICK q \in Request : q = [s EXCEPT !.lost = s.lost + 1]
    <3>1. s.lost + 1 \in Nat
      BY DEF Request
    <3> QED BY <3>1 DEF Request
  <2>2. /\ q.pc = "submit" /\ q.name = r.name /\ q.said = r.said
        /\ q.short = r.short /\ q.home = r.home /\ q.hits = h
        /\ q.lost = r.lost + 1 /\ q.flow = r.flow /\ q.label = r.label
        /\ q.deploy = r.deploy
    BY <1>6, <2>1 DEF Request
  <2>3. r.hits \in Nat /\ r.lost \in Nat /\ h <= r.hits + 1
    BY <1>4 DEF Request
  <2>4. r.hits <= r.lost /\ (r.flow = "act" => h = r.hits + 1 /\ r.hits = r.lost)
    BY <1>1, <1>4, <1>13 DEF Good
  <2>5. Good(q)
    BY <1>1, <2>2, <2>3, <2>4 DEF Good
  <2>6. PICK p \in Request : p = Failed(q) /\ Good(p)
    BY <2>2, <2>5, FailedGood
  <2>7. Good(p)'
    BY <1>10, <2>6, GoodGrows
  <2> QED BY <1>14, <1>15, <2>1, <2>6, <2>7
<1>16. CASE Set(t, AnswerFor(s, held)) /\ ~held
  <2>1. h = r.hits
    BY <1>4, <1>16
  <2>2. Good(s)
    BY <1>1, <1>6, <2>1, MovedGood
  <2>3. PICK p \in Request : p = Failed(s) /\ Good(p)
    BY <1>6, <2>2, FailedGood
  <2>4. Good(p)'
    BY <1>10, <2>3, GoodGrows
  <2> QED BY <1>14, <1>16, <2>3, <2>4 DEF AnswerFor
<1>17. CASE Set(t, AnswerFor(s, held)) /\ held
  <2>1. h = IF r.deploy THEN r.hits ELSE r.hits + 1
    BY <1>4, <1>17
  <2>2. r.deploy /\ r.flow \in Managed => r.home \in code' \cap approved'
    BY <1>7, <1>17 DEF Managed
  <2>3. r.name # 0 => owner'[r.name] = r.home
    <3>1. Good(r)'
      BY <1>1, <1>10, GoodGrows
    <3> QED BY <1>1, <3>1 DEF Good
  <2>4. PICK p \in Request : p = Succeeded(s) /\ Good(p)'
    BY <1>1, <1>5, <1>9, <1>17, <2>1, <2>2, <2>3, SucceededGood
  <2> QED BY <1>14, <1>17, <2>4 DEF AnswerFor
<1> QED BY <1>7, <1>15, <1>16, <1>17

-----------------------------------------------------------------------------
LEMMA HomesInit == Init => HomesInv
<1> SUFFICES ASSUME Init PROVE HomesInv
  OBVIOUS
<1>1. TypeOK
  BY IdleGood DEF Init, TypeOK, Account, Member
<1>2. NoOrphanName /\ RecordedIsApproved
  BY DEF Init, NoOrphanName, RecordedIsApproved
<1>3. \A t \in Tab : Good(req[t])
  BY IdleGood DEF Init
<1> QED BY <1>1, <1>2, <1>3 DEF HomesInv

LEMMA HomesNext == HomesInv /\ [Next]_vars => HomesInv'
<1> SUFFICES ASSUME HomesInv, [Next]_vars PROVE HomesInv'
  OBVIOUS
<1>1. CASE UNCHANGED vars
  BY <1>1 DEF vars, HomesInv, TypeOK, NoOrphanName, RecordedIsApproved, Good
<1>2. ASSUME NEW t \in Tab, Begin(t) \/ Step(t) \/ Leave(t) PROVE HomesInv'
  BY <1>2, BeginInv, ChoosesInv, BuildInv, DirectDeployInv, ResendInv,
     RefusedInv, LandInv, RecordInv, LeaveInv DEF Step
<1> QED BY <1>1, <1>2 DEF Next

\* A request that is told something, an agent that is recorded and a label
\* that is registered are always as Good, RecordedIsApproved and
\* NoOrphanName say.
THEOREM HomesInvariant == Spec => []HomesInv
BY HomesInit, HomesNext, PTL DEF Spec

\* Every variable keeps its shape.
THEOREM TypeCorrect == Spec => []TypeOK
<1>1. HomesInv => TypeOK
  BY DEF HomesInv
<1> QED BY <1>1, HomesInvariant, PTL

\* No label is ever registered to an account without code, whatever batches
\* revert and answers are lost.
THEOREM NeverAnOrphan == Spec => []NoOrphanName
<1>1. HomesInv => NoOrphanName
  BY DEF HomesInv
<1> QED BY <1>1, HomesInvariant, PTL

\* No flow but the alreadyDeployed shortcut tells of a name it does not own.
THEOREM ToldIsOwned == Spec => []NamesToldAreOwned
<1>1. HomesInv => NamesToldAreOwned
  BY DEF HomesInv, NamesToldAreOwned, Good
<1> QED BY <1>1, HomesInvariant, PTL

\* However often executeCall tries, a call takes effect once per answer that
\* was lost and once for the answer it got.
THEOREM EffectsAlwaysAccounted == Spec => []EffectsAccounted
<1>1. HomesInv => EffectsAccounted
  BY DEF HomesInv, EffectsAccounted, Good
<1> QED BY <1>1, HomesInvariant, PTL

\* No agent is in the vault whose grant its deployment did not approve.
THEOREM RecordedAlwaysApproved == Spec => []RecordedIsApproved
<1>1. HomesInv => RecordedIsApproved
  BY DEF HomesInv
<1> QED BY <1>1, HomesInvariant, PTL
-----------------------------------------------------------------------------
(***************************************************************************)
(* The calm world: every account has one tab, so what a request reads of   *)
(* its home still holds when it acts.  Shaped is about the flows alone and *)
(* holds in any world; Informed is what the request knows of its home, and *)
(* is kept by the others' steps because they are about other homes.        *)
(***************************************************************************)

Working == {"pick", "build", "submit"}
Deployers == {"passkey", "wallet", "social", "direct"} \cup Managed
Callers == {"wallet", "later", "act", "nameAgent"}

\* The steps a flow goes through, and what its operation does there.
Shaped(r) ==
  /\ r.pc = "login" => r.flow \in {"passkey", "wallet"} /\ r.label = 0 /\ ~r.deploy
  /\ r.pc = "guard" => r.flow = "passkey"
  /\ r.pc = "look" => r.flow \in {"social", "direct"}
  /\ r.pc = "reverse" => r.flow \in {"wallet", "later"} /\ ~r.deploy
  /\ r.pc = "record" => r.flow \in Managed
  /\ r.pc \in Working =>
       IF r.deploy THEN r.flow \in Deployers ELSE r.flow \in Callers
  /\ r.flow = "wallet" /\ r.pc = "pick" => ~r.deploy
  /\ r.flow = "wallet" /\ r.pc \in {"build", "submit"} =>
       IF r.deploy THEN r.label = 0 ELSE r.label # 0
  /\ r.pc # "done" /\ r.home \in Fresh => r.home \in drawn

\* What a request knows of its home.
Informed(r) ==
  /\ r.pc = "guard" => r.home \notin code
  /\ r.pc = "reverse" => r.home \in code
  /\ r.pc \in Working /\ r.flow # "treasury" =>
       IF r.deploy THEN r.home \notin code ELSE r.home \in code
  /\ r.pc \in Working /\ r.flow \in {"wallet", "later"} /\ ~r.deploy
       => NameOf(r.home) = {}
  /\ r.pc = "submit" => r.nonce = nonce[r.home]
  /\ r.pc # "done" /\ r.fresh => nonce[r.home] # 0

Beaten(r) ==
  \/ r.label # 0 /\ owner[r.label] # NoHome
  \/ \A l \in r.wish..NLabel : owner[l] # NoHome

\* What it was told, or will be when it signs in the second time.
Answered(r) ==
  /\ r.refused => r.flow = "treasury"
  /\ r.flow = "wallet" /\ r.wish # 0 /\ r.name = 0 /\ (r.pc = "again" \/ r.said = "ok")
       => Beaten(r)

Knows(r) == Shaped(r) /\ (calm => Informed(r) /\ Answered(r))

Alone == \A t, u \in Tab :
  Active(t) /\ Active(u) /\ t # u => req[t].home # req[u].home

CalmInv ==
  /\ code \cap Fresh \subseteq drawn
  /\ calm => Alone
  /\ \A t \in Tab : Knows(req[t])

\* A step that changes the chain for account h only.
ChangesOnly(h) ==
  /\ Grows /\ code' \subseteq code \cup {h}
  /\ \A x \in Account : x # h => nonce'[x] = nonce[x] /\ NameOf(x)' = NameOf(x)

\* What a request knows survives what is done to another home.
LEMMA KnowsKept ==
  ASSUME NEW q \in Request, Knows(q), NEW h, ChangesOnly(h), drawn \subseteq drawn',
         calm' = calm, q.pc # "done" => q.home \in Account /\ (calm => q.home # h)
  PROVE  Knows(q)'
<1>1. Shaped(q)'
  BY DEF Knows, Shaped
<1>2. ASSUME calm PROVE Informed(q)'
  <2>1. Informed(q) /\ (q.pc # "done" => q.home \in Account /\ q.home # h)
    BY <1>2 DEF Knows
  <2>2. q.pc # "done" => /\ q.home \in code' <=> q.home \in code
                         /\ nonce'[q.home] = nonce[q.home]
                         /\ NameOf(q.home)' = NameOf(q.home)
    BY <2>1 DEF ChangesOnly, Grows
  <2> QED BY <2>1, <2>2 DEF Informed, Working
<1>3. ASSUME calm PROVE Answered(q)'
  <2>1. Answered(q)
    BY <1>3 DEF Knows
  <2>2. \A l \in Label : owner[l] # NoHome => owner'[l] # NoHome
    BY DEF ChangesOnly, Grows
  <2>3. q.label # 0 => q.label \in Label
    BY DEF Request, Label
  <2>4. q.wish # 0 => q.wish..NLabel \subseteq Label
    BY DEF Request, Label
  <2> QED BY <2>1, <2>2, <2>3, <2>4 DEF Answered, Beaten
<1> QED BY <1>1, <1>2, <1>3 DEF Knows

\* A step about account h by the only tab there is for it.
LEMMA CalmStep ==
  ASSUME HomesInv, CalmInv, NEW t \in Tab, NEW s \in Request, Set(t, s), Knows(s)',
         NEW h, ChangesOnly(h), calm' = calm, drawn \subseteq drawn',
         code' \cap Fresh \subseteq drawn', s.pc # "done" => s.home = h,
         calm => \A u \in Tab \ {t} : Active(u) => req[u].home # h
  PROVE  CalmInv'
<1>1. req' \in [Tab -> Request] /\ req'[t] = s /\ \A u \in Tab \ {t} : req'[u] = req[u]
  BY DEF HomesInv, TypeOK, Set
<1>2. ASSUME NEW u \in Tab \ {t} PROVE Knows(req[u])'
  <2>1. PICK q \in Request : q = req[u] /\ Good(q) /\ Knows(q)
    BY HomesNow DEF CalmInv
  <2>2. q.pc # "done" => q.home \in Account /\ (calm => q.home # h)
    BY <2>1 DEF Good, Active
  <2>3. Knows(q)'
    BY <2>1, <2>2, KnowsKept
  <2> QED BY <1>1, <2>1, <2>3
<1>3. Knows(req[t])'
  BY <1>1
<1>4. calm' => Alone'
  <2> SUFFICES ASSUME calm', NEW u \in Tab, NEW v \in Tab, Active(u)', Active(v)', u # v
               PROVE  req'[u].home # req'[v].home
    BY DEF Alone
  <2>1. CASE u # t /\ v # t
    BY <1>1, <2>1 DEF CalmInv, Alone, Active
  <2>2. CASE u = t
    BY <1>1, <2>2 DEF Active
  <2>3. CASE v = t
    BY <1>1, <2>3 DEF Active
  <2> QED BY <2>1, <2>2, <2>3
<1> QED BY <1>2, <1>3, <1>4 DEF CalmInv

\* A step that touches only a request under way.
LEMMA CalmMove ==
  ASSUME HomesInv, CalmInv, NEW t \in Tab, Active(t), NEW s \in Request, Set(t, s),
         Knows(s), UNCHANGED <<chain, drawn, calm>>,
         s.pc # "done" => s.home = req[t].home
  PROVE  CalmInv'
<1>1. UNCHANGED <<code, nonce, owner, approved, drawn, calm>>
  BY DEF chain
<1>2. ChangesOnly(req[t].home)
  BY <1>1 DEF ChangesOnly, Grows, NameOf
<1>3. Knows(s)'
  BY <1>1 DEF Knows, Shaped, Informed, Answered, Beaten, NameOf
<1>4. calm => \A u \in Tab \ {t} : Active(u) => req[u].home # req[t].home
  BY DEF CalmInv, Alone
<1>5. code' \cap Fresh \subseteq drawn'
  BY <1>1 DEF CalmInv
<1> QED BY <1>1, <1>2, <1>3, <1>4, <1>5, CalmStep

\* A request that ends knows nothing more, and was told what it may be told.
LEMMA EndedKnows ==
  ASSUME NEW r \in Request, Knows(r), NEW said, NEW name, NEW e \in Request,
         e = Ended(r, said, name),
         calm /\ r.flow = "wallet" /\ r.wish # 0 /\ name = 0 /\ said = "ok" => Beaten(r)
  PROVE  Knows(e)
<1>1. /\ e.pc = "done" /\ e.said = said /\ e.name = name /\ e.flow = r.flow
      /\ e.label = r.label /\ e.wish = r.wish /\ e.refused = r.refused
  BY EndedIs
<1>2. Shaped(e) /\ Informed(e)
  BY <1>1 DEF Shaped, Informed, Working
<1>3. calm => Answered(e)
  BY <1>1 DEF Knows, Answered, Beaten
<1> QED BY <1>2, <1>3 DEF Knows

\* What a step changes of a request that goes on.
Onward(r, s) ==
  /\ s.home = r.home /\ s.flow = r.flow /\ s.wish = r.wish /\ s.name = r.name
  /\ s.said = r.said /\ s.refused = r.refused

LEMMA LoginCalm == ASSUME HomesInv, CalmInv, NEW t \in Tab, Login(t) PROVE CalmInv'
<1>1. PICK r \in Request : r = req[t] /\ Good(r) /\ Knows(r) /\ r.pc = "login"
  BY HomesNow DEF Login, CalmInv
<1>2. UNCHANGED <<chain, drawn, calm>> /\ Active(t)
  BY <1>1 DEF Login, Active
<1>3. PICK seen \in SeesCode(r.home) :
       Set(t, IF seen
              THEN IF r.flow = "wallet" /\ r.wish # 0
                   THEN [r EXCEPT !.pc = "reverse"] ELSE Ended(r, "ok", 0)
              ELSE IF r.flow = "wallet"
              THEN [r EXCEPT !.pc = "build", !.deploy = TRUE]
              ELSE [r EXCEPT !.pc = "guard"])
  BY <1>1 DEF Login
<1>4. calm => IF seen THEN r.home \in code ELSE r.home \notin code
  BY <1>3 DEF SeesCode
<1>5. r.flow \in {"passkey", "wallet"} /\ r.label = 0 /\ ~r.deploy /\ r.said = "nothing"
  BY <1>1 DEF Knows, Shaped, Good
<1>6. ASSUME NEW s \in Request, Set(t, s), Onward(r, s), Knows(s) PROVE CalmInv'
  BY <1>1, <1>2, <1>6, CalmMove DEF Onward
<1>7. CASE seen /\ r.flow = "wallet" /\ r.wish # 0
  <2>1. PICK s \in Request : s = [r EXCEPT !.pc = "reverse"]
    BY DEF Request, Pc
  <2>2. Onward(r, s) /\ s.pc = "reverse" /\ s.deploy = r.deploy /\ s.fresh = r.fresh
    BY <2>1 DEF Request, Onward
  <2>3. Knows(s)
    BY <1>1, <1>4, <1>5, <1>7, <2>2
       DEF Knows, Shaped, Informed, Answered, Onward, Working
  <2> QED BY <1>3, <1>6, <1>7, <2>1, <2>2, <2>3
<1>8. CASE seen /\ ~(r.flow = "wallet" /\ r.wish # 0)
  <2>1. PICK e \in Request : e = Ended(r, "ok", 0)
    BY Zero, EndedRequest
  <2>2. Knows(e)
    BY <1>1, <1>8, <2>1, EndedKnows
  <2>3. e.pc = "done"
    BY <2>1, EndedIs
  <2> QED BY <1>2, <1>3, <1>8, <2>1, <2>2, <2>3, CalmMove
<1>9. CASE ~seen /\ r.flow = "wallet"
  <2>1. PICK s \in Request : s = [r EXCEPT !.pc = "build", !.deploy = TRUE]
    BY DEF Request, Pc
  <2>2. /\ Onward(r, s) /\ s.pc = "build" /\ s.deploy = TRUE
        /\ s.label = r.label /\ s.fresh = r.fresh
    BY <2>1 DEF Request, Onward
  <2>3. Knows(s)
    BY <1>1, <1>4, <1>5, <1>9, <2>2
       DEF Knows, Shaped, Informed, Answered, Onward, Working, Deployers
  <2> QED BY <1>3, <1>6, <1>9, <2>1, <2>2, <2>3
<1>10. CASE ~seen /\ r.flow # "wallet"
  <2>1. PICK s \in Request : s = [r EXCEPT !.pc = "guard"]
    BY DEF Request, Pc
  <2>2. Onward(r, s) /\ s.pc = "guard" /\ s.fresh = r.fresh
    BY <2>1 DEF Request, Onward
  <2>3. Knows(s)
    BY <1>1, <1>4, <1>5, <1>10, <2>2
       DEF Knows, Shaped, Informed, Answered, Onward, Working
  <2> QED BY <1>3, <1>6, <1>10, <2>1, <2>2, <2>3
<1> QED BY <1>7, <1>8, <1>9, <1>10

LEMMA GuardCalm == ASSUME HomesInv, CalmInv, NEW t \in Tab, Guard(t) PROVE CalmInv'
<1>1. PICK r \in Request : r = req[t] /\ Good(r) /\ Knows(r) /\ r.pc = "guard"
  BY HomesNow DEF Guard, CalmInv
<1>2. UNCHANGED <<chain, drawn, calm>> /\ Active(t)
  BY <1>1 DEF Guard, Active
<1>3. PICK seen \in SeesCode(r.home) :
        Set(t, IF seen THEN [r EXCEPT !.pc = "again"] ELSE Deploying(r))
  BY <1>1 DEF Guard
<1>4. calm => r.home \notin code /\ ~seen
  BY <1>1, <1>3 DEF SeesCode, Knows, Informed
<1>5. r.flow = "passkey" /\ r.said = "nothing"
  BY <1>1 DEF Knows, Shaped, Good
<1>6. CASE seen
  <2>1. PICK s \in Request : s = [r EXCEPT !.pc = "again"]
    BY DEF Request, Pc
  <2>2. Onward(r, s) /\ s.pc = "again"
    BY <2>1 DEF Request, Onward
  <2>3. Knows(s)
    BY <1>1, <1>4, <1>5, <1>6, <2>2 DEF Knows, Shaped, Onward, Working
  <2> QED BY <1>1, <1>2, <1>3, <1>6, <2>1, <2>2, <2>3, CalmMove DEF Onward
<1>7. CASE ~seen
  <2>1. PICK pc \in {"build", "pick"} : pc = IF r.wish = 0 THEN "build" ELSE "pick"
    OBVIOUS
  <2>2. PICK s \in Request : s = [r EXCEPT !.pc = pc, !.deploy = TRUE]
    BY DEF Request, Pc
  <2>3. /\ Onward(r, s) /\ s.pc = pc /\ s.deploy = TRUE /\ s.fresh = r.fresh
    BY <2>2 DEF Request, Onward
  <2>4. Knows(s)
    BY <1>1, <1>4, <1>5, <2>3
       DEF Knows, Shaped, Informed, Answered, Onward, Working, Deployers
  <2> QED BY <1>1, <1>2, <1>3, <1>7, <2>1, <2>2, <2>3, <2>4, CalmMove
          DEF Onward, Deploying
<1> QED BY <1>6, <1>7

LEMMA AgainCalm == ASSUME HomesInv, CalmInv, NEW t \in Tab, Again(t) PROVE CalmInv'
<1>1. PICK r \in Request : r = req[t] /\ Good(r) /\ Knows(r) /\ r.pc = "again"
  BY HomesNow DEF Again, CalmInv
<1>2. UNCHANGED <<chain, drawn, calm>> /\ Active(t)
  BY <1>1 DEF Again, Active
<1>3. PICK said \in {"ok", "failed"} : Set(t, Ended(r, said, r.name))
  BY <1>1 DEF Again
<1>4. r.name \in 0..NLabel
  BY DEF Request
<1>5. PICK e \in Request : e = Ended(r, said, r.name) /\ e.pc = "done"
  <2>1. PICK e \in Request : e = Ended(r, said, r.name)
    BY <1>4, EndedRequest
  <2> QED BY <2>1, EndedIs
<1>6. calm /\ r.flow = "wallet" /\ r.wish # 0 /\ r.name = 0 => Beaten(r)
  BY <1>1 DEF Knows, Answered
<1>7. Knows(e)
  BY <1>1, <1>5, <1>6, EndedKnows
<1> QED BY <1>2, <1>3, <1>5, <1>7, CalmMove

LEMMA LookCalm == ASSUME HomesInv, CalmInv, NEW t \in Tab, Look(t) PROVE CalmInv'
<1>1. PICK r \in Request : r = req[t] /\ Good(r) /\ Knows(r) /\ r.pc = "look"
  BY HomesNow DEF Look, CalmInv
<1>2. UNCHANGED <<chain, drawn, calm>> /\ Active(t)
  BY <1>1 DEF Look, Active
<1>3. PICK seen \in SeesCode(r.home) :
       Set(t, IF seen THEN [Ended(r, "ok", r.wish) EXCEPT !.short = TRUE]
              ELSE [r EXCEPT !.pc = "build", !.deploy = TRUE, !.label = r.wish])
  BY <1>1 DEF Look
<1>4. calm => IF seen THEN r.home \in code ELSE r.home \notin code
  BY <1>3 DEF SeesCode
<1>5. r.flow \in {"social", "direct"} /\ r.said = "nothing" /\ r.wish \in 0..NLabel
  BY <1>1 DEF Knows, Shaped, Good, Request
<1>6. CASE seen
  <2>1. PICK e \in Request : e = Ended(r, "ok", r.wish)
    BY <1>5, EndedRequest
  <2>2. PICK s \in Request : s = [e EXCEPT !.short = TRUE]
    BY DEF Request
  <2>3. s.pc = "done" /\ s.flow = r.flow /\ s.refused = r.refused
    BY <2>1, <2>2, EndedIs DEF Request
  <2>4. Knows(s)
    BY <1>1, <1>5, <2>3 DEF Knows, Shaped, Informed, Answered, Working
  <2> QED BY <1>2, <1>3, <1>6, <2>1, <2>2, <2>3, <2>4, CalmMove
<1>7. CASE ~seen
  <2>1. PICK s \in Request : s = [r EXCEPT !.pc = "build", !.deploy = TRUE, !.label = r.wish]
    BY <1>5 DEF Request, Pc
  <2>2. Onward(r, s) /\ s.pc = "build" /\ s.deploy = TRUE /\ s.fresh = r.fresh
    BY <2>1 DEF Request, Onward
  <2>3. Knows(s)
    BY <1>1, <1>4, <1>5, <1>7, <2>2
       DEF Knows, Shaped, Informed, Answered, Onward, Working, Deployers
  <2> QED BY <1>1, <1>2, <1>3, <1>7, <2>1, <2>2, <2>3, CalmMove DEF Onward
<1> QED BY <1>6, <1>7

LEMMA ReverseCalm == ASSUME HomesInv, CalmInv, NEW t \in Tab, Reverse(t) PROVE CalmInv'
<1>1. PICK r \in Request : r = req[t] /\ Good(r) /\ Knows(r) /\ r.pc = "reverse"
  BY HomesNow DEF Reverse, CalmInv
<1>2. UNCHANGED <<chain, drawn, calm>> /\ Active(t)
  BY <1>1 DEF Reverse, Active
<1>3. PICK l \in SeesName(r.home) :
        Set(t, IF l = 0 THEN [r EXCEPT !.pc = "pick"] ELSE Ended(r, "ok", l))
  BY <1>1 DEF Reverse
<1>4. l \in 0..NLabel /\ (calm /\ l = 0 => NameOf(r.home) = {})
  BY <1>3 DEF SeesName, NameOf, Label
<1>5. r.flow \in {"wallet", "later"} /\ ~r.deploy /\ r.said = "nothing"
  BY <1>1 DEF Knows, Shaped, Good
<1>6. CASE l = 0
  <2>1. PICK s \in Request : s = [r EXCEPT !.pc = "pick"]
    BY DEF Request, Pc
  <2>2. Onward(r, s) /\ s.pc = "pick" /\ s.deploy = r.deploy /\ s.fresh = r.fresh
    BY <2>1 DEF Request, Onward
  <2>3. Knows(s)
    BY <1>1, <1>4, <1>5, <1>6, <2>2
       DEF Knows, Shaped, Informed, Answered, Onward, Working, Callers
  <2> QED BY <1>1, <1>2, <1>3, <1>6, <2>1, <2>2, <2>3, CalmMove DEF Onward
<1>7. CASE l # 0
  <2>1. PICK e \in Request : e = Ended(r, "ok", l)
    BY <1>4, EndedRequest
  <2>2. Knows(e) /\ e.pc = "done"
    BY <1>1, <1>7, <2>1, EndedKnows, EndedIs
  <2> QED BY <1>2, <1>3, <1>7, <2>1, <2>2, CalmMove
<1> QED BY <1>6, <1>7

\* What is left of a request whose claim, or whose operation, failed.
SameWish(r, s) ==
  /\ s.home = r.home /\ s.flow = r.flow /\ s.wish = r.wish /\ s.label = r.label
  /\ s.refused = r.refused

GivenUp(r, c) ==
  /\ SameWish(r, c) /\ c.name = 0
  /\ \/ c.pc = "again" /\ r.flow = "wallet" /\ r.fresh /\ c.fresh /\ c.said = r.said
     \/ c.pc = "done"

LEMMA ClaimedIs ==
  ASSUME NEW r \in Request
  PROVE  \E c \in Request : c = Claimed(r, FALSE) /\ GivenUp(r, c)
<1>1. CASE r.flow = "wallet" /\ r.fresh
  <2>1. PICK c \in Request : c = [r EXCEPT !.pc = "again", !.name = 0]
    BY Zero DEF Request, Pc
  <2>2. SameWish(r, c) /\ c.name = 0 /\ c.pc = "again" /\ c.fresh = r.fresh /\ c.said = r.said
    BY <2>1 DEF Request, SameWish
  <2> QED BY <1>1, <2>1, <2>2 DEF Claimed, GivenUp
<1>2. CASE ~(r.flow = "wallet" /\ r.fresh)
  <2>1. PICK said \in {"ok", "failed"} : Claimed(r, FALSE) = Ended(r, said, 0)
    BY <1>2 DEF Claimed
  <2>2. PICK c \in Request : c = Ended(r, said, 0)
    BY Zero, EndedRequest
  <2>3. SameWish(r, c) /\ c.name = 0 /\ c.pc = "done"
    BY <2>2, EndedIs DEF SameWish
  <2> QED BY <2>1, <2>2, <2>3 DEF GivenUp
<1> QED BY <1>1, <1>2

Retried(r, f) ==
  /\ SameWish(r, f) /\ f.pc = "build" /\ f.deploy = r.deploy /\ f.fresh = r.fresh
  /\ f.name = r.name /\ f.said = r.said

LEMMA FailedIs ==
  ASSUME NEW r \in Request
  PROVE  \E f \in Request :
           /\ f = Failed(r) /\ SameWish(r, f)
           /\ \/ r.deploy /\ f.pc = "done" /\ f.said = "failed"
              \/ ~r.deploy /\ r.flow = "nameAgent" /\ f.pc = "done" /\ f.said = "failed"
              \/ ~r.deploy /\ (Retried(r, f) \/ GivenUp(r, f))
<1>1. CASE r.deploy \/ r.flow = "nameAgent"
  <2>1. PICK f \in Request : f = Ended(r, "failed", 0)
    BY Zero, EndedRequest
  <2>2. SameWish(r, f) /\ f.pc = "done" /\ f.said = "failed"
    BY <2>1, EndedIs DEF SameWish
  <2> QED BY <1>1, <2>1, <2>2 DEF Failed
<1>2. CASE ~(r.deploy \/ r.flow = "nameAgent") /\ r.tries + 1 < Attempts
  <2>0. r.tries + 1 \in 0..(Attempts - 1)
    BY <1>2 DEF Request
  <2>1. PICK f \in Request : f = [r EXCEPT !.pc = "build", !.tries = r.tries + 1]
    BY <2>0 DEF Request, Pc
  <2>2. Retried(r, f)
    BY <2>1 DEF Request, Retried, SameWish
  <2> QED BY <1>2, <2>1, <2>2 DEF Failed, Retried
<1>3. CASE ~(r.deploy \/ r.flow = "nameAgent") /\ ~(r.tries + 1 < Attempts)
  BY <1>3, ClaimedIs DEF Failed, GivenUp
<1> QED BY <1>1, <1>2, <1>3

\* A request that tries again or gives up keeps the shape of its flow.
LEMMA FailedShaped ==
  ASSUME NEW r \in Request, Shaped(r), r.pc \in {"build", "submit"}
  PROVE  \E f \in Request : f = Failed(r) /\ Shaped(f) /\ SameWish(r, f)
<1>1. PICK f \in Request :
           /\ f = Failed(r) /\ SameWish(r, f)
           /\ \/ f.pc = "done"
              \/ ~r.deploy /\ (Retried(r, f) \/ GivenUp(r, f))
  BY FailedIs
<1>2. CASE f.pc = "done"
  BY <1>1, <1>2 DEF Shaped, Working
<1>3. CASE ~r.deploy /\ Retried(r, f)
  BY <1>1, <1>3 DEF Shaped, Working, Retried, SameWish
<1>4. CASE ~r.deploy /\ GivenUp(r, f)
  BY <1>1, <1>4 DEF Shaped, Working, GivenUp, SameWish
<1> QED BY <1>1, <1>2, <1>3, <1>4

LEMMA PickCalm == ASSUME HomesInv, CalmInv, NEW t \in Tab, Pick(t) PROVE CalmInv'
<1>1. PICK r \in Request : r = req[t] /\ Good(r) /\ Knows(r) /\ r.pc = "pick"
  BY HomesNow DEF Pick, CalmInv
<1>2. UNCHANGED <<chain, drawn, calm>> /\ Active(t)
  BY <1>1 DEF Pick, Active
<1>3. r.said = "nothing"
  BY <1>1 DEF Good
<1>4. ASSUME NEW l \in Free(r.wish), Set(t, [r EXCEPT !.pc = "build", !.label = l])
      PROVE  CalmInv'
  <2>1. l \in 0..NLabel /\ l # 0
    BY DEF Free, Label
  <2>2. PICK s \in Request : s = [r EXCEPT !.pc = "build", !.label = l]
    BY <2>1 DEF Request, Pc
  <2>3. /\ Onward(r, s) /\ s.pc = "build" /\ s.deploy = r.deploy /\ s.fresh = r.fresh
        /\ s.label = l
    BY <2>2 DEF Request, Onward
  <2>4. Knows(s)
    BY <1>1, <1>3, <2>1, <2>3 DEF Knows, Shaped, Informed, Answered, Onward, Working
  <2> QED BY <1>1, <1>2, <1>4, <2>2, <2>3, <2>4, CalmMove DEF Onward
<1>5. CASE Set(t, Claimed(r, FALSE)) /\ \A l \in r.wish..NLabel : owner[l] # NoHome
  <2>1. PICK c \in Request : c = Claimed(r, FALSE) /\ GivenUp(r, c)
    BY ClaimedIs
  <2>2. Beaten(c)
    BY <1>5, <2>1 DEF Beaten, GivenUp, SameWish
  <2>3. Knows(c)
    BY <1>1, <2>1, <2>2
       DEF Knows, Shaped, Informed, Answered, GivenUp, SameWish, Working
  <2> QED BY <1>1, <1>2, <1>5, <2>1, <2>3, CalmMove DEF GivenUp, SameWish
<1> QED BY <1>1, <1>4, <1>5 DEF Pick

LEMMA BuildCalm == ASSUME HomesInv, CalmInv, NEW t \in Tab, Build(t) PROVE CalmInv'
<1>1. PICK r \in Request : r = req[t] /\ Good(r) /\ Knows(r) /\ r.pc = "build"
  BY HomesNow DEF Build, CalmInv
<1>2. UNCHANGED <<chain, drawn, calm>> /\ Active(t)
  BY <1>1 DEF Build, Active
<1>3. r.said = "nothing" /\ r.home \in Account /\ nonce[r.home] \in Nat
  BY <1>1 DEF Good, HomesInv, TypeOK
<1>4. ASSUME NEW n \in SeesNonce(r.home),
             Set(t, [r EXCEPT !.pc = "submit", !.nonce = n, !.sends = 0])
      PROVE  CalmInv'
  <2>1. n \in Nat /\ (calm => n = nonce[r.home])
    BY <1>3 DEF SeesNonce
  <2>2. PICK s \in Request : s = [r EXCEPT !.pc = "submit", !.nonce = n, !.sends = 0]
    BY <2>1, Zero DEF Request, Pc
  <2>3. /\ Onward(r, s) /\ s.pc = "submit" /\ s.deploy = r.deploy /\ s.fresh = r.fresh
        /\ s.label = r.label /\ s.nonce = n
    BY <2>2 DEF Request, Onward
  <2>4. Knows(s)
    BY <1>1, <1>3, <2>1, <2>3 DEF Knows, Shaped, Informed, Answered, Onward, Working
  <2> QED BY <1>1, <1>2, <1>4, <2>2, <2>3, <2>4, CalmMove DEF Onward
<1>5. CASE Set(t, Failed(r)) /\ ~calm
  <2>1. PICK f \in Request : f = Failed(r) /\ Shaped(f) /\ SameWish(r, f)
    BY <1>1, FailedShaped DEF Knows
  <2>2. Knows(f)
    BY <1>5, <2>1 DEF Knows
  <2> QED BY <1>1, <1>2, <1>5, <2>1, <2>2, CalmMove DEF SameWish
<1>6. ASSUME calm, NEW n \in SeesNonce(r.home) PROVE ~(r.fresh /\ n = 0)
  <2>1. n = nonce[r.home] /\ Informed(r)
    BY <1>1, <1>6 DEF SeesNonce, Knows
  <2> QED BY <1>1, <2>1 DEF Informed
<1> QED BY <1>1, <1>4, <1>5, <1>6 DEF Build

LEMMA ResendCalm == ASSUME HomesInv, CalmInv, NEW t \in Tab, Resend(t) PROVE CalmInv'
<1>1. PICK r \in Request : /\ r = req[t] /\ Knows(r) /\ r.pc = "submit"
                           /\ r.sends + 1 < Resends
                           /\ Set(t, [r EXCEPT !.sends = r.sends + 1])
  BY HomesNow DEF Resend, CalmInv
<1>2. UNCHANGED <<chain, drawn, calm>> /\ Active(t)
  BY <1>1 DEF Resend, Active
<1>3. r.sends + 1 \in 0..(Resends - 1)
  BY <1>1 DEF Request
<1>4. PICK s \in Request : s = [r EXCEPT !.sends = r.sends + 1]
  BY <1>3 DEF Request
<1>5. /\ Onward(r, s) /\ s.pc = "submit" /\ s.deploy = r.deploy /\ s.fresh = r.fresh
      /\ s.label = r.label /\ s.nonce = r.nonce
  BY <1>1, <1>4 DEF Request, Onward
<1>6. Knows(s)
  BY <1>1, <1>5 DEF Knows, Shaped, Informed, Answered, Beaten, Onward, Working
<1> QED BY <1>1, <1>2, <1>4, <1>5, <1>6, CalmMove DEF Onward

\* In a calm world only a treasury is refused: the nonce is the account's,
\* and a deployment finds no code, a call finds some.
LEMMA RefusedCalm == ASSUME HomesInv, CalmInv, NEW t \in Tab, Refused(t) PROVE CalmInv'
<1>1. PICK r \in Request : /\ r = req[t] /\ Knows(r) /\ r.pc = "submit"
                           /\ Set(t, Failed([r EXCEPT !.refused = TRUE]))
                           /\ ~Acceptable(r) \/ Missing(r)
  BY HomesNow DEF Refused, CalmInv
<1>2. UNCHANGED <<chain, drawn, calm>> /\ Active(t)
  BY <1>1 DEF Refused, Active
<1>3. PICK s \in Request : s = [r EXCEPT !.refused = TRUE]
  BY DEF Request
<1>4. /\ s.home = r.home /\ s.flow = r.flow /\ s.label = r.label /\ s.pc = r.pc
      /\ s.deploy = r.deploy
  BY <1>3 DEF Request
<1>5. Shaped(s)
  BY <1>1, <1>4 DEF Knows, Shaped
<1>6. calm => r.flow = "treasury"
  <2> SUFFICES ASSUME calm, r.flow # "treasury" PROVE FALSE
    OBVIOUS
  <2>1. r.nonce = nonce[r.home] /\ (IF r.deploy THEN r.home \notin code ELSE r.home \in code)
    BY <1>1 DEF Knows, Informed, Working
  <2> QED BY <1>1, <2>1 DEF Acceptable, Missing
<1>7. calm => r.deploy
  BY <1>1, <1>6 DEF Knows, Shaped, Working, Callers
<1>8. PICK f \in Request :
           /\ f = Failed(s) /\ SameWish(s, f)
           /\ \/ f.pc = "done" /\ f.said = "failed"
              \/ ~s.deploy
  BY FailedIs
<1>9. Shaped(f)
  BY <1>1, <1>4, <1>5, <1>8, FailedShaped
<1>10. calm => Informed(f) /\ Answered(f)
  BY <1>4, <1>6, <1>7, <1>8 DEF Informed, Answered, SameWish, Working
<1>11. Knows(f)
  BY <1>9, <1>10 DEF Knows
<1> QED BY <1>1, <1>2, <1>3, <1>4, <1>8, <1>11, CalmMove DEF SameWish

LEMMA RecordCalm == ASSUME HomesInv, CalmInv, NEW t \in Tab, Record(t) PROVE CalmInv'
<1>1. PICK r \in Request : r = req[t] /\ Knows(r) /\ r.pc = "record"
  BY HomesNow DEF Record, CalmInv
<1>2. UNCHANGED <<chain, drawn, calm>> /\ Active(t)
  BY <1>1 DEF Record, Active
<1>3. PICK said \in {"ok", "warned"} : Set(t, Ended(r, said, r.label))
  BY <1>1 DEF Record
<1>4. r.label \in 0..NLabel /\ r.flow # "wallet"
  BY <1>1 DEF Request, Knows, Shaped, Managed
<1>5. PICK e \in Request : e = Ended(r, said, r.label)
  BY <1>4, EndedRequest
<1>6. Knows(e) /\ e.pc = "done"
  BY <1>1, <1>4, <1>5, EndedKnows, EndedIs
<1> QED BY <1>2, <1>3, <1>5, <1>6, CalmMove

LEMMA IdleKnows == Knows(Idle) /\ Idle \in Request /\ Idle.pc = "done"
<1>1. /\ Idle.pc = "done" /\ Idle.flow = "act" /\ Idle.refused = FALSE
      /\ Idle.said = "nothing"
  BY DEF Idle
<1> QED BY <1>1, IdleGood DEF Knows, Shaped, Informed, Answered, Working

LEMMA LeaveCalm == ASSUME HomesInv, CalmInv, NEW t \in Tab, Leave(t) PROVE CalmInv'
BY IdleKnows, CalmMove DEF Leave

LEMMA DirectDeployCalm ==
  ASSUME HomesInv, CalmInv, NEW t \in Tab, DirectDeploy(t) PROVE CalmInv'
<1>1. PICK r \in Request : /\ r = req[t] /\ Good(r) /\ Knows(r) /\ r.pc = "build"
                           /\ r.flow = "direct" /\ Set(t, Ended(r, "ok", 0))
  BY HomesNow DEF DirectDeploy, CalmInv
<1>2. /\ UNCHANGED <<nonce, owner, approved, drawn, calm>> /\ Active(t)
      /\ code \subseteq code' /\ code' \subseteq code \cup {r.home}
  BY <1>1 DEF DirectDeploy, Active
<1>3. ChangesOnly(r.home)
  BY <1>2 DEF ChangesOnly, Grows, NameOf
<1>4. PICK e \in Request : e = Ended(r, "ok", 0)
  BY Zero, EndedRequest
<1>5. e.pc = "done" /\ e.flow = "direct" /\ e.refused = r.refused
  BY <1>1, <1>4, EndedIs
<1>6. Knows(e)'
  <2>1. calm => ~r.refused
    BY <1>1 DEF Knows, Answered
  <2> QED BY <1>2, <1>5, <2>1 DEF Knows, Shaped, Informed, Answered, Working
<1>7. code' \cap Fresh \subseteq drawn'
  <2>1. r.home \in Fresh => r.home \in drawn
    BY <1>1 DEF Knows, Shaped
  <2> QED BY <1>2, <2>1 DEF CalmInv
<1>8. calm => \A u \in Tab \ {t} : Active(u) => req[u].home # r.home
  BY <1>1, <1>2 DEF CalmInv, Alone
<1> QED BY <1>1, <1>2, <1>3, <1>4, <1>5, <1>6, <1>7, <1>8, CalmStep

LEMMA BeginCalm == ASSUME HomesInv, CalmInv, NEW t \in Tab, Begin(t) PROVE CalmInv'
<1>1. PICK f \in Flows, h \in Account, w \in Wish :
       /\ Starts(f, h, w)
       /\ calm => \A u \in Tab : Active(u) => req[u].home # h
       /\ Set(t, [Idle EXCEPT !.flow = f, !.home = h, !.wish = w,
                              !.pc = First(f, w),
                              !.deploy = f \in {"treasury", "agent"},
                              !.label = IF f = "nameAgent" THEN w ELSE 0])
       /\ drawn' = IF f = "agent" THEN drawn \cup {h} ELSE drawn
  BY DEF Begin
<1>2. UNCHANGED <<code, nonce, owner, approved, calm>> /\ drawn \subseteq drawn'
  BY <1>1 DEF Begin, chain
<1>3. w \in 0..NLabel /\ f \in Flow
  OBVIOUS
<1>4. PICK d \in BOOLEAN : d = (f \in {"treasury", "agent"})
  <2>1. CASE f \in {"treasury", "agent"}
    BY <2>1
  <2>2. CASE f \notin {"treasury", "agent"}
    <3>1. FALSE = (f \in {"treasury", "agent"})
      BY <2>2
    <3> QED BY <3>1
  <2> QED BY <2>1, <2>2
<1>5. PICK l \in 0..NLabel : l = IF f = "nameAgent" THEN w ELSE 0
  BY <1>3, Zero
<1>6. PICK p \in Pc : p = First(f, w)
  BY DEF First, Pc
<1> DEFINE r == [Idle EXCEPT !.flow = f, !.home = h, !.wish = w, !.pc = p,
                             !.deploy = d, !.label = l]
<1>7. /\ r \in Request /\ r.pc = p /\ r.flow = f /\ r.home = h /\ r.deploy = d
      /\ r.label = l /\ r.refused = FALSE /\ r.fresh = FALSE /\ r.said = "nothing"
  BY <1>3, Zero DEF Idle, Request
<1>8. Set(t, r)
  BY <1>1, <1>4, <1>5, <1>6
<1> HIDE DEF r
<1>9. p \in {"login", "look", "reverse", "pick", "build"}
  BY <1>6 DEF First
<1>10. h \in Fresh => h \in drawn'
  BY <1>1, <1>3 DEF Starts, Flow, CalmInv, Account, Member
<1>11. Shaped(r)'
  <2>1. p = "login" => f \in {"passkey", "wallet"} /\ l = 0 /\ ~d
    BY <1>4, <1>5, <1>6 DEF First
  <2>2. p = "look" => f \in {"social", "direct"}
    BY <1>6 DEF First
  <2>3. p = "reverse" => f \in {"wallet", "later"} /\ ~d
    BY <1>4, <1>6 DEF First
  <2>4. p \in {"pick", "build"} =>
          f # "wallet" /\ (IF d THEN f \in Deployers ELSE f \in Callers)
    BY <1>3, <1>4, <1>6 DEF First, Flow, Deployers, Callers, Managed
  <2> QED BY <1>7, <1>9, <1>10, <2>1, <2>2, <2>3, <2>4 DEF Shaped, Working
<1>12. Informed(r)'
  <2>1. p = "reverse" => h \in code
    <3>1. p = "reverse" => f = "later"
      BY <1>3, <1>6 DEF First, Flow
    <3> QED BY <1>1, <3>1 DEF Starts
  <2>2. p \in {"pick", "build"} => f \in {"treasury", "agent", "nameAgent", "act"}
    BY <1>3, <1>6 DEF First, Flow
  <2>3. f = "agent" => h \notin code
    BY <1>1 DEF Starts, CalmInv
  <2>4. f \in {"nameAgent", "act"} => h \in code
    BY <1>1 DEF Starts
  <2> QED BY <1>2, <1>4, <1>7, <1>9, <2>1, <2>2, <2>3, <2>4 DEF Informed, Working
<1>13. Answered(r)'
  BY <1>7, <1>9 DEF Answered
<1>14. ChangesOnly(h)
  BY <1>2 DEF ChangesOnly, Grows, NameOf
<1>15. code' \cap Fresh \subseteq drawn'
  BY <1>2 DEF CalmInv
<1> QED BY <1>1, <1>2, <1>7, <1>8, <1>11, <1>12, <1>13, <1>14, <1>15, CalmStep
        DEF Knows

\* What an operation that landed leaves on chain.
LEMMA LandChain ==
  ASSUME HomesInv, NEW t \in Tab, Land(t), NEW r \in Request, r = req[t]
  PROVE  /\ r.home \in Account /\ ChangesOnly(r.home) /\ r.home \in code'
         /\ nonce'[r.home] # 0
         /\ \A l \in Label : owner[l] # NoHome => owner'[l] # NoHome
         /\ BatchHolds(r) /\ r.label # 0 => owner'[r.label] = r.home
         /\ ~(BatchHolds(r) /\ r.label # 0) => owner' = owner
<1>1. TypeOK /\ r.home \in Account /\ NoHome \notin Account
  BY HomesNow DEF Land, Approve, Good, HomesInv
<1>2. /\ code' = code \cup {r.home} /\ nonce' = [nonce EXCEPT ![r.home] = @ + 1]
      /\ Register(r) /\ approved \subseteq approved'
  BY DEF Land, Approve
<1>3. r.label # 0 => r.label \in Label
  BY DEF Request, Label
<1>4. CASE r.label # 0 /\ BatchHolds(r)
  <2>1. owner' = [owner EXCEPT ![r.label] = r.home] /\ owner[r.label] = NoHome
    BY <1>2, <1>4 DEF Register, BatchHolds
  <2>2. /\ owner'[r.label] = r.home
        /\ \A l \in Label : l # r.label => owner'[l] = owner[l]
    BY <1>1, <1>3, <1>4, <2>1 DEF TypeOK
  <2>3. \A x \in Account : x # r.home => NameOf(x)' = NameOf(x)
    BY <1>1, <2>1, <2>2 DEF NameOf
  <2>4. nonce'[r.home] # 0 /\ \A x \in Account : x # r.home => nonce'[x] = nonce[x]
    BY <1>1, <1>2 DEF TypeOK
  <2> QED BY <1>1, <1>2, <1>4, <2>1, <2>2, <2>3, <2>4 DEF ChangesOnly, Grows
<1>5. CASE ~(r.label # 0 /\ BatchHolds(r))
  <2>1. owner' = owner
    BY <1>2, <1>5 DEF Register
  <2>2. nonce'[r.home] # 0 /\ \A x \in Account : x # r.home => nonce'[x] = nonce[x]
    BY <1>1, <1>2 DEF TypeOK
  <2> QED BY <1>1, <1>2, <1>5, <2>1, <2>2 DEF ChangesOnly, Grows, NameOf
<1> QED BY <1>4, <1>5

\* A request that goes on after its operation held.
Continues(r, c) ==
  /\ SameWish(r, c)
  /\ \/ c.pc = "done" /\ c.name = r.label /\ ~(r.flow = "wallet" /\ r.deploy)
     \/ c.pc = "again" /\ c.name = r.label /\ (r.flow = "wallet" => ~r.deploy)
     \/ /\ r.flow = "wallet" /\ r.deploy /\ ~c.deploy /\ c.said = r.said
        /\ c.name = r.name /\ IF r.wish = 0 THEN c.pc = "again" ELSE c.pc = "pick"
     \/ r.flow \in Managed /\ c.pc = "record" /\ c.said = r.said

LEMMA SucceededIs ==
  ASSUME NEW r \in Request
  PROVE  \E c \in Request : c = Succeeded(r) /\ Continues(r, c)
<1>1. r.label \in 0..NLabel
  BY DEF Request
<1>2. CASE Succeeded(r) = Ended(r, "ok", r.label) /\ ~(r.flow = "wallet" /\ r.deploy)
  <2>1. PICK c \in Request : c = Ended(r, "ok", r.label)
    BY <1>1, EndedRequest
  <2>2. SameWish(r, c) /\ c.name = r.label /\ c.pc = "done"
    BY <2>1, EndedIs DEF SameWish
  <2> QED BY <1>2, <2>1, <2>2 DEF Continues
<1>3. CASE /\ Succeeded(r) = [r EXCEPT !.pc = "again", !.name = r.label]
           /\ r.flow = "wallet" => ~r.deploy
  <2>1. PICK c \in Request : c = [r EXCEPT !.pc = "again", !.name = r.label]
    BY <1>1 DEF Request, Pc
  <2>2. SameWish(r, c) /\ c.name = r.label /\ c.pc = "again"
    BY <2>1 DEF Request, SameWish
  <2> QED BY <1>3, <2>1, <2>2 DEF Continues
<1>4. CASE r.deploy /\ r.flow = "wallet"
  <2>1. PICK c \in Request :
            c = [r EXCEPT !.pc = IF r.wish = 0 THEN "again" ELSE "pick",
                          !.deploy = FALSE, !.fresh = TRUE]
    BY DEF Request, Pc
  <2>2. /\ SameWish(r, c) /\ c.deploy = FALSE /\ c.said = r.said /\ c.name = r.name
        /\ c.pc = IF r.wish = 0 THEN "again" ELSE "pick"
    BY <2>1 DEF Request, SameWish
  <2>3. Succeeded(r) = c
    BY <1>4, <2>1 DEF Succeeded
  <2> QED BY <1>4, <2>2, <2>3 DEF Continues
<1>5. CASE r.deploy /\ r.flow \in Managed
  <2>1. PICK c \in Request : c = [r EXCEPT !.pc = "record"]
    BY DEF Request, Pc
  <2>2. SameWish(r, c) /\ c.pc = "record" /\ c.said = r.said
    BY <2>1 DEF Request, SameWish
  <2>3. Succeeded(r) = c
    BY <1>5, <2>1 DEF Succeeded, Managed
  <2> QED BY <1>5, <2>2, <2>3 DEF Continues
<1>6. CASE ~r.deploy
  BY <1>2, <1>3, <1>6 DEF Succeeded, Claimed
<1>7. CASE r.deploy /\ r.flow \notin {"wallet"} \cup Managed
  BY <1>2, <1>3, <1>7 DEF Succeeded, Managed
<1> QED BY <1>4, <1>5, <1>6, <1>7

LEMMA LandCalm == ASSUME HomesInv, CalmInv, NEW t \in Tab, Land(t) PROVE CalmInv'
<1>1. PICK r \in Request : r = req[t] /\ Good(r) /\ Knows(r) /\ r.pc = "submit"
  BY HomesNow DEF Land, CalmInv, Approve
<1>2. drawn' = drawn /\ calm' = calm /\ Active(t)
  BY <1>1 DEF Land, Active
<1>3. /\ r.home \in Account /\ ChangesOnly(r.home) /\ r.home \in code'
      /\ nonce'[r.home] # 0
      /\ \A l \in Label : owner[l] # NoHome => owner'[l] # NoHome
      /\ BatchHolds(r) /\ r.label # 0 => owner'[r.label] = r.home
      /\ ~(BatchHolds(r) /\ r.label # 0) => owner' = owner
  BY <1>1, LandChain
<1>4. r.said = "nothing" /\ (r.label # 0 => r.label \in Label)
  BY <1>1 DEF Good, Request, Label
<1>5. code' \cap Fresh \subseteq drawn'
  <2>1. r.home \in Fresh => r.home \in drawn
    BY <1>1 DEF Knows, Shaped
  <2> QED BY <1>2, <1>3, <2>1 DEF CalmInv, ChangesOnly
<1>6. calm => \A u \in Tab \ {t} : Active(u) => req[u].home # r.home
  BY <1>1, <1>2 DEF CalmInv, Alone
<1>7. ASSUME NEW f \in Request, Set(t, f), SameWish(r, f), Knows(f)' PROVE CalmInv'
  BY <1>1, <1>2, <1>3, <1>5, <1>6, <1>7, CalmStep DEF SameWish
<1>8. PICK h \in Nat : h = IF BatchHolds(r) /\ ~r.deploy THEN r.hits + 1 ELSE r.hits
  BY DEF Request
<1>9. PICK s \in Request : s = [r EXCEPT !.hits = h]
  BY DEF Request
<1>10. /\ SameWish(r, s) /\ s.pc = "submit" /\ s.deploy = r.deploy /\ s.fresh = r.fresh
       /\ s.name = r.name /\ s.said = r.said /\ s.lost = r.lost
  BY <1>1, <1>9 DEF Request, SameWish
<1>11. Shaped(s)
  BY <1>1, <1>10 DEF Knows, Shaped, SameWish
<1>12. \/ Set(t, AnswerFor(s, BatchHolds(r)))
       \/ ~calm /\ Set(t, Failed([s EXCEPT !.lost = s.lost + 1]))
  BY <1>1, <1>8, <1>9 DEF Land
<1>13. CASE ~calm /\ Set(t, Failed([s EXCEPT !.lost = s.lost + 1]))
  <2>1. PICK q \in Request : q = [s EXCEPT !.lost = s.lost + 1]
    <3>1. s.lost + 1 \in Nat
      BY DEF Request
    <3> QED BY <3>1 DEF Request
  <2>2. /\ SameWish(r, q) /\ q.pc = "submit" /\ q.deploy = s.deploy
    BY <1>10, <2>1 DEF Request, SameWish
  <2>3. Shaped(q)
    BY <1>10, <1>11, <2>2 DEF Shaped, SameWish
  <2>4. PICK f \in Request : f = Failed(q) /\ Shaped(f) /\ SameWish(q, f)
    BY <2>2, <2>3, FailedShaped
  <2>5. Knows(f)'
    BY <1>2, <1>13, <2>4 DEF Knows, Shaped
  <2> QED BY <1>7, <1>13, <2>1, <2>2, <2>4, <2>5 DEF SameWish
<1>14. CASE Set(t, AnswerFor(s, BatchHolds(r))) /\ ~BatchHolds(r)
  <2>1. PICK f \in Request :
           /\ f = Failed(s) /\ SameWish(s, f)
           /\ \/ f.pc = "done" /\ f.said = "failed"
              \/ ~s.deploy /\ (Retried(s, f) \/ GivenUp(s, f))
    BY FailedIs
  <2>2. SameWish(r, f)
    BY <1>10, <2>1 DEF SameWish
  <2>3. Shaped(f)'
    <3>1. Shaped(f)
      BY <1>10, <1>11, <2>1, FailedShaped
    <3> QED BY <1>2, <3>1 DEF Shaped
  <2>4. ASSUME calm PROVE Informed(f)'
    <3>1. owner' = owner /\ NameOf(r.home)' = NameOf(r.home)
      BY <1>3, <1>14 DEF NameOf
    <3>2. Informed(r)
      BY <1>1, <2>4 DEF Knows
    <3> QED BY <1>1, <1>3, <1>10, <2>1, <2>2, <3>1, <3>2
            DEF Informed, Retried, GivenUp, SameWish, Working
  <2>5. ASSUME calm PROVE Answered(f)'
    <3>1. Informed(r) /\ Answered(r) /\ Shaped(r)
      BY <1>1, <2>5 DEF Knows
    <3>2. r.flow = "wallet" /\ ~r.deploy => r.label # 0 /\ owner'[r.label] # NoHome
      BY <1>1, <1>3, <1>4, <1>14, <3>1 DEF Informed, BatchHolds, Working
    <3>3. f.said = "ok" \/ f.pc = "again" => ~r.deploy /\ GivenUp(s, f)
      BY <1>4, <1>10, <2>1 DEF Retried, SameWish
    <3> QED BY <2>2, <3>1, <3>2, <3>3 DEF Answered, Beaten, SameWish
  <2> QED BY <1>2, <1>7, <1>14, <2>1, <2>2, <2>3, <2>4, <2>5 DEF AnswerFor, Knows
<1>15. CASE Set(t, AnswerFor(s, BatchHolds(r))) /\ BatchHolds(r)
  <2>1. PICK c \in Request : c = Succeeded(s) /\ Continues(s, c)
    BY SucceededIs
  <2>2. SameWish(r, c) /\ Continues(r, c)
    BY <1>10, <2>1 DEF Continues, SameWish
  <2>3. Shaped(r) /\ (calm => Informed(r) /\ Answered(r))
    BY <1>1 DEF Knows
  <2>4. Shaped(c)'
    BY <1>1, <1>2, <2>2, <2>3 DEF Shaped, Continues, SameWish, Working, Callers
  <2>5. ASSUME calm PROVE Informed(c)'
    <3>1. r.flow = "wallet" /\ r.deploy => NameOf(r.home)' = {}
      <4> SUFFICES ASSUME r.flow = "wallet", r.deploy PROVE NameOf(r.home)' = {}
        OBVIOUS
      <4>1. r.home \notin code /\ r.label = 0
        BY <1>1, <2>3, <2>5 DEF Informed, Shaped, Working
      <4>2. owner' = owner /\ \A l \in Label : owner[l] # r.home
        BY <1>3, <4>1 DEF HomesInv, NoOrphanName
      <4> QED BY <4>2 DEF NameOf
    <3> QED BY <1>1, <1>3, <2>2, <3>1
            DEF Informed, Continues, SameWish, Working
  <2>6. ASSUME calm PROVE Answered(c)'
    <3>1. r.flow = "wallet" /\ ~r.deploy => r.label # 0
      BY <1>1, <2>3 DEF Shaped
    <3> QED BY <1>1, <1>4, <2>2, <2>3, <2>6, <3>1
            DEF Answered, Beaten, Continues, SameWish, Managed
  <2> QED BY <1>2, <1>7, <1>15, <2>1, <2>2, <2>4, <2>5, <2>6 DEF AnswerFor, Knows
<1> QED BY <1>12, <1>13, <1>14, <1>15

-----------------------------------------------------------------------------
LEMMA CalmInit == Init => CalmInv
<1> SUFFICES ASSUME Init PROVE CalmInv
  OBVIOUS
<1>1. code \cap Fresh \subseteq drawn
  BY DEF Init
<1>2. \A t \in Tab : req[t] = Idle
  BY DEF Init
<1>3. Alone
  BY <1>2, IdleKnows DEF Alone, Active
<1> QED BY <1>1, <1>2, <1>3, IdleKnows DEF CalmInv

LEMMA CalmNext == HomesInv /\ CalmInv /\ [Next]_vars => CalmInv'
<1> SUFFICES ASSUME HomesInv, CalmInv, [Next]_vars PROVE CalmInv'
  OBVIOUS
<1>1. CASE UNCHANGED vars
  BY <1>1 DEF vars, CalmInv, Alone, Active, Knows, Shaped, Informed, Answered,
              Beaten, NameOf
<1>2. ASSUME NEW t \in Tab, Begin(t) \/ Step(t) \/ Leave(t) PROVE CalmInv'
  BY <1>2, BeginCalm, LoginCalm, GuardCalm, AgainCalm, LookCalm, ReverseCalm,
     PickCalm, BuildCalm, DirectDeployCalm, ResendCalm, RefusedCalm, LandCalm,
     RecordCalm, LeaveCalm DEF Step
<1> QED BY <1>1, <1>2 DEF Next

\* In a calm world what a request knows of its home is so when it acts.
THEOREM CalmInvariant == Spec => []CalmInv
BY HomesInvariant, HomesInit, HomesNext, CalmInit, CalmNext, PTL DEF Spec

\* While nothing lags, is lost or runs twice for an account, no flow but the
\* two that never look submits an operation the EntryPoint refuses, or claims
\* a second name for an account.
THEOREM NeverDoomed == Spec => []NoDoomedOperation
<1>1. HomesInv /\ CalmInv => NoDoomedOperation
  <2> SUFFICES ASSUME HomesInv, CalmInv, calm, NEW t \in Tab
               PROVE  /\ req[t].refused => req[t].flow = "treasury"
                      /\ req[t].pc = "submit" /\ NameOf(req[t].home) # {}
                           /\ req[t].label # 0
                           => req[t].flow \in {"treasury", "nameAgent"}
    BY DEF NoDoomedOperation
  <2>1. PICK r \in Request : r = req[t] /\ Good(r) /\ Knows(r)
    BY HomesNow DEF CalmInv
  <2>2. Shaped(r) /\ Informed(r) /\ Answered(r)
    BY <2>1 DEF Knows
  <2>3. CASE r.pc = "submit" /\ r.deploy /\ r.flow # "treasury"
    <3>1. r.home \notin code /\ r.home \in Account
      BY <2>1, <2>2, <2>3 DEF Informed, Working, Good
    <3>2. NameOf(r.home) = {}
      BY <3>1 DEF NameOf, HomesInv, NoOrphanName
    <3> QED BY <2>1, <2>2, <3>2 DEF Answered
  <2>4. CASE r.pc = "submit" /\ ~r.deploy
    <3>1. r.flow \in {"wallet", "later"} => NameOf(r.home) = {}
      BY <2>2, <2>4 DEF Informed, Working
    <3>2. r.flow \in Callers /\ (r.flow = "act" => r.label = 0)
      BY <2>1, <2>2, <2>4 DEF Shaped, Good, Working
    <3> QED BY <2>1, <2>2, <3>1, <3>2 DEF Answered, Callers
  <2> QED BY <2>1, <2>2, <2>3, <2>4 DEF Answered
<1> QED BY <1>1, HomesInvariant, CalmInvariant, PTL

\* A wallet that asked for a name and got none lost it to somebody.
THEOREM NamelessWereBeaten == Spec => []NamelessOnlyIfTaken
<1>1. CalmInv => NamelessOnlyIfTaken
  BY DEF CalmInv, Knows, Answered, Beaten, NamelessOnlyIfTaken
<1> QED BY <1>1, CalmInvariant, PTL
=============================================================================
