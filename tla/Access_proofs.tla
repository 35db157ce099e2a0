---------------------------- MODULE Access_proofs ----------------------------
(***************************************************************************)
(* What may be read, and for how long: the entitlements of a person vault  *)
(* and the subscriptions of the corpus, two ledgers that know nothing of   *)
(* each other, proved one after the other for every value of their         *)
(* constants.                                                              *)
(*                                                                         *)
(* Entitlements: nothing is released late.  The argument is in Started and *)
(* Reached: what was in force when a request looked at it was in force     *)
(* since the request began, because a binding, a delegation or an          *)
(* entitlement that comes into force is noted in every active request; and *)
(* what a request has passed, by where it stands.                          *)
(*                                                                         *)
(* SubscriptionLedger: an invariant of its rows that any interleaving of   *)
(* requests keeps, and a second one for requests that take turns.          *)
(***************************************************************************)
EXTENDS Entitlements, SubscriptionLedger, TLAPS

(***************************************************************************)
(*                              Entitlements                               *)
(***************************************************************************)

\* What is in force now was noted as in force since the request began.
Started(t) ==
  InFlight(t) =>
    /\ req[t].said = "nothing"
    /\ bound = "live" => req[t].keyed
    /\ wire \/ req[t].by # Owner => req[t].wired
    /\ Holds(req[t].by) => req[t].granted

\* What a request has passed on its way to where it stands.
Reached(t) ==
  /\ req[t].pc \notin {"verify", "done"} /\ req[t].tool # "mcp" => req[t].wired
  /\ req[t].pc \in {"kas", "audit"} => req[t].by = Owner
  /\ req[t].pc \in {"audit", "read"} => req[t].keyed
  /\ req[t].pc = "resolve" /\ req[t].by # Owner => req[t].keyed
  /\ req[t].pc = "read" /\ req[t].by # Owner => req[t].granted
  /\ req[t].pc = "read" /\ req[t].by = Owner /\ ~failing => t \in audited

\* What an answer of plaintext has behind it.
Backed(t) ==
  req[t].said = "plaintext" =>
    /\ req[t].keyed
    /\ req[t].tool # "mcp" => req[t].wired
    /\ req[t].by # Owner => req[t].granted
    /\ req[t].by = Owner /\ ~failing => t \in audited

Good(t) == Started(t) /\ Reached(t) /\ Backed(t)

\* The inductive invariant.
ReleaseInv == EntitlementsTypeOK /\ \A t \in Slot : Good(t)

USE EntitlementConstants

LEMMA ReleaseInit == EntitlementsInit => ReleaseInv
<1> SUFFICES ASSUME EntitlementsInit PROVE ReleaseInv
  OBVIOUS
<1>1. EntitlementsTypeOK
  <2>1. /\ (CHOOSE m \in Member : TRUE) \in Member
        /\ (CHOOSE i \in Id : TRUE) \in Id
    OBVIOUS
  <2> QED BY <2>1 DEF EntitlementsInit, EntitlementsTypeOK, Request, Tool
<1>2. \A t \in Slot : Good(t)
  BY DEF EntitlementsInit, Good, Started, Reached, Backed, InFlight
<1> QED BY <1>1, <1>2 DEF ReleaseInv

\* A request is not touched by a step of another that leaves what the
\* requests look at alone.
LEMMA OthersStay ==
  ASSUME ReleaseInv, NEW t \in Slot, NEW r, Set(t, r),
         UNCHANGED <<entitlements, bound, wire>>,
         \A u \in Slot \ {t} : u \in audited' <=> u \in audited
  PROVE  \A u \in Slot \ {t} : Good(u)'
<1> SUFFICES ASSUME NEW u \in Slot \ {t} PROVE Good(u)'
  OBVIOUS
<1>1. req'[u] = req[u]
  BY DEF ReleaseInv, EntitlementsTypeOK, Set
<1>2. Holds(req[u].by)' <=> Holds(req[u].by)
  BY <1>1 DEF Holds, InForce, entitlements
<1>3. Good(u)
  BY DEF ReleaseInv
<1> QED BY <1>1, <1>2, <1>3 DEF Good, Started, Reached, Backed, InFlight, entitlements

\* A step of one request that changes nothing but it keeps the invariant
\* when the request it leaves is well typed and good.
LEMMA OwnStep ==
  ASSUME ReleaseInv, NEW t \in Slot, NEW r \in Request, Set(t, r),
         UNCHANGED <<entitlements, bound, wire, begun>>,
         audited' \subseteq Slot,
         \A u \in Slot \ {t} : u \in audited' <=> u \in audited,
         Good(t)'
  PROVE  ReleaseInv'
<1>1. EntitlementsTypeOK'
  BY DEF ReleaseInv, EntitlementsTypeOK, Set, entitlements
<1> QED BY <1>1, OthersStay DEF ReleaseInv

\* While a request moves, what it notes stays as it is.
LEMMA MovesOn ==
  ASSUME ReleaseInv, NEW t \in Slot, InFlight(t), NEW r,
         Set(t, r), UNCHANGED <<entitlements, bound, wire>>,
         \E pc \in {"gate", "write", "resolve", "kas", "audit", "read"} :
           r = [req[t] EXCEPT !.pc = pc]
  PROVE  r \in Request /\ Started(t)'
<1>1. req[t] \in Request /\ req'[t] = r /\ Started(t)
  BY DEF ReleaseInv, EntitlementsTypeOK, Set, Good
<1>2. r \in Request /\ r.by = req[t].by
  BY <1>1 DEF Request
<1>3. Holds(req[t].by)' <=> Holds(req[t].by)
  BY <1>1, <1>2 DEF Holds, InForce, entitlements
<1> QED BY <1>1, <1>2, <1>3 DEF Started, InFlight, Request

\* An answer that is no plaintext is always good.
LEMMA Refusal ==
  ASSUME ReleaseInv, NEW t \in Slot,
         NEW said \in {"ok", "unchanged", "denied"},
         Set(t, Ended(req[t], said)),
         UNCHANGED <<entitlements, bound, wire, audited, begun>>
  PROVE  ReleaseInv'
<1>1. Ended(req[t], said) \in Request /\ req'[t] = Ended(req[t], said)
  BY DEF ReleaseInv, EntitlementsTypeOK, Set, Ended, Request
<1>2. req'[t].pc = "done" /\ req'[t].said = said
  BY <1>1 DEF ReleaseInv, EntitlementsTypeOK, Ended, Request
<1>3. Good(t)'
  BY <1>2 DEF Good, Started, Reached, Backed, InFlight
<1>4. audited' \subseteq Slot
  BY DEF ReleaseInv, EntitlementsTypeOK
<1> QED BY <1>1, <1>3, <1>4, OwnStep

LEMMA BeginKeeps == ASSUME ReleaseInv, NEW t \in Slot, Begin(t) PROVE ReleaseInv'
<1>1. PICK tool \in Tool, id \in Id, m \in Member, by \in Member \cup {Owner} :
        Set(t, New(tool, by, id, m))
  BY DEF Begin
<1> DEFINE r == New(tool, by, id, m)
<1>2. r \in Request /\ r.by = by
  <2>1. Entitled(by) \in BOOLEAN
    BY DEF Entitled
  <2> QED BY <2>1 DEF New, Request, Tool
<1>3. req'[t] = r
  BY <1>1 DEF ReleaseInv, EntitlementsTypeOK, Set
<1>4. UNCHANGED <<entitlements, bound, wire>> /\ audited' = audited \ {t}
      /\ begun' \in 0..MaxBegins
  BY DEF Begin, ReleaseInv, EntitlementsTypeOK
<1>5. Holds(by)' <=> Entitled(by)
  BY <1>4 DEF Holds, InForce, Entitled, entitlements
<1>6. Started(t)' /\ Reached(t)' /\ Backed(t)'
  <2>1. /\ r.by = by /\ r.tool = tool /\ r.said = "nothing"
        /\ r.pc = IF tool = "mcp" THEN "gate" ELSE "verify"
        /\ r.granted = Entitled(by) /\ r.keyed = (bound = "live")
        /\ r.wired = (by # Owner \/ wire)
    BY DEF New
  <2>2. bound' = bound /\ wire' = wire
    BY <1>4
  <2> HIDE DEF r
  <2>3. Started(t)'
    BY <1>3, <1>5, <2>1, <2>2 DEF Started, InFlight
  <2>4. Reached(t)' /\ Backed(t)'
    BY <1>3, <2>1 DEF Reached, Backed
  <2> QED BY <2>3, <2>4
<1>7. EntitlementsTypeOK'
  BY <1>1, <1>2, <1>3, <1>4 DEF ReleaseInv, EntitlementsTypeOK, Set, entitlements
<1>8. \A u \in Slot \ {t} : u \in audited' <=> u \in audited
  BY <1>4
<1>9. \A u \in Slot \ {t} : Good(u)'
  <2> HIDE DEF r
  <2> QED BY <1>1, <1>4, <1>8, OthersStay
<1> QED BY <1>6, <1>7, <1>9 DEF ReleaseInv, Good

LEMMA VerifyKeeps == ASSUME ReleaseInv, NEW t \in Slot, Verify(t) PROVE ReleaseInv'
<1> DEFINE pc == IF req[t].tool \in {"get_entitled_record", "get_org_sensitive"}
                 THEN "gate" ELSE "write"
           r == [req[t] EXCEPT !.pc = pc]
<1>1. CASE (req[t].by = Owner => wire) /\ Set(t, r)
  <2>1. InFlight(t) /\ UNCHANGED <<entitlements, bound, wire, audited, begun>>
    BY DEF Verify, InFlight
  <2>2. r \in Request /\ Started(t)'
    BY <1>1, <2>1, MovesOn
  <2>3. req'[t] = r /\ req[t] \in Request /\ r.pc = pc /\ Started(t)
    BY <1>1 DEF ReleaseInv, EntitlementsTypeOK, Set, Request, Good
  <2>4. Reached(t)' /\ Backed(t)'
    BY <1>1, <2>1, <2>2, <2>3 DEF Reached, Backed, Started, InFlight, Request
  <2>5. audited' \subseteq Slot
    BY <2>1 DEF ReleaseInv, EntitlementsTypeOK
  <2> HIDE DEF r
  <2> QED BY <1>1, <2>1, <2>2, <2>4, <2>5, OwnStep DEF Good
<1>2. CASE Set(t, Ended(req[t], "denied"))
  BY <1>2, Refusal DEF Verify
<1> QED BY <1>1, <1>2 DEF Verify

LEMMA IssueKeeps == ASSUME ReleaseInv, NEW t \in Slot, Issue(t) PROVE ReleaseInv'
<1> DEFINE r == req[t]
           Noted(u) == [req[u] EXCEPT !.granted = @ \/ req[u].by = r.to]
<1>1. r \in Request /\ Ended(r, "ok") \in Request
  BY DEF ReleaseInv, EntitlementsTypeOK, Ended, Request
<1>2. \A u \in Slot : req[u] \in Request
  BY DEF ReleaseInv, EntitlementsTypeOK
<1>3. ASSUME NEW u \in Slot
      PROVE  /\ Noted(u) \in Request
             /\ Noted(u).granted <=> req[u].granted \/ req[u].by = r.to
             /\ Noted(u).pc = req[u].pc /\ Noted(u).by = req[u].by
             /\ Noted(u).said = req[u].said /\ Noted(u).tool = req[u].tool
             /\ Noted(u).keyed = req[u].keyed /\ Noted(u).wired = req[u].wired
  <2>1. (req[u].granted \/ req[u].by = r.to) \in BOOLEAN
    OBVIOUS
  <2> QED BY <1>2, <2>1 DEF Request
<1>4. /\ req' \in [Slot -> Request]
      /\ req'[t] = Ended(r, "ok")
      /\ \A u \in Slot \ {t} : req'[u] = Noted(u)
  BY <1>1, <1>3 DEF Issue
<1>5. EntitlementsTypeOK'
  BY <1>1, <1>4 DEF Issue, ReleaseInv, EntitlementsTypeOK, Request
<1>6. Good(t)'
  BY <1>1, <1>4 DEF Good, Started, Reached, Backed, InFlight, Ended, Request
<1>7. \A m \in Member \cup {Owner} : Holds(m)' => Holds(m) \/ m = r.to
  BY DEF Issue, Holds, InForce, ReleaseInv, EntitlementsTypeOK
<1>8. ASSUME NEW u \in Slot \ {t} PROVE Good(u)'
  <2>1. Good(u) /\ req[u] \in Request /\ UNCHANGED <<bound, wire, audited, failing>>
    BY <1>2 DEF ReleaseInv, Issue
  <2>2. req[u].by \in Member \cup {Owner}
    BY <2>1 DEF Request
  <2> HIDE DEF Noted
  <2>3. Started(u)'
    BY <1>3, <1>4, <1>7, <2>1, <2>2 DEF Good, Started, InFlight
  <2>4. Reached(u)' /\ Backed(u)'
    BY <1>3, <1>4, <2>1 DEF Good, Reached, Backed
  <2> QED BY <2>3, <2>4 DEF Good
<1> QED BY <1>5, <1>6, <1>8 DEF ReleaseInv

LEMMA RevokeKeeps == ASSUME ReleaseInv, NEW t \in Slot, Revoke(t) PROVE ReleaseInv'
<1> DEFINE said == IF status[req[t].id] = "granted" THEN "ok" ELSE "unchanged"
           r == Ended(req[t], said)
<1>1. r \in Request /\ Set(t, r) /\ r.pc = "done" /\ r.said = said
      /\ req[t].id \in Id
  BY DEF Revoke, ReleaseInv, EntitlementsTypeOK, Ended, Request
<1>2. req' = [req EXCEPT ![t] = r] /\ req'[t] = r
  BY <1>1 DEF Set, ReleaseInv, EntitlementsTypeOK
<1>3. EntitlementsTypeOK'
  BY <1>1, <1>2 DEF Revoke, ReleaseInv, EntitlementsTypeOK
<1>4. \A m : Holds(m)' => Holds(m)
  BY <1>1 DEF Revoke, Holds, InForce, ReleaseInv, EntitlementsTypeOK
<1>5. Good(t)'
  BY <1>1, <1>2 DEF Good, Started, Reached, Backed, InFlight
<1>6. ASSUME NEW u \in Slot \ {t} PROVE Good(u)'
  <2>1. req'[u] = req[u] /\ Good(u) /\ UNCHANGED <<bound, wire, audited, failing>>
    BY <1>2 DEF ReleaseInv, EntitlementsTypeOK, Revoke
  <2> QED BY <1>4, <2>1 DEF Good, Started, Reached, Backed, InFlight
<1> QED BY <1>3, <1>5, <1>6 DEF ReleaseInv

LEMMA GateKeeps == ASSUME ReleaseInv, NEW t \in Slot, Gate(t) PROVE ReleaseInv'
<1> DEFINE r == [req[t] EXCEPT !.pc = "resolve"]
<1>1. CASE /\ bound \in {"live"} \cup IF req[t].by = Owner THEN {"expired"} ELSE {}
           /\ Set(t, r)
  <2>1. InFlight(t) /\ UNCHANGED <<entitlements, bound, wire, audited, begun>>
    BY DEF Gate, InFlight
  <2>2. r \in Request /\ Started(t)'
    BY <1>1, <2>1, MovesOn
  <2>3. /\ req'[t] = r /\ req[t] \in Request /\ r.pc = "resolve"
        /\ Started(t) /\ Reached(t)
    BY <1>1 DEF ReleaseInv, EntitlementsTypeOK, Set, Request, Good
  <2>4. Reached(t)' /\ Backed(t)'
    BY <1>1, <2>1, <2>2, <2>3 DEF Reached, Backed, Started, InFlight, Request, Gate
  <2>5. audited' \subseteq Slot
    BY <2>1 DEF ReleaseInv, EntitlementsTypeOK
  <2> HIDE DEF r
  <2> QED BY <1>1, <2>1, <2>2, <2>4, <2>5, OwnStep DEF Good
<1>2. CASE Set(t, Ended(req[t], "denied"))
  BY <1>2, Refusal DEF Gate
<1> QED BY <1>1, <1>2 DEF Gate

LEMMA ResolveKeeps == ASSUME ReleaseInv, NEW t \in Slot, Resolve(t) PROVE ReleaseInv'
<1> DEFINE pc == IF req[t].by = Owner THEN "kas" ELSE "read"
           r == [req[t] EXCEPT !.pc = pc]
<1>1. CASE Set(t, r) /\ (req[t].by = Owner \/ Holds(req[t].by))
  <2>1. InFlight(t) /\ UNCHANGED <<entitlements, bound, wire, audited, begun>>
    BY DEF Resolve, InFlight
  <2>2. r \in Request /\ Started(t)'
    BY <1>1, <2>1, MovesOn
  <2>3. /\ req'[t] = r /\ req[t] \in Request /\ r.pc = pc
        /\ Started(t) /\ Reached(t)
    BY <1>1 DEF ReleaseInv, EntitlementsTypeOK, Set, Request, Good
  <2>4. Reached(t)' /\ Backed(t)'
    BY <1>1, <2>1, <2>2, <2>3
       DEF Reached, Backed, Started, InFlight, Request, Resolve
  <2>5. audited' \subseteq Slot
    BY <2>1 DEF ReleaseInv, EntitlementsTypeOK
  <2> HIDE DEF r
  <2> QED BY <1>1, <2>1, <2>2, <2>4, <2>5, OwnStep DEF Good
<1>2. CASE Set(t, Ended(req[t], "denied"))
  BY <1>2, Refusal DEF Resolve
<1> QED BY <1>1, <1>2 DEF Resolve

LEMMA AuthorizeKeeps ==
  ASSUME ReleaseInv, NEW t \in Slot, Authorize(t) PROVE ReleaseInv'
<1> DEFINE r == [req[t] EXCEPT !.pc = "audit"]
<1>1. CASE bound = "live" /\ Set(t, r)
  <2>1. InFlight(t) /\ UNCHANGED <<entitlements, bound, wire, audited, begun>>
    BY DEF Authorize, InFlight
  <2>2. r \in Request /\ Started(t)'
    BY <1>1, <2>1, MovesOn
  <2>3. /\ req'[t] = r /\ req[t] \in Request /\ r.pc = "audit"
        /\ Started(t) /\ Reached(t)
    BY <1>1 DEF ReleaseInv, EntitlementsTypeOK, Set, Request, Good
  <2>4. Reached(t)' /\ Backed(t)'
    BY <1>1, <2>1, <2>2, <2>3
       DEF Reached, Backed, Started, InFlight, Request, Authorize
  <2>5. audited' \subseteq Slot
    BY <2>1 DEF ReleaseInv, EntitlementsTypeOK
  <2> HIDE DEF r
  <2> QED BY <1>1, <2>1, <2>2, <2>4, <2>5, OwnStep DEF Good
<1>2. CASE Set(t, Ended(req[t], "denied"))
  BY <1>2, Refusal DEF Authorize
<1> QED BY <1>1, <1>2 DEF Authorize

LEMMA AuditKeeps == ASSUME ReleaseInv, NEW t \in Slot, Audit(t) PROVE ReleaseInv'
<1> DEFINE r == [req[t] EXCEPT !.pc = "read"]
<1>1. /\ InFlight(t) /\ Set(t, r) /\ UNCHANGED <<entitlements, bound, wire, begun>>
      /\ req[t].pc = "audit" /\ (t \in audited' \/ failing)
      /\ \A u \in Slot \ {t} : u \in audited' <=> u \in audited
      /\ audited' \subseteq Slot
  BY DEF Audit, InFlight, ReleaseInv, EntitlementsTypeOK
<1>2. r \in Request /\ Started(t)'
  BY <1>1, MovesOn
<1>3. /\ req'[t] = r /\ req[t] \in Request /\ r.pc = "read"
      /\ Started(t) /\ Reached(t)
  BY <1>1 DEF ReleaseInv, EntitlementsTypeOK, Set, Request, Good
<1>4. Reached(t)' /\ Backed(t)'
  BY <1>1, <1>2, <1>3 DEF Reached, Backed, Started, InFlight, Request, entitlements
<1> HIDE DEF r
<1> QED BY <1>1, <1>2, <1>4, OwnStep DEF Good

LEMMA ReadKeeps == ASSUME ReleaseInv, NEW t \in Slot, Read(t) PROVE ReleaseInv'
<1> DEFINE r == Ended(req[t], "plaintext")
<1>1. CASE Set(t, r)
  <2>1. UNCHANGED <<entitlements, bound, wire, audited, begun>> /\ req[t].pc = "read"
    BY DEF Read
  <2>2. /\ r \in Request /\ req'[t] = r /\ req[t] \in Request
        /\ r.pc = "done" /\ r.by = req[t].by /\ r.tool = req[t].tool
        /\ r.keyed = req[t].keyed /\ r.wired = req[t].wired
        /\ r.granted = req[t].granted
    BY <1>1 DEF ReleaseInv, EntitlementsTypeOK, Set, Request, Ended
  <2>3. Reached(t) /\ audited' \subseteq Slot
    BY <2>1 DEF ReleaseInv, Good, EntitlementsTypeOK
  <2>4. Good(t)'
    BY <2>1, <2>2, <2>3 DEF Good, Reached, Backed, Started, InFlight, entitlements
  <2> HIDE DEF r
  <2> QED BY <1>1, <2>1, <2>2, <2>3, <2>4, OwnStep
<1>2. CASE Set(t, Ended(req[t], "denied"))
  BY <1>2, Refusal DEF Read
<1> QED BY <1>1, <1>2 DEF Read

LEMMA WorldKeeps ==
  ASSUME ReleaseInv, Expire \/ Withdraw \/ RunOut PROVE ReleaseInv'
<1>1. EntitlementsTypeOK'
  BY DEF ReleaseInv, EntitlementsTypeOK, Expire, Withdraw, RunOut, entitlements
<1>2. /\ UNCHANGED <<req, audited, failing>>
      /\ wire' \in {wire, FALSE} /\ bound' \in {bound, "expired"}
  BY DEF Expire, Withdraw, RunOut, entitlements
<1>3. \A m : Holds(m)' => Holds(m)
  BY DEF Expire, Withdraw, RunOut, Holds, InForce, entitlements
<1>4. ASSUME NEW t \in Slot PROVE Good(t)'
  <2>1. Good(t) /\ (Holds(req[t].by)' => Holds(req[t].by))
    BY <1>2, <1>3 DEF ReleaseInv
  <2>2. Started(t)'
    <3>1. req'[t] = req[t] /\ wire \in BOOLEAN
      BY <1>2 DEF ReleaseInv, EntitlementsTypeOK
    <3>2. (Holds(req[t].by))' => Holds(req[t].by)
      BY <2>1
    <3>3. InFlight(t)' => req[t].said = "nothing" /\ InFlight(t)
      BY <2>1, <3>1 DEF Good, Started, InFlight
    <3>4. InFlight(t)' => (bound' = "live" => req[t].keyed)
      BY <1>2, <2>1, <3>1 DEF Good, Started, InFlight
    <3>5. InFlight(t)' => (wire' \/ req[t].by # Owner => req[t].wired)
      BY <1>2, <2>1, <3>1 DEF Good, Started, InFlight
    <3>6. InFlight(t)' => (Holds(req[t].by)' => req[t].granted)
      BY <2>1, <3>1, <3>2, <3>3 DEF Good, Started
    <3> QED BY <1>2, <3>3, <3>4, <3>5, <3>6 DEF Started
  <2>3. Reached(t)' /\ Backed(t)'
    BY <1>2, <2>1 DEF Good, Reached, Backed
  <2> QED BY <2>2, <2>3 DEF Good
<1> QED BY <1>1, <1>4 DEF ReleaseInv

LEMMA BindKeeps == ASSUME ReleaseInv, Bind PROVE ReleaseInv'
<1> DEFINE r(u) == [req[u] EXCEPT !.keyed = TRUE]
<1>1. ASSUME NEW u \in Slot
      PROVE  /\ r(u) \in Request /\ req'[u] = r(u) /\ r(u).keyed
             /\ r(u).pc = req[u].pc /\ r(u).by = req[u].by
             /\ r(u).said = req[u].said /\ r(u).tool = req[u].tool
             /\ r(u).granted = req[u].granted /\ r(u).wired = req[u].wired
  BY DEF Bind, ReleaseInv, EntitlementsTypeOK, Request
<1>2. EntitlementsTypeOK'
  BY <1>1 DEF Bind, ReleaseInv, EntitlementsTypeOK, entitlements
<1>3. \A m : Holds(m)' <=> Holds(m)
  BY DEF Bind, Holds, InForce, entitlements
<1> HIDE DEF r
<1>4. ASSUME NEW u \in Slot PROVE Good(u)'
  <2>1. Good(u) /\ UNCHANGED <<entitlements, wire, audited>>
    BY DEF ReleaseInv, Bind
  <2> QED BY <1>1, <1>3, <2>1
          DEF Good, Started, Reached, Backed, InFlight, entitlements
<1> QED BY <1>2, <1>4 DEF ReleaseInv

LEMMA ReleaseNext == ReleaseInv /\ [EntitlementsNext]_entitlementsVars => ReleaseInv'
<1> SUFFICES ASSUME ReleaseInv, [EntitlementsNext]_entitlementsVars PROVE ReleaseInv'
  OBVIOUS
<1>1. CASE \E t \in Slot : \/ Begin(t) \/ Verify(t) \/ Issue(t) \/ Revoke(t)
                           \/ Gate(t) \/ Resolve(t) \/ Authorize(t) \/ Audit(t)
                           \/ Read(t)
  BY <1>1, BeginKeeps, VerifyKeeps, IssueKeeps, RevokeKeeps, GateKeeps,
     ResolveKeeps, AuthorizeKeeps, AuditKeeps, ReadKeeps
<1>2. CASE Expire \/ Withdraw \/ RunOut
  BY <1>2, WorldKeeps
<1>3. CASE Bind
  BY <1>3, BindKeeps
<1>4. CASE UNCHANGED entitlementsVars
  BY <1>4 DEF entitlementsVars, ReleaseInv, EntitlementsTypeOK, Good, Started,
              Reached, Backed, InFlight,
              Holds, InForce
<1> QED BY <1>1, <1>2, <1>3, <1>4 DEF EntitlementsNext

\* The inductive invariant holds in every state.
THEOREM ReleaseInvariant == EntitlementsSpec => []ReleaseInv
BY ReleaseInit, ReleaseNext, PTL DEF EntitlementsSpec

\* Every variable keeps its shape, for any members, ids and slots.
THEOREM EntitlementsTypeCorrect == EntitlementsSpec => []EntitlementsTypeOK
<1>1. ReleaseInv => EntitlementsTypeOK
  BY DEF ReleaseInv
<1> QED BY <1>1, ReleaseInvariant, PTL

\* No plaintext is released on a binding, a delegation or an entitlement that
\* was withdrawn before the request began (readSensitive, readEntitledRecord).
THEOREM ReleasesAreCurrent == EntitlementsSpec => []NothingReleasedLate
<1>1. ReleaseInv => NothingReleasedLate
  BY DEF ReleaseInv, NothingReleasedLate, Good, Backed
<1> QED BY <1>1, ReleaseInvariant, PTL

(***************************************************************************)
(*                           SubscriptionLedger                            *)
(***************************************************************************)

USE SubscriptionConstants DEF SubId, Rows

LEMMA AbsentIsNoRow == Absent \notin Row
BY DEF Absent, Row

\* Billing one more period adds exactly one period of time.
LEMMA OneMorePeriod ==
  \A n \in Nat : /\ n * Period \in Nat
                 /\ (n + 1) * Period = n * Period + Period
                 /\ n + 1 \in Nat /\ 1 * Period = Period
OBVIOUS

\* The part of the invariant that speaks of a row alone.
RowGood(s, n, g, t) ==
  /\ s.current_period_end = s.current_period_start + Period
  /\ s.created_at + s.periods_charged * Period <= s.current_period_end
  /\ s.current_period_end <= t + s.periods_charged * Period
  /\ s.periods_charged <= 1 + n
  /\ s.period_uses <= s.reads_per_period
  /\ s.period_uses <= g

LEMMA RowsGood ==
  WindowsAccounted /\ NeverOverbilled /\ MeterWithinCap
    <=> \A i \in Rows : RowGood(subs[i], renewals[i], granted[i], now)
BY DEF WindowsAccounted, NeverOverbilled, MeterWithinCap, RowGood

LEMMA LedgerInit == Init => LedgerInv
<1> SUFFICES ASSUME Init PROVE LedgerInv
  OBVIOUS
<1>1. TypeOK
  BY AbsentIsNoRow DEF Init, TypeOK, Idle
<1>2. SelectionsHold /\ WindowsAccounted /\ NeverOverbilled /\ MeterWithinCap
  BY DEF Init, SelectionsHold, RecordsHold, RenewalsHold, ReadsHold,
         WindowsAccounted, NeverOverbilled,
         MeterWithinCap, Idle
<1> QED BY <1>1, <1>2 DEF LedgerInv

\* What canceling leaves alone.
LEMMA CanceledRows ==
  ASSUME TypeOK, NEW a \in Account
  PROVE  /\ Canceled(a) \in [SubId -> Row \cup {Absent}]
         /\ \A i \in SubId : /\ i \in Rows <=> Canceled(a)[i] \in Row
                             /\ i \notin Rows => Canceled(a)[i] = subs[i]
         /\ \A i \in Rows :
              /\ Canceled(a)[i].acct = subs[i].acct
              /\ Canceled(a)[i].reads_per_period = subs[i].reads_per_period
              /\ Canceled(a)[i].period_uses = subs[i].period_uses
              /\ Canceled(a)[i].periods_charged = subs[i].periods_charged
              /\ Canceled(a)[i].current_period_start
                   = subs[i].current_period_start
              /\ Canceled(a)[i].current_period_end = subs[i].current_period_end
              /\ Canceled(a)[i].created_at = subs[i].created_at
              /\ subs[i].status = "canceled" => Canceled(a)[i].status = "canceled"
<1>1. ASSUME NEW i \in Rows
      PROVE  /\ i \in SubId /\ subs[i] \in Row
             /\ [subs[i] EXCEPT !.status = "canceled"] \in Row
  <2>1. i \in SubId /\ subs[i] \in Row
    BY DEF TypeOK
  <2>2. [subs[i] EXCEPT !.status = "canceled"] \in Row
    BY <2>1 DEF Row
  <2> QED BY <2>1, <2>2
<1>2. Active(a) \subseteq Rows
  BY DEF Active
<1>3. \A i \in SubId : Canceled(a)[i] = IF i \in Active(a)
                                         THEN [subs[i] EXCEPT !.status = "canceled"]
                                         ELSE subs[i]
  BY DEF Canceled
<1>4. \A i \in SubId : /\ i \in Rows <=> Canceled(a)[i] \in Row
                       /\ i \notin Rows => Canceled(a)[i] = subs[i]
  BY <1>1, <1>2, <1>3 DEF TypeOK
<1>5. Canceled(a) \in [SubId -> Row \cup {Absent}]
  BY <1>1, <1>2 DEF TypeOK, Canceled
<1>6. ASSUME NEW i \in Rows
      PROVE  /\ Canceled(a)[i].acct = subs[i].acct
             /\ Canceled(a)[i].reads_per_period = subs[i].reads_per_period
             /\ Canceled(a)[i].period_uses = subs[i].period_uses
             /\ Canceled(a)[i].periods_charged = subs[i].periods_charged
             /\ Canceled(a)[i].current_period_start
                  = subs[i].current_period_start
             /\ Canceled(a)[i].current_period_end = subs[i].current_period_end
             /\ Canceled(a)[i].created_at = subs[i].created_at
             /\ subs[i].status = "canceled" => Canceled(a)[i].status = "canceled"
  BY <1>1, <1>3, <1>6 DEF Row
<1> QED BY <1>4, <1>5, <1>6

\* Canceling rows takes no basis away from a request in flight and leaves every
\* count and window as it was.
LEMMA CanceledHarmless ==
  ASSUME LedgerInv, NEW a \in Account, subs' = Canceled(a),
         UNCHANGED <<now, nSubs, renewer, reader, renewals, granted, alone>>
  PROVE  /\ RenewalsHold' /\ ReadsHold'
         /\ WindowsAccounted' /\ NeverOverbilled' /\ MeterWithinCap'
         /\ subs' \in [SubId -> Row \cup {Absent}]
         /\ \A i \in SubId : i \in Rows' <=> subs'[i] \in Row
<1>1. TypeOK
  BY DEF LedgerInv
<1>2. RenewalsHold'
  BY <1>1, CanceledRows DEF LedgerInv, SelectionsHold, RenewalsHold
<1>3. ReadsHold'
  BY <1>1, CanceledRows DEF LedgerInv, SelectionsHold, ReadsHold
<1>4. WindowsAccounted' /\ NeverOverbilled' /\ MeterWithinCap'
  BY <1>1, CanceledRows
     DEF LedgerInv, WindowsAccounted, NeverOverbilled, MeterWithinCap
<1> QED BY <1>1, <1>2, <1>3, <1>4, CanceledRows

LEMMA SupersedeStep ==
  ASSUME LedgerInv, NEW w \in Recorder, NEW a \in Account,
         NEW cap \in 1..MaxCap, RecordSupersede(w, a, cap)
  PROVE  LedgerInv'
<1> DEFINE request == [pc |-> "insert", acct |-> a, cap |-> cap, at |-> now]
<1>1. /\ subs' = Canceled(a)
      /\ recorder' = [recorder EXCEPT ![w] = request]
      /\ UNCHANGED <<now, nSubs, renewer, reader, renewals, granted, inPeriod,
                     started, alone>>
  BY DEF RecordSupersede, history
<1>2. TypeOK
  BY DEF LedgerInv
<1>3. request \in RecordRequest /\ request.at = now /\ now \in Nat
  BY <1>2 DEF RecordRequest, TypeOK
<1> HIDE DEF request
<1>4. recorder' \in [Recorder -> RecordRequest \cup {Idle}]
  BY <1>1, <1>2, <1>3 DEF TypeOK
<1>5. TypeOK'
  BY <1>1, <1>2, <1>4, CanceledHarmless DEF TypeOK
<1>6. RecordsHold'
  <2> SUFFICES ASSUME NEW q \in Recorder, recorder'[q].pc = "insert"
               PROVE  recorder'[q].at <= now
    BY <1>1 DEF RecordsHold
  <2>1. CASE q = w
    BY <1>1, <1>2, <1>3, <2>1 DEF TypeOK
  <2>2. CASE q # w
    BY <1>1, <1>2, <2>2 DEF TypeOK, LedgerInv, SelectionsHold, RecordsHold
  <2> QED BY <2>1, <2>2
<1> QED BY <1>1, <1>5, <1>6, CanceledHarmless DEF LedgerInv, SelectionsHold

LEMMA CancelStep ==
  ASSUME LedgerInv, NEW a \in Account, Cancel(a)
  PROVE  LedgerInv'
<1>1. /\ subs' = Canceled(a)
      /\ UNCHANGED <<now, nSubs, recorder, renewer, reader, renewals, granted,
                     inPeriod, started, alone>>
  BY DEF Cancel, slots, history
<1>2. TypeOK
  BY DEF LedgerInv
<1>3. TypeOK'
  BY <1>1, <1>2, CanceledHarmless DEF TypeOK
<1>4. RecordsHold'
  BY <1>1 DEF LedgerInv, SelectionsHold, RecordsHold
<1> QED BY <1>1, <1>3, <1>4, CanceledHarmless DEF LedgerInv, SelectionsHold

LEMMA InsertStep ==
  ASSUME LedgerInv, NEW w \in Recorder, RecordInsert(w)
  PROVE  LedgerInv'
<1> DEFINE n == nSubs + 1
           new == [acct |-> recorder[w].acct,
                   reads_per_period |-> recorder[w].cap, period_uses |-> 0,
                   periods_charged |-> 1,
                   current_period_start |-> recorder[w].at,
                   current_period_end |-> recorder[w].at + Period,
                   status |-> "active", created_at |-> recorder[w].at]
<1>1. /\ recorder[w].pc = "insert" /\ nSubs < MaxSubs /\ nSubs' = n
      /\ subs' = [subs EXCEPT ![n] = new]
      /\ recorder' = [recorder EXCEPT ![w] = Idle]
      /\ UNCHANGED <<now, renewer, reader, renewals, granted, inPeriod,
                     started, alone>>
  BY DEF RecordInsert, history
<1>2. TypeOK
  BY DEF LedgerInv
<1>3. recorder[w] \in RecordRequest /\ recorder[w].at <= now /\ now \in Nat
  BY <1>1, <1>2 DEF TypeOK, Idle, LedgerInv, SelectionsHold, RecordsHold
<1>4. new \in Row
  BY <1>3 DEF RecordRequest, Row
<1>5. /\ n \in SubId /\ n \notin Rows /\ Rows' = Rows \cup {n}
      /\ subs'[n] = new
      /\ \A i \in SubId : i # n => subs'[i] = subs[i]
  BY <1>1, <1>2 DEF TypeOK
<1>6. RowGood(new, renewals[n], granted[n], now)
  <2>1. recorder[w].at \in Nat /\ recorder[w].cap \in 1..MaxCap
    BY <1>3 DEF RecordRequest
  <2>2. renewals[n] \in Nat /\ granted[n] \in Nat
    BY <1>2, <1>5 DEF TypeOK
  <2>3. /\ new.current_period_end = recorder[w].at + Period
        /\ new.current_period_start = recorder[w].at
        /\ new.created_at = recorder[w].at /\ new.periods_charged = 1
        /\ new.period_uses = 0 /\ new.reads_per_period = recorder[w].cap
    OBVIOUS
  <2> HIDE DEF new
  <2>4. 1 * Period = Period
    OBVIOUS
  <2>5. /\ new.created_at + new.periods_charged * Period
             <= new.current_period_end
        /\ new.current_period_end <= now + new.periods_charged * Period
    BY <1>3, <2>1, <2>3, <2>4
  <2> QED BY <2>1, <2>2, <2>3, <2>5 DEF RowGood
<1> HIDE DEF n, new
<1>7. subs' \in [SubId -> Row \cup {Absent}]
  BY <1>1, <1>2, <1>4, <1>5 DEF TypeOK
<1>8. \A i \in SubId : i \in Rows' <=> subs'[i] \in Row
  BY <1>2, <1>4, <1>5 DEF TypeOK
<1>9. TypeOK'
  <2>1. nSubs' \in 0..MaxSubs
    BY <1>1, <1>2 DEF TypeOK, n
  <2>2. recorder' \in [Recorder -> RecordRequest \cup {Idle}]
    BY <1>1, <1>2 DEF TypeOK
  <2> QED BY <1>1, <1>2, <1>7, <1>8, <2>1, <2>2 DEF TypeOK
<1>10. RecordsHold'
  BY <1>1, <1>2 DEF LedgerInv, SelectionsHold, RecordsHold, TypeOK, Idle
<1>11. Rows \subseteq SubId
  BY <1>2 DEF TypeOK
<1>12. RenewalsHold'
  BY <1>1, <1>5, <1>11 DEF LedgerInv, SelectionsHold, RenewalsHold
<1>13. ReadsHold'
  BY <1>1, <1>5, <1>11 DEF LedgerInv, SelectionsHold, ReadsHold
<1>14. \A i \in Rows' : RowGood(subs'[i], renewals'[i], granted'[i], now')
  BY <1>1, <1>5, <1>6, <1>11, RowsGood DEF LedgerInv
<1>15. WindowsAccounted' /\ NeverOverbilled' /\ MeterWithinCap'
  BY <1>14 DEF RowGood, WindowsAccounted, NeverOverbilled, MeterWithinCap
<1> QED BY <1>9, <1>10, <1>12, <1>13, <1>15 DEF LedgerInv, SelectionsHold

\* What a row records when a request selects it.
LEMMA SelectedRow ==
  ASSUME LedgerInv, NEW i \in Rows
  PROVE  /\ i \in SubId /\ subs[i] \in Row /\ now \in Nat
         /\ renewals[i] \in Nat /\ granted[i] \in Nat
         /\ RowGood(subs[i], renewals[i], granted[i], now)
<1>1. TypeOK
  BY DEF LedgerInv
<1>2. i \in SubId /\ subs[i] \in Row /\ now \in Nat
  BY <1>1 DEF TypeOK
<1>3. renewals[i] \in Nat /\ granted[i] \in Nat
  BY <1>1, <1>2 DEF TypeOK
<1> QED BY <1>2, <1>3, RowsGood DEF LedgerInv

LEMMA RenewSelectStep ==
  ASSUME LedgerInv, NEW w \in Renewer, NEW a \in Account, RenewSelect(w, a)
  PROVE  LedgerInv'
<1>1. /\ started' = [started EXCEPT !.renew = @ + 1]
      /\ UNCHANGED <<now, subs, nSubs, recorder, reader, renewals, granted,
                     inPeriod, alone>>
  BY DEF RenewSelect, ledger
<1>2. PICK i \in Rows :
        renewer' = [renewer EXCEPT ![w] =
                      [pc |-> "update", id |-> i,
                       ends |-> subs[i].current_period_end,
                       charged |-> subs[i].periods_charged, at |-> now]]
  BY DEF RenewSelect
<1> DEFINE request == [pc |-> "update", id |-> i,
                       ends |-> subs[i].current_period_end,
                       charged |-> subs[i].periods_charged, at |-> now]
<1>3. TypeOK
  BY DEF LedgerInv
<1>4. /\ i \in SubId /\ subs[i] \in Row /\ now \in Nat
      /\ RowGood(subs[i], renewals[i], granted[i], now)
  BY SelectedRow
<1>5. request \in RenewRequest
  BY <1>4 DEF Row, RenewRequest
<1>6. /\ request.id = i /\ request.at = now
      /\ subs[i].created_at + request.charged * Period <= request.ends
      /\ request.ends <= request.at + request.charged * Period
      /\ request.charged <= 1 + renewals[i]
  BY <1>4 DEF RowGood
<1>7. now <= now
  BY <1>4
<1>8. renewer' = [renewer EXCEPT ![w] = request]
  BY <1>2
<1> HIDE DEF request
<1>9. TypeOK'
  <2>1. renewer' \in [Renewer -> RenewRequest \cup {Idle}]
    BY <1>3, <1>5, <1>8 DEF TypeOK
  <2>2. started' \in [renew : Nat, read : Nat]
    <3>1. started \in [renew : Nat, read : Nat]
      BY <1>3 DEF TypeOK
    <3> QED BY <1>1, <3>1
  <2> QED BY <1>1, <1>3, <2>1, <2>2 DEF TypeOK
<1>10. RenewalsHold'
  <2> SUFFICES ASSUME NEW q \in Renewer, renewer'[q].pc = "update"
               PROVE  LET j == renewer'[q].id IN
                      /\ j \in Rows /\ renewer'[q].at <= now
                      /\ subs[j].created_at + renewer'[q].charged * Period
                           <= renewer'[q].ends
                      /\ renewer'[q].ends
                           <= renewer'[q].at + renewer'[q].charged * Period
                      /\ renewer'[q].charged <= 1 + renewals[j]
    BY <1>1 DEF RenewalsHold
  <2>1. CASE q = w
    <3>1. renewer'[q] = request
      BY <1>3, <1>8, <2>1 DEF TypeOK
    <3> QED BY <1>2, <1>6, <1>7, <3>1
  <2>2. CASE q # w
    <3>1. renewer'[q] = renewer[q]
      BY <1>3, <1>8, <2>2 DEF TypeOK
    <3> QED BY <3>1 DEF LedgerInv, SelectionsHold, RenewalsHold
  <2> QED BY <2>1, <2>2
<1>11. /\ RecordsHold' /\ ReadsHold'
       /\ WindowsAccounted' /\ NeverOverbilled' /\ MeterWithinCap'
  BY <1>1 DEF LedgerInv, SelectionsHold, RecordsHold, ReadsHold,
              WindowsAccounted, NeverOverbilled, MeterWithinCap
<1> QED BY <1>9, <1>10, <1>11 DEF LedgerInv, SelectionsHold

LEMMA ReadSelectStep ==
  ASSUME LedgerInv, NEW r \in Reader, NEW a \in Account, ReadSelect(r, a)
  PROVE  LedgerInv'
<1>1. /\ started' = [started EXCEPT !.read = @ + 1]
      /\ UNCHANGED <<now, subs, nSubs, recorder, renewer, renewals, granted,
                     inPeriod, alone>>
  BY DEF ReadSelect, ledger
<1>2. PICK i \in Rows :
        /\ Grants(i)
        /\ reader' = [reader EXCEPT ![r] =
                        [pc |-> "update", id |-> i,
                         used |-> subs[i].period_uses]]
  BY DEF ReadSelect
<1> DEFINE request == [pc |-> "update", id |-> i, used |-> subs[i].period_uses]
<1>3. TypeOK
  BY DEF LedgerInv
<1>4. /\ i \in SubId /\ subs[i] \in Row
      /\ RowGood(subs[i], renewals[i], granted[i], now)
  BY SelectedRow
<1>5. request \in ReadRequest
  BY <1>4 DEF Row, ReadRequest
<1>6. /\ request.id = i
      /\ request.used < subs[i].reads_per_period
      /\ request.used <= granted[i]
  BY <1>2, <1>4 DEF RowGood, Grants
<1>7. reader' = [reader EXCEPT ![r] = request]
  BY <1>2
<1> HIDE DEF request
<1>8. TypeOK'
  <2>1. reader' \in [Reader -> ReadRequest \cup {Idle}]
    BY <1>3, <1>5, <1>7 DEF TypeOK
  <2>2. started' \in [renew : Nat, read : Nat]
    <3>1. started \in [renew : Nat, read : Nat]
      BY <1>3 DEF TypeOK
    <3> QED BY <1>1, <3>1
  <2> QED BY <1>1, <1>3, <2>1, <2>2 DEF TypeOK
<1>9. ReadsHold'
  <2> SUFFICES ASSUME NEW q \in Reader, reader'[q].pc = "update"
               PROVE  LET j == reader'[q].id IN
                      /\ j \in Rows
                      /\ reader'[q].used < subs[j].reads_per_period
                      /\ reader'[q].used <= granted[j]
    BY <1>1 DEF ReadsHold
  <2>1. CASE q = r
    <3>1. reader'[q] = request
      BY <1>3, <1>7, <2>1 DEF TypeOK
    <3> QED BY <1>2, <1>6, <3>1
  <2>2. CASE q # r
    <3>1. reader'[q] = reader[q]
      BY <1>3, <1>7, <2>2 DEF TypeOK
    <3> QED BY <3>1 DEF LedgerInv, SelectionsHold, ReadsHold
  <2> QED BY <2>1, <2>2
<1>10. /\ RecordsHold' /\ RenewalsHold'
       /\ WindowsAccounted' /\ NeverOverbilled' /\ MeterWithinCap'
  BY <1>1 DEF LedgerInv, SelectionsHold, RecordsHold, RenewalsHold,
              WindowsAccounted, NeverOverbilled, MeterWithinCap
<1> QED BY <1>8, <1>9, <1>10 DEF LedgerInv, SelectionsHold

\* The UPDATE of a renewal: one more period, starting where the selected one
\* ended or when the worker read its clock, whichever is later.
LEMMA RenewedRow ==
  ASSUME NEW created \in Nat, NEW charged \in Nat, NEW ends \in Nat,
         NEW at \in Nat, NEW t \in Nat, NEW clock \in Nat,
         created + charged * Period <= ends,
         ends <= at + charged * Period,
         at <= t, t <= clock
  PROVE  LET base == Later(ends, t)
         IN /\ base \in Nat
            /\ created + (charged + 1) * Period <= base + Period
            /\ base + Period <= clock + (charged + 1) * Period
<1> DEFINE past == charged * Period
<1>1. past \in Nat /\ (charged + 1) * Period = past + Period
  BY OneMorePeriod
<1> HIDE DEF past
<1>2. created + past <= ends /\ ends <= at + past
  BY DEF past
<1>3. /\ Later(ends, t) \in Nat /\ created + past <= Later(ends, t)
      /\ Later(ends, t) <= clock + past
  BY <1>1, <1>2 DEF Later
<1> QED BY <1>1, <1>3

LEMMA RenewUpdateStep ==
  ASSUME LedgerInv, NEW w \in Renewer, RenewUpdate(w)
  PROVE  LedgerInv'
<1> DEFINE i == renewer[w].id
           c == renewer[w].charged
<1>1. /\ renewer[w].pc = "update"
      /\ renewer' = [renewer EXCEPT ![w] = Idle]
      /\ renewals' = [renewals EXCEPT ![i] = @ + 1]
      /\ inPeriod' = [inPeriod EXCEPT ![i] = 0]
      /\ UNCHANGED <<now, nSubs, recorder, reader, granted, started, alone>>
  BY DEF RenewUpdate, Billed
<1>2. PICK t \in renewer[w].at..now :
        subs' = [subs EXCEPT
                   ![i].periods_charged = c + 1,
                   ![i].current_period_start = Later(renewer[w].ends, t),
                   ![i].current_period_end = Later(renewer[w].ends, t) + Period,
                   ![i].period_uses = 0]
  BY DEF RenewUpdate, Billed
<1> DEFINE base == Later(renewer[w].ends, t)
           new == [subs[i] EXCEPT !.periods_charged = c + 1,
                                  !.current_period_start = base,
                                  !.current_period_end = base + Period,
                                  !.period_uses = 0]
<1>3. TypeOK
  BY DEF LedgerInv
<1>4. /\ renewer[w] \in RenewRequest /\ i \in Rows /\ renewer[w].at <= now
      /\ subs[i].created_at + c * Period <= renewer[w].ends
      /\ renewer[w].ends <= renewer[w].at + c * Period
      /\ c <= 1 + renewals[i]
  BY <1>1, <1>3 DEF TypeOK, Idle, LedgerInv, SelectionsHold, RenewalsHold
<1>5. /\ i \in SubId /\ subs[i] \in Row /\ now \in Nat
      /\ renewals[i] \in Nat /\ granted[i] \in Nat
      /\ RowGood(subs[i], renewals[i], granted[i], now)
  BY <1>4, SelectedRow
<1>6. /\ c \in Nat /\ renewer[w].ends \in Nat /\ renewer[w].at \in Nat
      /\ t \in Nat /\ renewer[w].at <= t /\ t <= now
  BY <1>2, <1>4, <1>5 DEF RenewRequest
<1>7. subs[i].created_at \in Nat
  BY <1>5 DEF Row
<1>8. /\ base \in Nat
      /\ subs[i].created_at + (c + 1) * Period <= base + Period
      /\ base + Period <= now + (c + 1) * Period
  BY <1>4, <1>5, <1>6, <1>7, RenewedRow
<1>9. /\ subs'[i] = new
      /\ \A j \in SubId : j # i => subs'[j] = subs[j]
  BY <1>2, <1>3, <1>5 DEF TypeOK
<1>10. /\ renewals'[i] = renewals[i] + 1
       /\ \A j \in SubId : j # i => renewals'[j] = renewals[j]
  BY <1>1, <1>3, <1>5 DEF TypeOK
<1> HIDE DEF i, c, base
<1>11. base + Period \in Nat /\ c + 1 \in Nat
  BY <1>6, <1>8
<1>12. /\ new.acct = subs[i].acct /\ new.status = subs[i].status
       /\ new.reads_per_period = subs[i].reads_per_period
       /\ new.created_at = subs[i].created_at
       /\ new.periods_charged = c + 1 /\ new.period_uses = 0
       /\ new.current_period_start = base
       /\ new.current_period_end = base + Period
  BY <1>5 DEF Row
<1>13. new \in Row
  <2> HIDE DEF Rows, SubId
  <2>1. [subs[i] EXCEPT !.periods_charged = c + 1] \in Row
    BY <1>5, <1>11 DEF Row
  <2>2. ASSUME NEW s \in Row, NEW from \in Nat, NEW to \in Nat
        PROVE  [s EXCEPT !.current_period_start = from,
                         !.current_period_end = to] \in Row
    BY DEF Row
  <2>3. ASSUME NEW s \in Row
        PROVE  [s EXCEPT !.period_uses = 0] \in Row
    BY DEF Row
  <2>4. new = [[[subs[i] EXCEPT !.periods_charged = c + 1]
                  EXCEPT !.current_period_start = base,
                         !.current_period_end = base + Period]
                  EXCEPT !.period_uses = 0]
    BY <1>5 DEF Row
  <2> QED BY <1>8, <1>11, <2>1, <2>2, <2>3, <2>4
<1> HIDE DEF new
<1>14. RowGood(new, renewals'[i], granted[i], now)
  <2>1. new.reads_per_period \in 1..MaxCap
    BY <1>13 DEF Row
  <2>2. new.periods_charged <= 1 + renewals'[i]
    BY <1>4, <1>5, <1>6, <1>10, <1>12 DEF c, i
  <2> QED BY <1>5, <1>8, <1>12, <2>1, <2>2 DEF RowGood
<1>15. TypeOK'
  <2>1. subs' \in [SubId -> Row \cup {Absent}]
    <3>1. DOMAIN subs' = SubId /\ subs' = [j \in SubId |-> subs'[j]]
      BY <1>2, <1>3 DEF TypeOK
    <3>2. \A j \in SubId : subs'[j] \in Row \cup {Absent}
      BY <1>3, <1>9, <1>13 DEF TypeOK
    <3> QED BY <3>1, <3>2
  <2>2. \A j \in SubId : j \in Rows' <=> subs'[j] \in Row
    BY <1>1, <1>3, <1>4, <1>9, <1>13 DEF TypeOK, i
  <2>3. renewer' \in [Renewer -> RenewRequest \cup {Idle}]
    BY <1>1, <1>3 DEF TypeOK
  <2>4. renewals' \in [SubId -> Nat]
    <3>1. renewals \in [SubId -> Nat]
      BY <1>3 DEF TypeOK
    <3> QED BY <1>1, <1>5, <3>1
  <2>5. inPeriod' \in [SubId -> Nat]
    BY <1>1, <1>3 DEF TypeOK
  <2> QED BY <1>1, <1>3, <2>1, <2>2, <2>3, <2>4, <2>5 DEF TypeOK
<1>16. Rows \subseteq SubId
  BY <1>3 DEF TypeOK
<1>17. \A j \in Rows : /\ subs'[j].created_at = subs[j].created_at
                       /\ subs'[j].reads_per_period = subs[j].reads_per_period
  BY <1>9, <1>12, <1>16
<1>18. \A j \in Rows : RowGood(subs'[j], renewals'[j], granted'[j], now')
  BY <1>1, <1>9, <1>10, <1>14, <1>16, RowsGood DEF LedgerInv
<1>19. WindowsAccounted' /\ NeverOverbilled' /\ MeterWithinCap'
  BY <1>1, <1>18 DEF RowGood, WindowsAccounted, NeverOverbilled, MeterWithinCap
<1>20. RecordsHold'
  BY <1>1 DEF LedgerInv, SelectionsHold, RecordsHold
<1>21. ReadsHold'
  BY <1>1, <1>17 DEF LedgerInv, SelectionsHold, ReadsHold
<1>22. RenewalsHold'
  <2> SUFFICES ASSUME NEW q \in Renewer, renewer'[q].pc = "update"
               PROVE  LET j == renewer'[q].id IN
                      /\ j \in Rows /\ renewer'[q].at <= now
                      /\ subs'[j].created_at + renewer'[q].charged * Period
                           <= renewer'[q].ends
                      /\ renewer'[q].ends
                           <= renewer'[q].at + renewer'[q].charged * Period
                      /\ renewer'[q].charged <= 1 + renewals'[j]
    BY <1>1 DEF RenewalsHold
  <2>1. q # w /\ renewer'[q] = renewer[q]
    BY <1>1, <1>3 DEF TypeOK, Idle
  <2> DEFINE j == renewer[q].id
  <2>2. /\ renewer[q] \in RenewRequest
        /\ j \in Rows /\ renewer[q].at <= now
        /\ subs[j].created_at + renewer[q].charged * Period <= renewer[q].ends
        /\ renewer[q].ends <= renewer[q].at + renewer[q].charged * Period
        /\ renewer[q].charged <= 1 + renewals[j]
    BY <1>3, <2>1
       DEF TypeOK, Idle, LedgerInv, SelectionsHold, RenewalsHold
  <2>3. renewals[j] \in Nat /\ renewer[q].charged \in Nat
    BY <1>3, <1>16, <2>2 DEF TypeOK, RenewRequest
  <2>4. renewer[q].charged <= 1 + renewals'[j]
    BY <1>10, <1>16, <2>2, <2>3
  <2>5. subs'[j].created_at = subs[j].created_at
    BY <1>17, <2>2
  <2> HIDE DEF j
  <2> QED BY <2>1, <2>2, <2>4, <2>5 DEF j
<1> QED BY <1>15, <1>19, <1>20, <1>21, <1>22 DEF LedgerInv, SelectionsHold

LEMMA ReadUpdateStep ==
  ASSUME LedgerInv, NEW r \in Reader, ReadUpdate(r)
  PROVE  LedgerInv'
<1> DEFINE i == reader[r].id
           u == reader[r].used + 1
           new == [subs[i] EXCEPT !.period_uses = u]
<1>1. /\ reader[r].pc = "update"
      /\ subs' = [subs EXCEPT ![i].period_uses = u]
      /\ granted' = [granted EXCEPT ![i] = @ + 1]
      /\ inPeriod' = [inPeriod EXCEPT ![i] = @ + 1]
      /\ reader' = [reader EXCEPT ![r] = Idle]
      /\ UNCHANGED <<now, nSubs, recorder, renewer, renewals, started, alone>>
  BY DEF ReadUpdate
<1>2. TypeOK
  BY DEF LedgerInv
<1>3. /\ reader[r] \in ReadRequest /\ i \in Rows
      /\ reader[r].used < subs[i].reads_per_period /\ reader[r].used <= granted[i]
  BY <1>1, <1>2 DEF TypeOK, Idle, LedgerInv, SelectionsHold, ReadsHold
<1>4. /\ i \in SubId /\ subs[i] \in Row /\ granted[i] \in Nat
      /\ RowGood(subs[i], renewals[i], granted[i], now)
  BY <1>3, SelectedRow
<1>5. /\ subs'[i] = new
      /\ \A j \in SubId : j # i => subs'[j] = subs[j]
  BY <1>1, <1>2, <1>4 DEF TypeOK
<1>6. /\ granted'[i] = granted[i] + 1
      /\ \A j \in SubId : j # i => granted'[j] = granted[j]
  BY <1>1, <1>2, <1>4 DEF TypeOK
<1>7. /\ subs[i].reads_per_period \in 1..MaxCap /\ reader[r].used \in 0..MaxCap
  BY <1>3, <1>4 DEF Row, ReadRequest
<1>8. u \in 0..MaxCap /\ u <= subs[i].reads_per_period /\ u <= granted'[i]
  BY <1>3, <1>4, <1>6, <1>7
<1> HIDE DEF i, u
<1>9. /\ new.reads_per_period = subs[i].reads_per_period
      /\ new.created_at = subs[i].created_at /\ new.period_uses = u
      /\ new.periods_charged = subs[i].periods_charged
      /\ new.current_period_start = subs[i].current_period_start
      /\ new.current_period_end = subs[i].current_period_end
  BY <1>4 DEF Row
<1>10. new \in Row
  BY <1>4, <1>8 DEF Row
<1> HIDE DEF new
<1>11. RowGood(new, renewals[i], granted'[i], now)
  BY <1>4, <1>8, <1>9 DEF RowGood
<1>12. TypeOK'
  <2>1. subs' \in [SubId -> Row \cup {Absent}]
    <3>1. DOMAIN subs' = SubId /\ subs' = [j \in SubId |-> subs'[j]]
      BY <1>1, <1>2 DEF TypeOK
    <3>2. \A j \in SubId : subs'[j] \in Row \cup {Absent}
      BY <1>2, <1>5, <1>10 DEF TypeOK
    <3> QED BY <3>1, <3>2
  <2>2. \A j \in SubId : j \in Rows' <=> subs'[j] \in Row
    BY <1>1, <1>2, <1>3, <1>5, <1>10 DEF TypeOK, i
  <2>3. reader' \in [Reader -> ReadRequest \cup {Idle}]
    BY <1>1, <1>2 DEF TypeOK
  <2>4. granted' \in [SubId -> Nat] /\ inPeriod' \in [SubId -> Nat]
    <3>1. granted[i] + 1 \in Nat /\ inPeriod[i] + 1 \in Nat
      BY <1>2, <1>4 DEF TypeOK
    <3>2. granted \in [SubId -> Nat] /\ inPeriod \in [SubId -> Nat]
      BY <1>2 DEF TypeOK
    <3>3. granted' \in [SubId -> Nat] BY <1>1, <1>4, <3>1, <3>2
    <3>4. inPeriod' \in [SubId -> Nat] BY <1>1, <1>4, <3>1, <3>2
    <3> QED BY <3>3, <3>4
  <2> QED BY <1>1, <1>2, <2>1, <2>2, <2>3, <2>4 DEF TypeOK
<1>13. Rows \subseteq SubId
  BY <1>2 DEF TypeOK
<1>14. \A j \in Rows : /\ subs'[j].created_at = subs[j].created_at
                       /\ subs'[j].reads_per_period = subs[j].reads_per_period
  BY <1>5, <1>9, <1>13
<1>15. \A j \in Rows : RowGood(subs'[j], renewals'[j], granted'[j], now')
  BY <1>1, <1>5, <1>6, <1>11, <1>13, RowsGood DEF LedgerInv
<1>16. WindowsAccounted' /\ NeverOverbilled' /\ MeterWithinCap'
  BY <1>1, <1>15 DEF RowGood, WindowsAccounted, NeverOverbilled, MeterWithinCap
<1>17. RecordsHold'
  BY <1>1 DEF LedgerInv, SelectionsHold, RecordsHold
<1>18. RenewalsHold'
  BY <1>1, <1>14 DEF LedgerInv, SelectionsHold, RenewalsHold
<1>19. ReadsHold'
  <2> SUFFICES ASSUME NEW q \in Reader, reader'[q].pc = "update"
               PROVE  LET j == reader'[q].id IN
                      /\ j \in Rows
                      /\ reader'[q].used < subs'[j].reads_per_period
                      /\ reader'[q].used <= granted'[j]
    BY <1>1 DEF ReadsHold
  <2>1. q # r /\ reader'[q] = reader[q]
    BY <1>1, <1>2 DEF TypeOK, Idle
  <2>2. /\ reader[q] \in ReadRequest /\ reader[q].id \in Rows
        /\ reader[q].used < subs[reader[q].id].reads_per_period
        /\ reader[q].used <= granted[reader[q].id]
    BY <1>2, <2>1 DEF TypeOK, Idle, LedgerInv, SelectionsHold, ReadsHold
  <2>3. granted[reader[q].id] \in Nat /\ reader[q].used \in Nat
    BY <1>2, <1>13, <2>2 DEF TypeOK, ReadRequest
  <2>4. reader[q].used <= granted'[reader[q].id]
    BY <1>6, <1>13, <2>2, <2>3
  <2> QED BY <1>14, <2>1, <2>2, <2>4
<1> QED BY <1>12, <1>16, <1>17, <1>18, <1>19 DEF LedgerInv, SelectionsHold

LEMMA FailStep ==
  ASSUME LedgerInv,
         \/ \E w \in Recorder : FailRecord(w)
         \/ \E w \in Renewer : FailRenew(w)
         \/ \E r \in Reader : FailRead(r)
  PROVE  LedgerInv'
<1>1. TypeOK
  BY DEF LedgerInv
<1>2. UNCHANGED <<now, subs, nSubs, renewals, granted, inPeriod, started, alone>>
  BY DEF FailRecord, FailRenew, FailRead, ledger, history
<1>3. /\ recorder' \in [Recorder -> RecordRequest \cup {Idle}]
      /\ \A w \in Recorder : recorder'[w] = Idle \/ recorder'[w] = recorder[w]
  BY <1>1 DEF TypeOK, FailRecord, FailRenew, FailRead
<1>4. /\ renewer' \in [Renewer -> RenewRequest \cup {Idle}]
      /\ \A w \in Renewer : renewer'[w] = Idle \/ renewer'[w] = renewer[w]
  BY <1>1 DEF TypeOK, FailRecord, FailRenew, FailRead
<1>5. /\ reader' \in [Reader -> ReadRequest \cup {Idle}]
      /\ \A r \in Reader : reader'[r] = Idle \/ reader'[r] = reader[r]
  BY <1>1 DEF TypeOK, FailRecord, FailRenew, FailRead
<1>6. TypeOK'
  BY <1>1, <1>2, <1>3, <1>4, <1>5 DEF TypeOK
<1>7. Idle.pc # "insert" /\ Idle.pc # "update"
  BY DEF Idle
<1>8. RecordsHold'
  BY <1>2, <1>3, <1>7 DEF LedgerInv, SelectionsHold, RecordsHold
<1>9. RenewalsHold'
  BY <1>2, <1>4, <1>7 DEF LedgerInv, SelectionsHold, RenewalsHold
<1>10. ReadsHold'
  BY <1>2, <1>5, <1>7 DEF LedgerInv, SelectionsHold, ReadsHold
<1>11. WindowsAccounted' /\ NeverOverbilled' /\ MeterWithinCap'
  BY <1>2 DEF LedgerInv, WindowsAccounted, NeverOverbilled, MeterWithinCap
<1> QED BY <1>6, <1>8, <1>9, <1>10, <1>11 DEF LedgerInv, SelectionsHold

LEMMA TickStep == ASSUME LedgerInv, Tick PROVE LedgerInv'
<1>1. /\ now' = now + 1
      /\ UNCHANGED <<subs, nSubs, recorder, renewer, reader, renewals, granted,
                     inPeriod, started, alone>>
  BY DEF Tick, ledger, slots, history
<1>2. TypeOK
  BY DEF LedgerInv
<1>3. TypeOK'
  BY <1>1, <1>2 DEF TypeOK
<1>4. RecordsHold'
  <2> SUFFICES ASSUME NEW w \in Recorder, recorder[w].pc = "insert"
               PROVE  recorder[w].at <= now'
    BY <1>1 DEF RecordsHold
  <2>1. recorder[w] \in RecordRequest /\ recorder[w].at <= now /\ now \in Nat
    BY <1>2 DEF TypeOK, Idle, LedgerInv, SelectionsHold, RecordsHold
  <2> QED BY <1>1, <2>1 DEF RecordRequest
<1>5. RenewalsHold'
  <2> SUFFICES ASSUME NEW w \in Renewer, renewer[w].pc = "update"
               PROVE  renewer[w].at <= now'
    BY <1>1 DEF LedgerInv, SelectionsHold, RenewalsHold
  <2>1. renewer[w] \in RenewRequest /\ renewer[w].at <= now /\ now \in Nat
    BY <1>2 DEF TypeOK, Idle, LedgerInv, SelectionsHold, RenewalsHold
  <2> QED BY <1>1, <2>1 DEF RenewRequest
<1>6. ReadsHold'
  BY <1>1 DEF LedgerInv, SelectionsHold, ReadsHold
<1>7. NeverOverbilled' /\ MeterWithinCap'
  BY <1>1 DEF LedgerInv, NeverOverbilled, MeterWithinCap
<1>8. WindowsAccounted'
  <2> SUFFICES ASSUME NEW i \in Rows
               PROVE  RowGood(subs[i], renewals[i], granted[i], now + 1)
    BY <1>1 DEF WindowsAccounted, RowGood
  <2>1. /\ subs[i] \in Row /\ now \in Nat
        /\ RowGood(subs[i], renewals[i], granted[i], now)
    BY SelectedRow
  <2> DEFINE past == subs[i].periods_charged * Period
  <2>2. past \in Nat /\ subs[i].current_period_end \in Nat
    BY <2>1, OneMorePeriod DEF Row
  <2>3. subs[i].current_period_end <= now + past
    BY <2>1 DEF RowGood
  <2> HIDE DEF past
  <2>4. subs[i].current_period_end <= (now + 1) + past
    BY <2>1, <2>2, <2>3
  <2> QED BY <2>1, <2>4 DEF RowGood, past
<1> QED BY <1>3, <1>4, <1>5, <1>6, <1>7, <1>8 DEF LedgerInv, SelectionsHold

LEMMA LedgerStep == LedgerInv /\ [Next]_vars => LedgerInv'
<1> SUFFICES ASSUME LedgerInv, [Next]_vars PROVE LedgerInv'
  OBVIOUS
<1>1. CASE Next
  BY <1>1, SupersedeStep, InsertStep, CancelStep, RenewSelectStep,
     RenewUpdateStep, ReadSelectStep, ReadUpdateStep, FailStep, TickStep
     DEF Next
<1>2. CASE UNCHANGED vars
  BY <1>2 DEF vars, ledger, slots, history, LedgerInv, TypeOK, SelectionsHold,
              RecordsHold, RenewalsHold, ReadsHold, WindowsAccounted,
              NeverOverbilled, MeterWithinCap
<1> QED BY <1>1, <1>2

\* The inductive invariant holds in every reachable state, whatever the number
\* of requests in flight, the period and the caps.
THEOREM LedgerInvariant == Spec => []LedgerInv
<1>1. Init => LedgerInv
  BY LedgerInit
<1>2. LedgerInv /\ [Next]_vars => LedgerInv'
  BY LedgerStep
<1> QED BY <1>1, <1>2, PTL DEF Spec

\* Every variable keeps its type.
THEOREM TypeCorrect == Spec => []TypeOK
<1>1. LedgerInv => TypeOK
  BY DEF LedgerInv
<1> QED BY <1>1, LedgerInvariant, PTL

\* No renewal, however late or concurrent, loses or gives away time.
THEOREM WindowsAlwaysAccounted == Spec => []WindowsAccounted
<1>1. LedgerInv => WindowsAccounted
  BY DEF LedgerInv
<1> QED BY <1>1, LedgerInvariant, PTL

\* No interleaving bills a row for more periods than were settled for it.
THEOREM NeverOverbilledHolds == Spec => []NeverOverbilled
<1>1. LedgerInv => NeverOverbilled
  BY DEF LedgerInv
<1> QED BY <1>1, LedgerInvariant, PTL

\* The fair-use meter stays within its cap and behind the reads let through.
THEOREM MeterAlwaysWithinCap == Spec => []MeterWithinCap
<1>1. LedgerInv => MeterWithinCap
  BY DEF LedgerInv
<1> QED BY <1>1, LedgerInvariant, PTL

LEMMA SaleStandsStep == LedgerInv /\ [Next]_vars => [SaleStands]_vars
<1> SUFFICES ASSUME LedgerInv, Next PROVE SaleStands
  OBVIOUS
<1>1. TypeOK /\ Rows \subseteq SubId
  BY DEF LedgerInv, TypeOK
<1>2. CASE UNCHANGED subs
  BY <1>2 DEF SaleStands
<1>3. ASSUME NEW a \in Account, subs' = Canceled(a) PROVE SaleStands
  BY <1>1, <1>3, CanceledRows DEF SaleStands
<1>4. ASSUME NEW w \in Recorder, RecordInsert(w) PROVE SaleStands
  <2>1. \A i \in Rows : subs'[i] = subs[i]
    BY <1>1, <1>4 DEF RecordInsert, TypeOK
  <2> QED BY <2>1 DEF SaleStands
<1>5. ASSUME NEW w \in Renewer, RenewUpdate(w) PROVE SaleStands
  <2> SUFFICES ASSUME NEW i \in Rows
               PROVE  /\ subs'[i].status = subs[i].status
                      /\ subs'[i].acct = subs[i].acct
                      /\ subs'[i].reads_per_period = subs[i].reads_per_period
                      /\ subs'[i].created_at = subs[i].created_at
    BY DEF SaleStands
  <2>1. i \in SubId /\ subs[i] \in Row
    BY <1>1 DEF TypeOK
  <2>2. CASE i = renewer[w].id
    BY <1>1, <1>5, <2>1, <2>2 DEF RenewUpdate, Billed, TypeOK, Row
  <2>3. CASE i # renewer[w].id
    BY <1>1, <1>5, <2>1, <2>3 DEF RenewUpdate, Billed, TypeOK
  <2> QED BY <2>2, <2>3
<1>6. ASSUME NEW r \in Reader, ReadUpdate(r) PROVE SaleStands
  <2> SUFFICES ASSUME NEW i \in Rows
               PROVE  /\ subs'[i].status = subs[i].status
                      /\ subs'[i].acct = subs[i].acct
                      /\ subs'[i].reads_per_period = subs[i].reads_per_period
                      /\ subs'[i].created_at = subs[i].created_at
    BY DEF SaleStands
  <2>1. i \in SubId /\ subs[i] \in Row
    BY <1>1 DEF TypeOK
  <2>2. CASE i = reader[r].id
    BY <1>1, <1>6, <2>1, <2>2 DEF ReadUpdate, TypeOK, Row
  <2>3. CASE i # reader[r].id
    BY <1>1, <1>6, <2>1, <2>3 DEF ReadUpdate, TypeOK
  <2> QED BY <2>2, <2>3
<1>7. \/ UNCHANGED subs
      \/ \E a \in Account : subs' = Canceled(a)
      \/ \E w \in Recorder : RecordInsert(w)
      \/ \E w \in Renewer : RenewUpdate(w)
      \/ \E r \in Reader : ReadUpdate(r)
  BY DEF Next, RecordSupersede, Cancel, RenewSelect, ReadSelect, FailRecord,
         FailRenew, FailRead, Tick, ledger
<1> QED BY <1>2, <1>3, <1>4, <1>5, <1>6, <1>7

\* A canceled row stays canceled and no step rewrites what was sold.
THEOREM CanceledStaysCanceled == Spec => CanceledForGood
BY SaleStandsStep, LedgerInvariant, PTL DEF Spec, CanceledForGood

-----------------------------------------------------------------------------
(* One request of each kind at a time *)

One(slot) == \A x, y \in DOMAIN slot : slot[x] # Idle /\ slot[y] # Idle => x = y

\* Alone, what a renewal selected is still what the row has been charged.
BillsFresh ==
  \A w \in Renewer : renewer[w].pc = "update" =>
    renewer[w].charged = subs[renewer[w].id].periods_charged

\* Alone, the meter counts every read of the period, and a read in flight has
\* selected a meter that does.
MeterFresh ==
  \A r \in Reader : reader[r].pc = "update" =>
    inPeriod[reader[r].id] <= reader[r].used
MeterCounts == \A i \in Rows : inPeriod[i] <= subs[i].period_uses

\* A row that does not exist yet was neither renewed nor read.
Untouched == \A i \in SubId : i \notin Rows => renewals[i] = 0 /\ inPeriod[i] = 0

\* Alone, an insertion in flight has superseded every active row of its account.
Superseded ==
  \A w \in Recorder : recorder[w].pc = "insert" =>
    \A i \in Rows : subs[i].acct = recorder[w].acct => subs[i].status = "canceled"
Single ==
  \A i, j \in Rows : /\ subs[i].acct = subs[j].acct
                     /\ subs[i].status = "active" /\ subs[j].status = "active"
                     => i = j

Billing == One(renewer) /\ BillsFresh /\ PeriodsCounted
Metering == One(reader) /\ MeterFresh /\ MeterCounts
Recording == One(recorder) /\ Superseded /\ Single

AloneInv ==
  LedgerInv /\ Untouched /\ (alone => Billing /\ Metering /\ Recording)

\* Starting a request in a slot while every slot is idle, or ending one, leaves
\* at most one in flight.
LEMMA OneStarted ==
  ASSUME NEW slot, NEW x \in DOMAIN slot, NEW v,
         \A y \in DOMAIN slot : slot[y] = Idle
  PROVE  One([slot EXCEPT ![x] = v])
BY DEF One

LEMMA OneEnded ==
  ASSUME NEW slot, NEW x \in DOMAIN slot, One(slot)
  PROVE  One([slot EXCEPT ![x] = Idle])
BY DEF One

LEMMA UntouchedStep ==
  LedgerInv /\ Untouched /\ [Next]_vars => Untouched'
<1> SUFFICES ASSUME LedgerInv, Untouched, [Next]_vars PROVE Untouched'
  OBVIOUS
<1>1. TypeOK /\ Rows \subseteq SubId
  BY DEF LedgerInv, TypeOK
<1>2. CASE UNCHANGED <<nSubs, renewals, inPeriod>>
  BY <1>2 DEF Untouched
<1>3. ASSUME NEW w \in Recorder, RecordInsert(w) PROVE Untouched'
  BY <1>1, <1>3 DEF RecordInsert, history, Untouched, TypeOK
<1>4. ASSUME NEW w \in Renewer, RenewUpdate(w) PROVE Untouched'
  <2>1. renewer[w].id \in Rows
    BY <1>4 DEF RenewUpdate, LedgerInv, SelectionsHold, RenewalsHold
  <2>2. /\ nSubs' = nSubs
        /\ renewals' = [renewals EXCEPT ![renewer[w].id] = @ + 1]
        /\ inPeriod' = [inPeriod EXCEPT ![renewer[w].id] = 0]
    BY <1>4 DEF RenewUpdate
  <2> QED BY <1>1, <2>1, <2>2 DEF Untouched, TypeOK
<1>5. ASSUME NEW r \in Reader, ReadUpdate(r) PROVE Untouched'
  <2>1. reader[r].id \in Rows
    BY <1>5 DEF ReadUpdate, LedgerInv, SelectionsHold, ReadsHold
  <2>2. /\ nSubs' = nSubs /\ renewals' = renewals
        /\ inPeriod' = [inPeriod EXCEPT ![reader[r].id] = @ + 1]
    BY <1>5 DEF ReadUpdate
  <2> QED BY <1>1, <2>1, <2>2 DEF Untouched, TypeOK
<1> QED BY <1>2, <1>3, <1>4, <1>5 DEF Next, vars, RecordSupersede, Cancel,
           RenewSelect, ReadSelect, FailRecord, FailRenew, FailRead, Tick,
           ledger, history

\* The new row of an insertion, the rows before it untouched.
LEMMA Inserted ==
  ASSUME TypeOK, NEW w \in Recorder, RecordInsert(w)
  PROVE  /\ nSubs' = nSubs + 1 /\ nSubs + 1 \in SubId /\ Rows \subseteq SubId
         /\ Rows' = Rows \cup {nSubs + 1} /\ nSubs + 1 \notin Rows
         /\ subs'[nSubs + 1].acct = recorder[w].acct
         /\ subs'[nSubs + 1].period_uses = 0
         /\ subs'[nSubs + 1].periods_charged = 1
         /\ \A i \in Rows : subs'[i] = subs[i]
         /\ recorder' = [recorder EXCEPT ![w] = Idle]
         /\ UNCHANGED <<renewer, reader, renewals, inPeriod, alone>>
<1>1. nSubs \in Nat /\ subs \in [SubId -> Row \cup {Absent}]
  BY DEF TypeOK
<1> QED BY <1>1 DEF RecordInsert, history

LEMMA BillingStep ==
  ASSUME AloneInv, alone, [Next]_vars
  PROVE  Billing'
<1>1. /\ TypeOK /\ One(renewer) /\ BillsFresh /\ PeriodsCounted
      /\ RenewalsHold /\ Untouched /\ Rows \subseteq SubId
      /\ DOMAIN renewer = Renewer
  BY DEF AloneInv, Billing, LedgerInv, SelectionsHold, TypeOK
<1>2. CASE /\ UNCHANGED <<renewer, renewals, nSubs>>
           /\ \A i \in Rows : subs'[i].periods_charged = subs[i].periods_charged
  <2>1. BillsFresh'
    BY <1>1, <1>2 DEF BillsFresh, RenewalsHold
  <2> QED BY <1>1, <1>2, <2>1 DEF Billing, One, PeriodsCounted
<1>3. ASSUME NEW w \in Recorder, RecordInsert(w) PROVE Billing'
  <2>1. /\ Rows' = Rows \cup {nSubs + 1}
        /\ nSubs + 1 \in SubId /\ nSubs + 1 \notin Rows
        /\ subs'[nSubs + 1].periods_charged = 1
        /\ \A i \in Rows : subs'[i] = subs[i]
        /\ renewer' = renewer /\ renewals' = renewals
    BY <1>1, <1>3, Inserted
  <2>2. BillsFresh'
    BY <1>1, <2>1 DEF BillsFresh, RenewalsHold
  <2>3. PeriodsCounted'
    <3> SUFFICES ASSUME NEW i \in Rows'
                 PROVE  subs'[i].periods_charged = 1 + renewals'[i]
      BY DEF PeriodsCounted
    <3> HIDE DEF Rows
    <3>1. CASE i \in Rows
      BY <1>1, <2>1, <3>1 DEF PeriodsCounted
    <3>2. CASE i = nSubs + 1
      BY <1>1, <2>1, <3>2 DEF Untouched
    <3> QED BY <2>1, <3>1, <3>2
  <2> QED BY <1>1, <2>1, <2>2, <2>3 DEF Billing, One
<1>4. ASSUME NEW w \in Renewer, NEW a \in Account, RenewSelect(w, a)
      PROVE  Billing'
  <2>1. PICK i \in Rows :
          renewer' = [renewer EXCEPT ![w] =
                        [pc |-> "update", id |-> i,
                         ends |-> subs[i].current_period_end,
                         charged |-> subs[i].periods_charged, at |-> now]]
    BY <1>4 DEF RenewSelect
  <2>2. UNCHANGED <<subs, nSubs, renewals>> /\ OneAtATime(renewer)
    BY <1>4 DEF RenewSelect, ledger
  <2>3. One(renewer')
    BY <1>1, <2>1, <2>2, OneStarted DEF OneAtATime
  <2>4. BillsFresh'
    BY <1>1, <2>1, <2>2 DEF BillsFresh
  <2> QED BY <1>1, <2>2, <2>3, <2>4 DEF Billing, PeriodsCounted
<1>5. ASSUME NEW w \in Renewer, RenewUpdate(w) PROVE Billing'
  <2> DEFINE i == renewer[w].id
             c == renewer[w].charged
  <2>1. /\ renewer[w].pc = "update" /\ nSubs' = nSubs
        /\ renewer' = [renewer EXCEPT ![w] = Idle]
        /\ renewals' = [renewals EXCEPT ![i] = @ + 1]
    BY <1>5 DEF RenewUpdate
  <2>2. i \in Rows /\ i \in SubId /\ c = subs[i].periods_charged
    BY <1>1, <2>1 DEF BillsFresh, RenewalsHold
  <2>3. PICK base :
          subs' = [subs EXCEPT ![i].periods_charged = c + 1,
                               ![i].current_period_start = base,
                               ![i].current_period_end = base + Period,
                               ![i].period_uses = 0]
    BY <1>5 DEF RenewUpdate, Billed
  <2>4. subs[i] \in Row /\ subs \in [SubId -> Row \cup {Absent}]
    BY <1>1, <2>2 DEF TypeOK
  <2>5. /\ subs'[i].periods_charged = c + 1
        /\ \A j \in SubId : j # i => subs'[j] = subs[j]
    BY <2>2, <2>3, <2>4 DEF Row
  <2>6. /\ renewals \in [SubId -> Nat] /\ renewals'[i] = renewals[i] + 1
        /\ \A j \in SubId : j # i => renewals'[j] = renewals[j]
    BY <1>1, <2>1, <2>2 DEF TypeOK
  <2>7. PeriodsCounted'
    <3>1. subs'[i].periods_charged = 1 + renewals'[i]
      <4>1. c = 1 + renewals[i]
        BY <1>1, <2>2 DEF PeriodsCounted
      <4>2. renewals[i] \in Nat
        BY <2>2, <2>6
      <4> HIDE DEF c, i
      <4> QED BY <2>5, <2>6, <4>1, <4>2
    <3> QED BY <1>1, <2>1, <2>5, <2>6, <3>1 DEF PeriodsCounted
  <2>8. One(renewer')
    BY <1>1, <2>1, OneEnded
  <2>9. BillsFresh'
    <3>1. \A x \in Renewer : renewer'[x] = Idle
      BY <1>1, <2>1 DEF One, Idle
    <3> QED BY <3>1 DEF BillsFresh, Idle
  <2> QED BY <2>7, <2>8, <2>9 DEF Billing
<1>6. ASSUME NEW w \in Renewer, FailRenew(w) PROVE Billing'
  <2>1. /\ renewer' = [renewer EXCEPT ![w] = Idle]
        /\ UNCHANGED <<subs, nSubs, renewals>>
    BY <1>6 DEF FailRenew, ledger, history
  <2>2. One(renewer')
    BY <1>1, <2>1, OneEnded
  <2>3. BillsFresh'
    BY <1>1, <2>1 DEF BillsFresh, Idle
  <2> QED BY <1>1, <2>1, <2>2, <2>3 DEF Billing, PeriodsCounted
<1>7. ASSUME NEW a \in Account, subs' = Canceled(a),
             UNCHANGED <<renewer, renewals, nSubs>>
      PROVE  Billing'
  BY <1>1, <1>2, <1>7, CanceledRows
<1>8. ASSUME NEW r \in Reader, ReadUpdate(r) PROVE Billing'
  <2>1. \A i \in Rows : subs'[i].periods_charged = subs[i].periods_charged
    BY <1>1, <1>8 DEF ReadUpdate, TypeOK, Row
  <2> QED BY <1>2, <1>8, <2>1 DEF ReadUpdate
<1>9. CASE UNCHANGED <<subs, renewer, renewals, nSubs>>
  BY <1>2, <1>9
<1>10. ASSUME NEW w \in Recorder, NEW a \in Account, NEW cap \in 1..MaxCap,
              RecordSupersede(w, a, cap)
       PROVE  Billing'
  BY <1>7, <1>10 DEF RecordSupersede, history
<1>11. ASSUME NEW a \in Account, Cancel(a) PROVE Billing'
  BY <1>7, <1>11 DEF Cancel, slots, history
<1>12. ASSUME NEW r \in Reader, NEW a \in Account, ReadSelect(r, a)
       PROVE  Billing'
  BY <1>9, <1>12 DEF ReadSelect, ledger
<1>13. ASSUME \/ \E w \in Recorder : FailRecord(w)
              \/ \E r \in Reader : FailRead(r)
              \/ Tick \/ UNCHANGED vars
       PROVE  Billing'
  BY <1>9, <1>13 DEF FailRecord, FailRead, Tick, vars, ledger, slots, history
<1> QED BY <1>3, <1>4, <1>5, <1>6, <1>8, <1>10, <1>11, <1>12, <1>13 DEF Next

LEMMA MeteringStep ==
  ASSUME AloneInv, alone, [Next]_vars
  PROVE  Metering'
<1>1. /\ TypeOK /\ One(reader) /\ MeterFresh /\ MeterCounts
      /\ ReadsHold /\ RenewalsHold /\ Untouched /\ Rows \subseteq SubId
      /\ DOMAIN reader = Reader
  BY DEF AloneInv, Metering, LedgerInv, SelectionsHold, TypeOK
<1>2. CASE /\ UNCHANGED <<reader, inPeriod, nSubs>>
           /\ \A i \in Rows : subs'[i].period_uses = subs[i].period_uses
  <2>1. MeterFresh'
    BY <1>2, <1>1 DEF MeterFresh
  <2> QED BY <1>1, <1>2, <2>1 DEF Metering, One, MeterCounts
<1>3. ASSUME NEW w \in Recorder, RecordInsert(w) PROVE Metering'
  <2>1. /\ Rows' = Rows \cup {nSubs + 1}
        /\ nSubs + 1 \in SubId /\ nSubs + 1 \notin Rows
        /\ subs'[nSubs + 1].period_uses = 0
        /\ \A i \in Rows : subs'[i] = subs[i]
        /\ reader' = reader /\ inPeriod' = inPeriod
    BY <1>1, <1>3, Inserted
  <2>2. MeterFresh'
    BY <1>1, <2>1 DEF MeterFresh
  <2>3. MeterCounts'
    <3> SUFFICES ASSUME NEW i \in Rows'
                 PROVE  inPeriod'[i] <= subs'[i].period_uses
      BY DEF MeterCounts
    <3> HIDE DEF Rows
    <3>1. CASE i \in Rows
      BY <1>1, <2>1, <3>1 DEF MeterCounts
    <3>2. CASE i = nSubs + 1
      BY <1>1, <2>1, <3>2 DEF Untouched
    <3> QED BY <2>1, <3>1, <3>2
  <2> QED BY <1>1, <2>1, <2>2, <2>3 DEF Metering, One
<1>4. ASSUME NEW r \in Reader, NEW a \in Account, ReadSelect(r, a)
      PROVE  Metering'
  <2>1. PICK i \in Rows :
          reader' = [reader EXCEPT ![r] =
                       [pc |-> "update", id |-> i,
                        used |-> subs[i].period_uses]]
    BY <1>4 DEF ReadSelect
  <2>2. UNCHANGED <<subs, nSubs, inPeriod>> /\ OneAtATime(reader)
    BY <1>4 DEF ReadSelect, ledger
  <2>3. One(reader')
    BY <1>1, <2>1, <2>2, OneStarted DEF OneAtATime
  <2>4. MeterFresh'
    BY <1>1, <2>1, <2>2 DEF MeterFresh, MeterCounts
  <2> QED BY <1>1, <2>2, <2>3, <2>4 DEF Metering, MeterCounts
<1>5. ASSUME NEW r \in Reader, ReadUpdate(r) PROVE Metering'
  <2> DEFINE i == reader[r].id
             u == reader[r].used
  <2>1. /\ reader[r].pc = "update" /\ nSubs' = nSubs
        /\ reader' = [reader EXCEPT ![r] = Idle]
        /\ inPeriod' = [inPeriod EXCEPT ![i] = @ + 1]
        /\ subs' = [subs EXCEPT ![i].period_uses = u + 1]
    BY <1>5 DEF ReadUpdate
  <2>2. i \in Rows /\ i \in SubId /\ inPeriod[i] <= u
    BY <1>1, <2>1 DEF MeterFresh, ReadsHold
  <2>3. /\ subs[i] \in Row /\ subs \in [SubId -> Row \cup {Absent}]
        /\ inPeriod \in [SubId -> Nat] /\ u \in Nat
    BY <1>1, <2>1, <2>2 DEF TypeOK, ReadRequest, Idle
  <2>4. /\ subs'[i].period_uses = u + 1
        /\ \A j \in SubId : j # i => subs'[j] = subs[j]
    BY <2>1, <2>2, <2>3 DEF Row
  <2>5. /\ inPeriod'[i] = inPeriod[i] + 1 /\ inPeriod[i] \in Nat
        /\ \A j \in SubId : j # i => inPeriod'[j] = inPeriod[j]
    BY <2>1, <2>2, <2>3
  <2>6. MeterCounts'
    <3>1. inPeriod'[i] <= subs'[i].period_uses
      <4> HIDE DEF i, u
      <4> QED BY <2>2, <2>3, <2>4, <2>5
    <3> QED BY <1>1, <2>1, <2>4, <2>5, <3>1 DEF MeterCounts
  <2>7. One(reader')
    BY <1>1, <2>1, OneEnded
  <2>8. MeterFresh'
    <3>1. \A x \in Reader : reader'[x] = Idle
      BY <1>1, <2>1 DEF One, Idle
    <3> QED BY <3>1 DEF MeterFresh, Idle
  <2> QED BY <2>6, <2>7, <2>8 DEF Metering
<1>6. ASSUME NEW r \in Reader, FailRead(r) PROVE Metering'
  <2>1. /\ reader' = [reader EXCEPT ![r] = Idle]
        /\ UNCHANGED <<subs, nSubs, inPeriod>>
    BY <1>6 DEF FailRead, ledger, history
  <2>2. One(reader')
    BY <1>1, <2>1, OneEnded
  <2>3. MeterFresh'
    BY <1>1, <2>1 DEF MeterFresh, Idle
  <2> QED BY <1>1, <2>1, <2>2, <2>3 DEF Metering, MeterCounts
<1>7. ASSUME NEW w \in Renewer, RenewUpdate(w) PROVE Metering'
  <2> DEFINE i == renewer[w].id
  <2>1. /\ renewer[w].pc = "update" /\ UNCHANGED <<nSubs, reader>>
        /\ inPeriod' = [inPeriod EXCEPT ![i] = 0]
    BY <1>7 DEF RenewUpdate
  <2>2. i \in Rows /\ i \in SubId
    BY <1>1, <2>1 DEF RenewalsHold
  <2>3. PICK base :
          subs' = [subs EXCEPT ![i].periods_charged = renewer[w].charged + 1,
                               ![i].current_period_start = base,
                               ![i].current_period_end = base + Period,
                               ![i].period_uses = 0]
    BY <1>7 DEF RenewUpdate, Billed
  <2>4. subs[i] \in Row /\ subs \in [SubId -> Row \cup {Absent}]
        /\ inPeriod \in [SubId -> Nat]
    BY <1>1, <2>2 DEF TypeOK
  <2>5. /\ subs'[i].period_uses = 0 /\ inPeriod'[i] = 0
        /\ \A j \in SubId : j # i => /\ subs'[j] = subs[j]
                                     /\ inPeriod'[j] = inPeriod[j]
    BY <2>1, <2>2, <2>3, <2>4 DEF Row
  <2>6. MeterCounts'
    BY <1>1, <2>1, <2>5 DEF MeterCounts
  <2>7. MeterFresh'
    <3> SUFFICES ASSUME NEW r \in Reader, reader[r].pc = "update"
                 PROVE  inPeriod'[reader[r].id] <= reader[r].used
      BY <2>1 DEF MeterFresh
    <3>1. reader[r].used \in Nat /\ reader[r].id \in SubId
      BY <1>1 DEF TypeOK, ReadRequest, Idle
    <3>2. inPeriod[reader[r].id] <= reader[r].used
      BY <1>1 DEF MeterFresh
    <3> QED BY <2>5, <3>1, <3>2
  <2> QED BY <1>1, <2>1, <2>6, <2>7 DEF Metering, One
<1>8. ASSUME NEW a \in Account, subs' = Canceled(a),
             UNCHANGED <<reader, inPeriod, nSubs>>
      PROVE  Metering'
  BY <1>1, <1>2, <1>8, CanceledRows
<1>9. CASE UNCHANGED <<subs, reader, inPeriod, nSubs>>
  BY <1>2, <1>9
<1>10. ASSUME NEW w \in Recorder, NEW a \in Account, NEW cap \in 1..MaxCap,
              RecordSupersede(w, a, cap)
       PROVE  Metering'
  BY <1>8, <1>10 DEF RecordSupersede, history
<1>11. ASSUME NEW a \in Account, Cancel(a) PROVE Metering'
  BY <1>8, <1>11 DEF Cancel, slots, history
<1>12. ASSUME NEW w \in Renewer, NEW a \in Account, RenewSelect(w, a)
       PROVE  Metering'
  BY <1>9, <1>12 DEF RenewSelect, ledger
<1>13. ASSUME \/ \E w \in Recorder : FailRecord(w)
              \/ \E w \in Renewer : FailRenew(w)
              \/ Tick \/ UNCHANGED vars
       PROVE  Metering'
  BY <1>9, <1>13 DEF FailRecord, FailRenew, Tick, vars, ledger, slots, history
<1> QED BY <1>3, <1>4, <1>5, <1>6, <1>7, <1>10, <1>11, <1>12, <1>13 DEF Next

LEMMA RecordingStep ==
  ASSUME AloneInv, alone, [Next]_vars
  PROVE  Recording'
<1>1. /\ TypeOK /\ One(recorder) /\ Superseded /\ Single
      /\ Rows \subseteq SubId /\ DOMAIN recorder = Recorder
      /\ \A i \in Rows : subs[i].status \in {"active", "canceled"}
  <2>1. /\ TypeOK /\ One(recorder) /\ Superseded /\ Single
    BY DEF AloneInv, Recording, LedgerInv
  <2>2. Rows \subseteq SubId /\ DOMAIN recorder = Recorder
    BY <2>1 DEF TypeOK
  <2>3. ASSUME NEW i \in Rows PROVE subs[i].status \in {"active", "canceled"}
    <3>1. subs[i] \in Row
      BY <2>1, <2>2 DEF TypeOK
    <3> QED BY <3>1 DEF Row
  <2> QED BY <2>1, <2>2, <2>3
<1>2. /\ \A i \in Rows :
           /\ subs[i].status = "canceled" => subs'[i].status = "canceled"
           /\ subs'[i].acct = subs[i].acct
      /\ TypeOK'
  BY SaleStandsStep, LedgerStep DEF AloneInv, SaleStands, LedgerInv, vars, ledger
<1>3. nSubs' = nSubs => \A i \in Rows : subs'[i].status \in {"active", "canceled"}
  BY <1>1, <1>2 DEF TypeOK, Row
<1>4. CASE UNCHANGED <<recorder, nSubs>>
  <2>1. Superseded'
    BY <1>1, <1>2, <1>4 DEF Superseded
  <2>2. Single'
    BY <1>1, <1>2, <1>3, <1>4 DEF Single
  <2> QED BY <1>1, <1>4, <2>1, <2>2 DEF Recording, One
<1>5. ASSUME NEW w \in Recorder, NEW a \in Account, NEW cap \in 1..MaxCap,
             RecordSupersede(w, a, cap)
      PROVE  Recording'
  <2>1. /\ recorder' = [recorder EXCEPT ![w] = [pc |-> "insert", acct |-> a,
                                                cap |-> cap, at |-> now]]
        /\ nSubs' = nSubs /\ subs' = Canceled(a) /\ OneAtATime(recorder)
    BY <1>5 DEF RecordSupersede
  <2>2. One(recorder')
    BY <1>1, <2>1, OneStarted DEF OneAtATime
  <2>3. \A i \in Rows : subs'[i].acct = a => subs'[i].status = "canceled"
    BY <1>1, <1>2, <2>1 DEF Canceled, Active, TypeOK, Row
  <2>4. \A x \in Recorder : x # w => recorder'[x] = Idle
    BY <1>1, <2>1, <2>2 DEF One, Idle
  <2>5. Superseded'
    BY <1>1, <2>1, <2>3, <2>4 DEF Superseded, Idle
  <2>6. Single'
    BY <1>1, <1>2, <1>3, <2>1 DEF Single
  <2> QED BY <2>2, <2>5, <2>6 DEF Recording
<1>6. ASSUME NEW w \in Recorder, RecordInsert(w) PROVE Recording'
  <2>1. /\ Rows' = Rows \cup {nSubs + 1}
        /\ subs'[nSubs + 1].acct = recorder[w].acct
        /\ \A i \in Rows : subs'[i] = subs[i]
        /\ recorder' = [recorder EXCEPT ![w] = Idle]
        /\ recorder[w].pc = "insert"
    BY <1>1, <1>6, Inserted DEF RecordInsert
  <2>2. One(recorder')
    BY <1>1, <2>1, OneEnded
  <2>3. \A x \in Recorder : recorder'[x] = Idle
    BY <1>1, <2>1 DEF One, Idle
  <2>4. Superseded'
    BY <2>3 DEF Superseded, Idle
  <2>5. \A i \in Rows : subs[i].acct = recorder[w].acct
                          => subs[i].status = "canceled"
    BY <1>1, <2>1 DEF Superseded
  <2>6. Single'
    <3> SUFFICES ASSUME NEW i \in Rows', NEW j \in Rows',
                        subs'[i].acct = subs'[j].acct,
                        subs'[i].status = "active", subs'[j].status = "active"
                 PROVE  i = j
      BY DEF Single
    <3> HIDE DEF Rows
    <3>1. CASE i \in Rows /\ j \in Rows
      BY <1>1, <2>1, <3>1 DEF Single
    <3>2. CASE i \in Rows /\ j = nSubs + 1
      BY <2>1, <2>5, <3>2
    <3>3. CASE i = nSubs + 1 /\ j \in Rows
      BY <2>1, <2>5, <3>3
    <3> QED BY <2>1, <3>1, <3>2, <3>3
  <2> QED BY <2>2, <2>4, <2>6 DEF Recording
<1>7. ASSUME NEW w \in Recorder, FailRecord(w) PROVE Recording'
  <2>1. /\ recorder' = [recorder EXCEPT ![w] = Idle]
        /\ UNCHANGED <<subs, nSubs>>
    BY <1>7 DEF FailRecord, ledger
  <2>2. One(recorder')
    BY <1>1, <2>1, OneEnded
  <2>3. Superseded'
    BY <1>1, <2>1 DEF Superseded, Idle
  <2> QED BY <1>1, <2>1, <2>2, <2>3 DEF Recording, Single
<1> QED BY <1>4, <1>5, <1>6, <1>7 DEF Next, Cancel, RenewSelect, RenewUpdate,
           ReadSelect, ReadUpdate, FailRenew, FailRead, Tick, vars, ledger, slots

\* The world does not change.
LEMMA AloneFixed == [Next]_vars => alone' = alone
BY DEF Next, vars, RecordSupersede, RecordInsert, Cancel, RenewSelect,
       RenewUpdate, ReadSelect, ReadUpdate, FailRecord, FailRenew, FailRead,
       Tick

LEMMA AloneInit == Init => AloneInv
<1> SUFFICES ASSUME Init PROVE AloneInv
  OBVIOUS
<1>1. Billing /\ Metering /\ Recording /\ Untouched
  BY DEF Init, Billing, Metering, Recording, One, BillsFresh, PeriodsCounted,
         MeterFresh, MeterCounts, Superseded, Single, Untouched, Idle
<1> QED BY <1>1, LedgerInit DEF AloneInv

LEMMA AloneStep == AloneInv /\ [Next]_vars => AloneInv'
BY LedgerStep, UntouchedStep, AloneFixed, BillingStep, MeteringStep,
   RecordingStep DEF AloneInv

LEMMA AloneHolds == Spec => []AloneInv
BY AloneInit, AloneStep, PTL DEF Spec

\* No renewal loses time, gives time away or bills a period that was not
\* settled; alone, every settled period is billed.
THEOREM PeriodsAlwaysTrue == Spec => []PeriodsTrue
<1>1. AloneInv => PeriodsTrue
  BY DEF AloneInv, LedgerInv, Billing, PeriodsTrue
<1> QED BY <1>1, AloneHolds, PTL

\* The meter stays within the cap; alone, a period lets through at most the cap.
THEOREM CapAlwaysKept == Spec => []CapKept
<1>1. ASSUME AloneInv, alone, NEW i \in Rows
      PROVE  inPeriod[i] <= subs[i].reads_per_period
  <2>1. /\ i \in SubId /\ inPeriod[i] <= subs[i].period_uses
        /\ subs[i].period_uses <= subs[i].reads_per_period
    BY <1>1 DEF AloneInv, LedgerInv, TypeOK, Metering, MeterCounts, MeterWithinCap
  <2>2. inPeriod[i] \in Nat /\ subs[i] \in Row
    BY <1>1, <2>1 DEF AloneInv, LedgerInv, TypeOK
  <2>3. subs[i].period_uses \in Nat /\ subs[i].reads_per_period \in Nat
    BY <2>2 DEF Row
  <2> QED BY <2>1, <2>2, <2>3
<1>2. AloneInv => CapKept
  BY <1>1 DEF AloneInv, LedgerInv, CapKept, FairUse
<1> QED BY <1>2, AloneHolds, PTL

\* Alone, a subscribe leaves an account with one active row.
THEOREM OneActiveHolds == Spec => []OneActive
<1>1. AloneInv => OneActive
  BY DEF AloneInv, Recording, Single, OneActive, Active
<1> QED BY <1>1, AloneHolds, PTL
=============================================================================
