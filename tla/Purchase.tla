------------------------------ MODULE Purchase ------------------------------
(***************************************************************************)
(* Signing in and buying access, as one browser sees it.  The Explorer     *)
(* (demo-bible-ontology/src/ui.ts) sends a window to the person's home     *)
(* (apps/impact) with a request; there the person connects or approves,    *)
(* a purchase is charged, and the window comes back with a code, which the *)
(* Explorer trades for the id_token and, after a purchase, for the claim   *)
(* of the pass.  A purchase goes to a popup, or to the window itself where *)
(* popups are blocked.  Windows share localStorage (the Explorer's session *)
(* and the one cell sa.paypend; the home's session) and keep sessionStorage *)
(* for themselves (sa.pending; the home's stashed request), and a history, *)
(* where the browser's Back finds the home's URLs with their requests.     *)
(*                                                                         *)
(* External: the person, the identity provider, the chain, and the servers *)
(* (SignIn, Grants and SettlementLane model them): a call succeeds, fails, *)
(* or succeeds and its answer is lost.  The people are nameless and their  *)
(* homes deployed, so every request goes to the central home and naming    *)
(* and deploying change nothing.  A session is known by the run that made  *)
(* it, and an OIDC state, nonce and PKCE verifier by their request.        *)
(***************************************************************************)
EXTENDS Integers, Sequences, FiniteSets

CONSTANTS
  Person, Nobody,
  Tab,           \* windows the person opened; each may have a popup
  Tier,          \* LBSB_TIERS
  MaxRequests,   \* bound: requests ever made
  MaxRuns,       \* bound: authorizations ever begun
  MaxTrouble     \* bound: failures, departures, overlaps

ASSUME PurchaseConstants ==
  /\ Nobody \notin Person /\ "login" \notin Tier
  /\ MaxRequests \in Nat \ {0} /\ MaxRuns \in Nat \ {0}
  /\ MaxTrouble \in Nat

Window == Tab \X {"tab", "pop"}
Popup(w) == <<w[1], "pop">>   \* window.open(.., 'gc_pay')
None == 0
RequestId == 1..MaxRequests
Run == 1..MaxRuns

VARIABLES
  asked,     \* request -> "login", or the tier it buys
  run,       \* run -> one authorization at the home
  paypend,   \* localStorage sa.paypend: the request a popup was opened for
  saved,     \* localStorage sa.session: the run that signed in
  store,     \* localStorage impact.session.v2: who the home knows
  pending,   \* window -> sessionStorage sa.pending
  stash,     \* window -> sessionStorage impact.pendingEnroll
  past,      \* window -> the requests of the home's URLs in its history
  page,      \* window -> what it shows
  claims,    \* what /pay/claim was told
  answered,  \* requests delivered or denied, and not gone Back to since
             \* (history)
  trouble    \* failures, departures, overlaps so far

purchaseVars == <<asked, run, paypend, saved, store, pending, stash, past,
                  page, claims, answered, trouble>>

Session == Run \cup {None}
Authorization ==
  [req : RequestId, who : Person, charged : BOOLEAN,
   code : {"none", "live", "spent"}]
Page ==
  [at : {"closed", "app", "logout", "home", "idp"},
   req : RequestId \cup {None}, \* the request it serves
   url : BOOLEAN,               \* the request is in its URL
   who : Person \cup {Nobody},  \* home: the connected identity
   just : BOOLEAN,              \* home: connected by this page
   session : Session,           \* Explorer: its session variable
   run : Run \cup {None},       \* the authorization it carries
   step : {"idle", "authorize", "submit", "deliver",   \* home
           "token", "claim"},                           \* Explorer
   popup : BOOLEAN]             \* Explorer: handlePayPopup runs

Closed == [at |-> "closed", req |-> None, url |-> FALSE, who |-> Nobody,
           just |-> FALSE, session |-> None, run |-> None,
           step |-> "idle", popup |-> FALSE]
Explorer(s) == [Closed EXCEPT !.at = "app", !.session = s]
HomePage(r, inUrl, p) ==
  [Closed EXCEPT !.at = "home", !.req = r, !.url = inUrl, !.who = p]

Show(w, p) == page' = [page EXCEPT ![w] = p]
Keep(cell, w, r) == [cell EXCEPT ![w] = r]

\* nothing fails, nobody leaves or reloads a page or disconnects, no session
\* or stash lapses, popup purchases take turns and none sends an open popup
\* away from a request; or something does
Calmly == UNCHANGED trouble
Trouble == trouble < MaxTrouble /\ trouble' = trouble + 1
CalmlyIf(c) == IF c THEN Calmly ELSE Trouble

-----------------------------------------------------------------------------
(* The Explorer *)

\* loadSession: a session past its time is dropped from storage
LoadSession(s) == s \in {saved, None} /\ saved' = s

\* the page hears of purchases and takes clicks (a popup that claims does not)
Ready(w) == page[w].at = "app" /\ ~page[w].popup

Ask(what) ==
  /\ Len(asked) < MaxRequests
  /\ asked' = Append(asked, what)

\* the window goes to the home with the request just made
Sent(w) == /\ Show(w, HomePage(Len(asked'), TRUE, store))
           /\ past' = Keep(past, w, past[w] \cup {Len(asked')})

\* connectStart
Connect(w) ==
  /\ Ready(w) /\ page[w].session = None
  /\ Ask("login")
  /\ CalmlyIf(page[w].step = "idle")
  /\ pending' = Keep(pending, w, Len(asked'))
  /\ Sent(w)
  /\ UNCHANGED <<run, paypend, saved, store, stash, claims, answered>>

\* the popup's request is in nobody's hands
TurnFree == \A w \in Window : page[w].req = None \/ page[w].req # paypend

\* connectStartPay.  A popup begins with its opener's sessionStorage; one that
\* is open already is sent to the new request, whatever it was doing.
OpenPopup(w) ==
  LET opened == page[Popup(w)].at = "closed" IN
    /\ paypend' = Len(asked')
    /\ Sent(Popup(w))
    /\ pending' = IF opened THEN Keep(pending, Popup(w), pending[w])
                  ELSE pending
    /\ stash' = IF opened THEN Keep(stash, Popup(w), stash[w]) ELSE stash
PopupBlocked(w) ==
  /\ paypend' = None
  /\ pending' = Keep(pending, w, Len(asked'))
  /\ Sent(w)
  /\ UNCHANGED stash
Buy(w) ==
  /\ Ready(w) /\ page[w].session # None
  /\ \E t \in Tier : Ask(t)
  /\ \/ OpenPopup(w) /\ CalmlyIf(TurnFree /\ page[w].step = "idle"
                                /\ page[Popup(w)].req = None)
     \/ PopupBlocked(w) /\ CalmlyIf(TurnFree /\ page[w].step = "idle")
  /\ UNCHANGED <<run, saved, store, claims, answered>>

\* disconnect, and the home's answer to ?ac_logout
Disconnect(w) ==
  /\ Trouble /\ Ready(w) /\ page[w].session # None
  /\ saved' = None
  /\ Show(w, [Closed EXCEPT !.at = "logout"])
  /\ UNCHANGED <<asked, past, run, paypend, store, pending, stash, claims,
                 answered>>
SignedOut(w) ==
  /\ page[w].at = "logout"
  /\ store' = Nobody
  /\ \E s \in Session :
       LoadSession(s) /\ CalmlyIf(s = saved) /\ Show(w, Explorer(s))
  /\ UNCHANGED <<asked, past, run, paypend, pending, stash, claims, answered>>

-----------------------------------------------------------------------------
(* The home: who is there *)

AtHome(w) == page[w].at = "home" /\ page[w].req # None
Choosing(w) == AtHome(w) /\ page[w].who = Nobody

\* loadPendingEnroll: a stash past its time is dropped
LoadStash(w, r) ==
  /\ r \in {stash[w], None}
  /\ stash' = Keep(stash, w, r)

Connected(r, inUrl, p) ==
  [HomePage(r, inUrl, p) EXCEPT
     !.just = TRUE, !.step = IF r = None THEN "idle" ELSE "authorize"]

\* signIn with a passkey or a wallet; the ceremony runs by itself
PickInline(w) ==
  /\ Choosing(w)
  /\ \E p \in Person :
       store' = p /\ Show(w, Connected(page[w].req, page[w].url, p))
  /\ Calmly
  /\ UNCHANGED <<asked, past, run, paypend, saved, pending, stash, claims,
                 answered>>

\* the page leaves for the identity provider
PickSocial(w) ==
  /\ Choosing(w)
  /\ stash' = Keep(stash, w, page[w].req)
  /\ Show(w, [Closed EXCEPT !.at = "idp", !.req = page[w].req])
  /\ Calmly
  /\ UNCHANGED <<asked, past, run, paypend, saved, store, pending, claims,
                 answered>>

\* exchangeCode on the way back, the request taken from the stash
SocialReturn(w) ==
  /\ page[w].at = "idp"
  /\ \E r \in RequestId \cup {None} :
       /\ LoadStash(w, r)
       /\ \/ \E p \in Person :
               /\ store' = p /\ Show(w, Connected(r, FALSE, p))
               /\ CalmlyIf(r = stash[w])
          \/ /\ Show(w, HomePage(r, FALSE, Nobody))
             /\ UNCHANGED store /\ Trouble
  /\ UNCHANGED <<asked, past, run, paypend, saved, pending, claims, answered>>

\* a home connected by this page shows no buttons
Deciding(w) ==
  /\ AtHome(w) /\ page[w].who # Nobody
  /\ page[w].step = "idle" /\ ~page[w].just

Approve(w) ==   \* "Try again" too
  /\ Deciding(w)
  /\ Show(w, [page[w] EXCEPT !.step = "authorize"])
  /\ Calmly
  /\ UNCHANGED <<asked, past, run, paypend, saved, store, pending, stash,
                 claims, answered>>

SwitchAccount(w) ==
  /\ Deciding(w)
  /\ store' = Nobody
  /\ stash' = Keep(stash, w, None)
  /\ Show(w, [page[w] EXCEPT !.who = Nobody])
  /\ Calmly
  /\ UNCHANGED <<asked, past, run, paypend, saved, pending, claims, answered>>

-----------------------------------------------------------------------------
(* The home: authorize *)

Doing(w, s) == page[w].at = "home" /\ page[w].step = s

\* the catch: a stale session is dropped and the request kept for the return
Failed(w) ==
  \/ /\ Show(w, [page[w] EXCEPT !.step = "idle", !.run = None])
     /\ UNCHANGED <<store, stash>>
  \/ /\ stash' = Keep(stash, w, page[w].req)
     /\ store' = Nobody
     /\ Show(w, [page[w] EXCEPT !.step = "idle", !.run = None,
                                !.who = Nobody, !.just = FALSE])

\* beginEnrollmentGrant and the site-login delegation signed, then, for a
\* purchase, runPayment: the treasury is charged
Begun(w, c) == Append(run, [req |-> page[w].req, who |-> page[w].who,
                            charged |-> c, code |-> "none"])
Charge(w) ==
  /\ Doing(w, "authorize") /\ asked[page[w].req] \in Tier
  /\ Len(run) < MaxRuns /\ run' = Begun(w, TRUE)
  /\ \/ /\ Show(w, [page[w] EXCEPT !.step = "submit", !.run = Len(run')])
        /\ UNCHANGED <<store, stash>> /\ Calmly
     \/ Failed(w) /\ Trouble
  /\ UNCHANGED <<asked, past, paypend, saved, pending, claims, answered>>
Granted(w) ==
  /\ Doing(w, "authorize") /\ asked[page[w].req] = "login"
  /\ Len(run) < MaxRuns /\ run' = Begun(w, FALSE)
  /\ Show(w, [page[w] EXCEPT !.step = "submit", !.run = Len(run')])
  /\ Calmly
  /\ UNCHANGED <<asked, past, paypend, saved, store, pending, stash, claims,
                 answered>>

\* submitEnrollGrant: the grant is traded for a code, which carries the
\* settlement; a passkey may then be offered before the code is delivered
Submit(w) ==
  /\ Doing(w, "submit")
  /\ run' = [run EXCEPT ![page[w].run].code = "live"]
  /\ \/ /\ Show(w, [page[w] EXCEPT !.step = "deliver"])
        /\ UNCHANGED <<store, stash>> /\ Calmly
     \/ Failed(w) /\ Trouble
  /\ UNCHANGED <<asked, past, paypend, saved, pending, claims, answered>>

Throw(w) ==
  /\ Trouble
  /\ \E s \in {"authorize", "submit"} : Doing(w, s)
  /\ Failed(w)
  /\ UNCHANGED <<asked, past, run, paypend, saved, pending, claims, answered>>

-----------------------------------------------------------------------------
(* Back at the Explorer *)

\* mutant of Returned: only the window's own cell is looked at
ReturnedToTab(w, s) ==
  IF pending[w] = page[w].req
  THEN [Explorer(s) EXCEPT !.step = "token", !.req = page[w].req,
                           !.run = page[w].run]
  ELSE Explorer(s)

\* who takes the code: the popup's cell first, then the window's own
Returned(w, s) ==
  LET r == page[w].req
      taken == [Explorer(s) EXCEPT !.step = "token", !.req = r,
                                   !.run = page[w].run] IN
    IF paypend = r THEN [taken EXCEPT !.popup = TRUE]
    ELSE IF pending[w] = r THEN taken
    ELSE Explorer(s)

\* mutant of Deliver: the stash is left behind
DeliverKeepsStash(w) ==
  /\ Doing(w, "deliver")
  /\ answered' = answered \cup {page[w].req}
  /\ \E s \in Session :
       LoadSession(s) /\ CalmlyIf(s = saved) /\ Show(w, Returned(w, s))
  /\ UNCHANGED <<asked, past, run, paypend, store, pending, claims, stash>>

\* returnToApp
Deliver(w) ==
  /\ Doing(w, "deliver")
  /\ stash' = Keep(stash, w, None)
  /\ answered' = answered \cup {page[w].req}
  /\ \E s \in Session :
       LoadSession(s) /\ CalmlyIf(s = saved) /\ Show(w, Returned(w, s))
  /\ UNCHANGED <<asked, past, run, paypend, store, pending, claims>>

Deny(w) ==
  /\ Deciding(w)
  /\ stash' = Keep(stash, w, None)
  /\ answered' = answered \cup {page[w].req}
  /\ \E s \in Session :
       LoadSession(s) /\ CalmlyIf(s = saved) /\ Show(w, Explorer(s))
  /\ UNCHANGED <<asked, past, run, paypend, store, pending, claims>>

\* a window that closes
Emptied(w) == /\ pending' = Keep(pending, w, None)
              /\ stash' = Keep(stash, w, None)
              /\ past' = Keep(past, w, {})

\* handlePayPopup ends: the cell is emptied, the window closed, and the other
\* windows told to load their session again; connectCallback ends
Ended(w, s) ==
  IF page[w].popup
  THEN /\ paypend' = None
       /\ page' = [v \in Window |->
            IF v = w THEN Closed
            ELSE IF Ready(v) THEN [page[v] EXCEPT !.session = saved']
            ELSE page[v]]
       /\ Emptied(w)
  ELSE /\ pending' = Keep(pending, w, None)
       /\ Show(w, Explorer(s))
       /\ UNCHANGED <<paypend, stash, past>>

\* mutant of Traded: a purchase signs the payer in
TradedForSession(w) ==
  /\ saved' = page[w].run
  /\ IF asked[page[w].req] = "login" THEN Ended(w, page[w].run)
     ELSE /\ Show(w, [page[w] EXCEPT !.step = "claim", !.session = page[w].run])
          /\ UNCHANGED <<paypend, pending, stash, past>>

\* /token, which takes a code once, and verifyIdToken; a login makes the
\* session, a purchase writes back the one the page holds
Traded(w) ==
  \/ /\ asked[page[w].req] = "login"
     /\ saved' = page[w].run
     /\ Ended(w, page[w].run)
  \/ /\ asked[page[w].req] \in Tier
     /\ saved' = IF page[w].session # None THEN page[w].session ELSE saved
     /\ Show(w, [page[w] EXCEPT !.step = "claim"])
     /\ UNCHANGED <<paypend, pending, stash, past>>
Finish(w) == UNCHANGED saved /\ Ended(w, page[w].session)
Token(w) ==
  /\ page[w].step = "token"
  /\ run' = [run EXCEPT ![page[w].run].code = "spent"]
  /\ \/ run[page[w].run].code = "live" /\ Traded(w) /\ Calmly
     \/ run[page[w].run].code = "live" /\ Finish(w) /\ Trouble
     \/ run[page[w].run].code = "spent" /\ Finish(w) /\ Calmly
  /\ UNCHANGED <<asked, store, claims, answered>>

\* a popup claims for whom the id_token names, a redirect for its session; with
\* no session it throws, and the error is swallowed
Claimant(w) ==
  IF page[w].popup THEN run[page[w].run].who
  ELSE IF page[w].session # None THEN run[page[w].session].who ELSE Nobody
\* mutant of Claimed: the tier is read from sa.paypend, and not from the answer
ClaimedAsPending(w) ==
  [run |-> page[w].run, by |-> Claimant(w), popup |-> page[w].popup,
   tier |-> asked[IF paypend = None THEN page[w].req ELSE paypend]]
Claimed(w) == [run |-> page[w].run, by |-> Claimant(w), popup |-> page[w].popup,
               tier |-> asked[page[w].req]]
\* mutant of Claim: a page without a session claims too
ClaimForAnybody(w) ==
  /\ page[w].step = "claim" /\ Calmly
  /\ claims' = Append(claims, Claimed(w))
  /\ Finish(w)
  /\ UNCHANGED <<asked, run, store, answered>>
Claim(w) ==
  /\ page[w].step = "claim"
  /\ \/ /\ Claimant(w) # Nobody /\ Calmly
        /\ claims' = Append(claims, Claimed(w))
     \/ UNCHANGED claims /\ CalmlyIf(Claimant(w) = Nobody)
  /\ Finish(w)
  /\ UNCHANGED <<asked, run, store, answered>>

-----------------------------------------------------------------------------
(* Windows reloaded, left and closed *)

Reload(w) ==
  /\ Trouble
  /\ \/ /\ page[w].at = "home"
        /\ \E r \in RequestId \cup {None} :
             /\ IF page[w].url THEN r = page[w].req /\ UNCHANGED stash
                ELSE LoadStash(w, r)
             /\ r # None /\ Show(w, HomePage(r, page[w].url, store))
        /\ UNCHANGED saved
     \/ /\ page[w].at = "app"
        /\ \E s \in Session :
             /\ LoadSession(s)
             /\ Show(w, IF page[w].popup THEN Returned(w, s) ELSE Explorer(s))
        /\ UNCHANGED stash
  /\ UNCHANGED <<asked, past, run, paypend, store, pending, claims, answered>>

\* a person comes to the home by themselves while a request is stashed
Visit(w) ==
  /\ Trouble /\ w[2] = "tab" /\ page[w].at = "app"
  /\ \E r \in RequestId : LoadStash(w, r) /\ Show(w, HomePage(r, FALSE, store))
  /\ UNCHANGED <<asked, past, run, paypend, saved, store, pending, claims,
                 answered>>

\* The browser's Back: the home, or the identity provider after it, was left by
\* location.href, so its URL is in the window's history and is read again as a
\* request, an answered one too.
Back(w) ==
  /\ Trouble /\ page[w].at # "closed"
  /\ \E r \in past[w] :
       Show(w, HomePage(r, TRUE, store)) /\ answered' = answered \ {r}
  /\ UNCHANGED <<asked, past, run, paypend, saved, store, pending, stash,
                 claims>>

Leave(w) ==
  /\ Trouble /\ page[w].at # "closed"
  /\ IF w[2] = "pop"
     THEN Show(w, Closed) /\ Emptied(w) /\ UNCHANGED saved
     ELSE /\ \E s \in Session : LoadSession(s) /\ Show(w, Explorer(s))
          /\ UNCHANGED <<pending, stash, past>>
  /\ UNCHANGED <<asked, run, paypend, store, claims, answered>>

-----------------------------------------------------------------------------

\* a browser somebody has signed in with; a tab may be open since before
PurchaseInit ==
  /\ asked = <<"login">> /\ saved = 1 /\ store \in Person
  /\ run = <<[req |-> 1, who |-> store, charged |-> FALSE, code |-> "spent"]>>
  /\ \E before \in SUBSET Tab :
       page = [w \in Window |->
         IF w[2] = "pop" THEN Closed
         ELSE Explorer(IF w[1] \in before THEN None ELSE saved)]
  /\ paypend = None
  /\ pending = [w \in Window |-> None]
  /\ stash = [w \in Window |-> None]
  /\ past = [w \in Window |-> {}]
  /\ claims = <<>> /\ answered = {1}
  /\ trouble = 0

PurchaseNext ==
  \E w \in Window :
    \/ Connect(w) \/ Buy(w) \/ Disconnect(w) \/ SignedOut(w)
    \/ PickInline(w) \/ PickSocial(w) \/ SocialReturn(w)
    \/ Approve(w) \/ SwitchAccount(w)
    \/ Charge(w) \/ Granted(w) \/ Submit(w) \/ Throw(w)
    \/ Deliver(w) \/ Deny(w) \/ Token(w) \/ Claim(w)
    \/ Reload(w) \/ Visit(w) \/ Back(w) \/ Leave(w)

PurchaseSpec == PurchaseInit /\ [][PurchaseNext]_purchaseVars

-----------------------------------------------------------------------------
(* Properties *)

PurchaseTypeOK ==
  /\ asked \in Seq(Tier \cup {"login"}) /\ Len(asked) <= MaxRequests
  /\ run \in Seq(Authorization) /\ Len(run) <= MaxRuns
  /\ paypend \in RequestId \cup {None} /\ saved \in Session
  /\ store \in Person \cup {Nobody}
  /\ pending \in [Window -> RequestId \cup {None}]
  /\ stash \in [Window -> RequestId \cup {None}]
  /\ past \in [Window -> SUBSET RequestId]
  /\ page \in [Window -> Page]
  /\ claims \in Seq([run : Run, by : Person, popup : BOOLEAN, tier : Tier])
  /\ answered \subseteq RequestId /\ trouble \in 0..MaxTrouble

\* What is claimed was bought: the charge behind a claim was made for a request
\* of the tier that is claimed, whatever the windows wrote over each other's
\* sa.paypend meanwhile, and no charge is claimed twice, not by a popup that is
\* reloaded half way (ui.ts:484-508, 563-591).
ClaimIsPurchase ==
  \A i \in DOMAIN claims : LET c == claims[i] IN
    /\ run[c.run].charged /\ asked[run[c.run].req] = c.tier
    /\ \A j \in DOMAIN claims : claims[j].run = c.run => j = i

\* The Explorer knows a person because they answered a request to sign in:
\* every session, stored or in a page, comes from an authorization of a login
\* whose code was traded; a purchase changes nobody's session for the payer's
\* (ui.ts:497, 575, 590).
SessionIsAsked ==
  \A s \in ({saved} \cup {page[w].session : w \in Window}) \ {None} :
    asked[run[s].req] = "login" /\ run[s].code = "spent"

\* While all is calm (nothing fails, nobody leaves or goes back, popup purchases
\* take turns and send no busy popup away) a charge is never lost between the
\* home and the pass: it is claimed, or a window carries it on its way to the
\* claim; and no request is charged twice (AuthorizeCeremony.tsx:131-197,
\* ui.ts:490-508, 632-636).
NothingLost ==
  trouble = 0 => \A n \in DOMAIN run : run[n].charged =>
    /\ \/ \E i \in DOMAIN claims : claims[i].run = n
       \/ \E w \in Window : page[w].run = n
    /\ \A m \in DOMAIN run : run[m].req = run[n].req => m = n

\* A request that was delivered or denied comes back by the person's Back and by
\* nothing else.  Until somebody goes back to its URL no window of the home shows
\* it: not on the way back from an identity provider, reloaded or visited, nor
\* with an older stash after leaving; the home by itself never offers to charge
\* it again (enroll.ts:77-99, AuthorizeCeremony.tsx:68).  Back does show it
\* again, and what is approved then is charged once more.
AnsweredIsOver ==
  \A w \in Window :
    page[w].at \in {"home", "idp"} => page[w].req \notin answered
=============================================================================
