------------------------- MODULE Passes_proofs ------------------------------
(***************************************************************************)
(* Proofs about passes, for every value of the constants: how a pass is    *)
(* bought and claimed across the windows of a browser (Purchase), and how  *)
(* its reads are then metered (PassLedger).  The invariant of Purchase:    *)
(* every page, authorization, session and claim is accounted for; no two   *)
(* windows carry one authorization or may show one request; and in calm    *)
(* the window, the cells and the claims between them keep every charge.    *)
(***************************************************************************)
EXTENDS Purchase, PassLedger, FiniteSetTheorems, TLAPS

\* The types of everything but the windows' histories.
BrowserTyped ==
  /\ asked \in Seq(Tier \cup {"login"}) /\ Len(asked) <= MaxRequests
  /\ run \in Seq(Authorization) /\ Len(run) <= MaxRuns
  /\ paypend \in RequestId \cup {None} /\ saved \in Session
  /\ store \in Person \cup {Nobody}
  /\ pending \in [Window -> RequestId \cup {None}]
  /\ stash \in [Window -> RequestId \cup {None}]
  /\ page \in [Window -> Page]
  /\ claims \in Seq([run : Run, by : Person, popup : BOOLEAN, tier : Tier])
  /\ answered \subseteq RequestId /\ trouble \in 0..MaxTrouble

\* A session was signed in to: it is a run of a login whose code was traded.
SignedIn(s) ==
  s # None => /\ s <= Len(run) /\ asked[run[s].req] = "login"
              /\ run[s].code = "spent"

\* A page's place, step, request and authorization agree.
PageShaped(p) ==
  /\ p.at \in {"closed", "logout"} => p.req = None
  /\ p.at \in {"closed", "logout", "idp"} => p.step = "idle"
  /\ p.at = "app" /\ p.req # None => p.step # "idle"
  /\ p.url => p.at = "home"
  /\ p.step \in {"authorize", "submit", "deliver"} =>
       p.at = "home" /\ p.req # None /\ p.who # Nobody
  /\ p.step \in {"token", "claim"} => p.at = "app" /\ p.req # None
  /\ p.popup => p.step \in {"token", "claim"}
  /\ p.run = None <=> p.step \in {"idle", "authorize"}

\* The authorization a page carries is its request's, and as far as its step.
PageBooked(p) ==
  /\ p.req <= Len(asked) /\ p.run <= Len(run) /\ SignedIn(p.session)
  /\ p.run # None => run[p.run].req = p.req
  /\ p.step = "submit" => run[p.run].code = "none"
  /\ p.step = "deliver" => run[p.run].code = "live"
  /\ p.step = "token" => run[p.run].code # "none"
  /\ p.step = "claim" => run[p.run].code = "spent" /\ asked[p.req] \in Tier

RunsBooked ==
  \A n \in 1..Len(run) :
    run[n].req <= Len(asked) /\ run[n].charged = (asked[run[n].req] \in Tier)

ClaimBooked(c) ==
  /\ c.run <= Len(run) /\ run[c.run].charged /\ run[c.run].code = "spent"
  /\ asked[run[c.run].req] = c.tier
  /\ \A w \in Window : page[w].step = "claim" => page[w].run # c.run

\* No two windows carry one authorization, no two claims are for one.
RunsApart ==
  /\ \A v, w \in Window : page[v].run # None /\ page[v].run = page[w].run => v = w
  /\ \A i, j \in 1..Len(claims) : claims[i].run = claims[j].run => i = j

\* Window w may yet show request r at the home.  A popup that shows what it
\* was opened for has a copy of its opener's stash, which it never looks at.
MayShow(w, r) ==
  /\ r # None
  /\ \/ page[w].at \in {"home", "idp"} /\ page[w].req = r
     \/ stash[w] = r /\ (w[2] = "tab" \/ ~page[w].url)

RequestsApart ==
  \A w \in Window, r \in RequestId : MayShow(w, r) =>
    /\ r \notin answered
    /\ \A v \in Window : MayShow(v, r) => v = w

\* No step but a new request and a Back gives a window something to show.
NothingNew ==
  \A v \in Window, r \in RequestId : MayShow(v, r)' => MayShow(v, r)

\* A request in a window's history is in no other's, and no other may show it.
HistoriesApart ==
  /\ past \in [Window -> SUBSET RequestId]
  /\ \A w \in Window : \A r \in past[w] :
       /\ r <= Len(asked)
       /\ \A v \in Window : MayShow(v, r) \/ r \in past[v] => v = w

Stashed ==
  \A w \in Window :
    stash[w] <= Len(asked) /\ (page[w].at = "idp" => stash[w] = page[w].req)

\* What holds as long as nothing fails, and so on: no request is lost track of.
CalmPage(w) ==
  LET p == page[w] IN
  /\ p.req # None => paypend = p.req \/ pending[w] = p.req
  /\ p.popup => paypend = p.req
  /\ p.run = None /\ p.req # None => \A n \in 1..Len(run) : run[n].req # p.req
  /\ p.step = "token" => run[p.run].code = "live"
  /\ p.step \in {"token", "claim"} => p.session # None
Carried(n) == \/ \E i \in 1..Len(claims) : claims[i].run = n
              \/ \E w \in Window : page[w].run = n
AllInCalm ==
  /\ saved # None
  /\ \A w \in Window : CalmPage(w)
  /\ \A v, w \in Window : page[v].req # None /\ page[v].req = page[w].req => v = w
  /\ \A m, n \in 1..Len(run) : run[m].req = run[n].req => m = n
  /\ \A n \in 1..Len(run) : run[n].charged => Carried(n)

PurchaseInv ==
  /\ BrowserTyped
  /\ \A w \in Window : PageShaped(page[w]) /\ PageBooked(page[w])
  /\ SignedIn(saved) /\ RunsBooked /\ RunsApart
  /\ \A i \in 1..Len(claims) : ClaimBooked(claims[i])
  /\ answered \subseteq 1..Len(asked) /\ Stashed /\ RequestsApart
  /\ trouble = 0 => AllInCalm

-----------------------------------------------------------------------------
(* The histories, as sequences *)

LEMMA PurchaseFacts ==
  /\ MaxRequests \in Nat /\ MaxRuns \in Nat /\ MaxTrouble \in Nat
  /\ 1 \in RequestId /\ 1 \in Run /\ 0 \notin RequestId /\ 0 \notin Run /\ None = 0
  /\ Nobody \notin Person /\ "login" \notin Tier
BY PurchaseConstants DEF RequestId, Run, None

LEMMA SeqFacts ==
  ASSUME NEW S, NEW s \in Seq(S)
  PROVE  Len(s) \in Nat /\ \A i \in 1..Len(s) : s[i] \in S
OBVIOUS

LEMMA AppendIs ==
  ASSUME NEW S, NEW s \in Seq(S), NEW e \in S
  PROVE  /\ Append(s, e) \in Seq(S) /\ Len(Append(s, e)) = Len(s) + 1
         /\ \A i \in 1..Len(s) : Append(s, e)[i] = s[i]
         /\ Append(s, e)[Len(s) + 1] = e
OBVIOUS

LEMMA ExceptIs ==
  ASSUME NEW S, NEW s \in Seq(S), NEW k \in 1..Len(s), NEW e \in S
  PROVE  /\ [s EXCEPT ![k] = e] \in Seq(S) /\ Len([s EXCEPT ![k] = e]) = Len(s)
         /\ \A i \in 1..Len(s) : i # k => [s EXCEPT ![k] = e][i] = s[i]
         /\ [s EXCEPT ![k] = e][k] = e
OBVIOUS

ClaimRecord == [run : Run, by : Person, popup : BOOLEAN, tier : Tier]

LEMMA HistoryFacts ==
  ASSUME BrowserTyped
  PROVE  /\ Len(asked) \in Nat /\ Len(run) \in Nat /\ Len(claims) \in Nat
         /\ \A r \in 1..Len(asked) : r \in RequestId /\ asked[r] \in Tier \cup {"login"}
         /\ \A n \in 1..Len(run) : n \in Run /\ run[n] \in Authorization
         /\ \A i \in 1..Len(claims) : claims[i] \in ClaimRecord
<1>1. asked \in Seq(Tier \cup {"login"}) /\ run \in Seq(Authorization)
      /\ claims \in Seq(ClaimRecord)
      /\ Len(asked) <= MaxRequests /\ Len(run) <= MaxRuns
  BY DEF BrowserTyped, ClaimRecord
<1>2. /\ Len(asked) \in Nat /\ Len(run) \in Nat /\ Len(claims) \in Nat
      /\ \A r \in 1..Len(asked) : asked[r] \in Tier \cup {"login"}
      /\ \A n \in 1..Len(run) : run[n] \in Authorization
      /\ \A i \in 1..Len(claims) : claims[i] \in ClaimRecord
  BY <1>1, SeqFacts
<1>3. 1..Len(asked) \subseteq RequestId /\ 1..Len(run) \subseteq Run
  BY <1>1, <1>2, PurchaseFacts DEF RequestId, Run
<1> QED BY <1>2, <1>3

LEMMA AskIs ==
  ASSUME BrowserTyped, NEW what \in Tier \cup {"login"}, Ask(what)
  PROVE  /\ asked' \in Seq(Tier \cup {"login"})
         /\ Len(asked') = Len(asked) + 1 /\ Len(asked') \in RequestId
         /\ \A r \in 1..Len(asked) : asked'[r] = asked[r]
         /\ asked'[Len(asked')] = what
<1>1. /\ asked \in Seq(Tier \cup {"login"}) /\ asked' = Append(asked, what)
      /\ Len(asked) < MaxRequests
  BY DEF BrowserTyped, Ask
<1>2. Len(asked) \in Nat /\ Len(asked) + 1 \in RequestId
  BY <1>1, SeqFacts, PurchaseFacts DEF RequestId
<1> QED BY <1>1, <1>2, AppendIs

LEMMA BeginIs ==
  ASSUME BrowserTyped, NEW a \in Authorization, Len(run) < MaxRuns,
         run' = Append(run, a)
  PROVE  /\ run' \in Seq(Authorization)
         /\ Len(run') = Len(run) + 1 /\ Len(run') \in Run
         /\ \A n \in 1..Len(run) : run'[n] = run[n]
         /\ run'[Len(run')] = a
<1>1. run \in Seq(Authorization) BY DEF BrowserTyped
<1>2. Len(run) \in Nat /\ Len(run) + 1 \in Run
  BY <1>1, SeqFacts, PurchaseFacts DEF Run
<1> QED BY <1>1, <1>2, AppendIs

LEMMA CodeType ==
  ASSUME NEW a \in Authorization, NEW c \in {"none", "live", "spent"}
  PROVE  /\ [a EXCEPT !.code = c] \in Authorization
         /\ [a EXCEPT !.code = c].code = c /\ [a EXCEPT !.code = c].req = a.req
         /\ [a EXCEPT !.code = c].who = a.who
         /\ [a EXCEPT !.code = c].charged = a.charged
BY DEF Authorization

LEMMA CodeIs ==
  ASSUME BrowserTyped, NEW k \in 1..Len(run), NEW c \in {"none", "live", "spent"},
         run' = [run EXCEPT ![k].code = c]
  PROVE  /\ run' \in Seq(Authorization) /\ Len(run') = Len(run)
         /\ \A n \in 1..Len(run) : n # k => run'[n] = run[n]
         /\ run'[k].code = c /\ run'[k].req = run[k].req
         /\ run'[k].charged = run[k].charged
<1>1. run[k] \in Authorization BY HistoryFacts
<1>2. PICK a \in Authorization : a = [run[k] EXCEPT !.code = c] BY <1>1, CodeType
<1>3. run' = [run EXCEPT ![k] = a] BY <1>2
<1>4. run \in Seq(Authorization) BY DEF BrowserTyped
<1>5. /\ run' \in Seq(Authorization) /\ Len(run') = Len(run)
      /\ \A n \in 1..Len(run) : n # k => run'[n] = run[n]
      /\ run'[k] = a
  BY <1>3, <1>4, ExceptIs
<1> QED BY <1>1, <1>2, <1>5, CodeType

LEMMA ClaimIs ==
  ASSUME BrowserTyped, NEW c \in ClaimRecord, claims' = Append(claims, c)
  PROVE  /\ claims' \in Seq(ClaimRecord) /\ Len(claims') = Len(claims) + 1
         /\ \A i \in 1..Len(claims) : claims'[i] = claims[i]
         /\ claims'[Len(claims')] = c
<1>1. claims \in Seq(ClaimRecord) BY DEF BrowserTyped, ClaimRecord
<1> QED BY <1>1, AppendIs

-----------------------------------------------------------------------------
(* What a step leaves as it was *)

LEMMA LaterLengths ==
  ASSUME BrowserTyped'
  PROVE  Len(asked') \in Nat /\ Len(run') \in Nat /\ Len(claims') \in Nat
<1>1. asked' \in Seq(Tier \cup {"login"}) /\ run' \in Seq(Authorization)
      /\ claims' \in Seq(ClaimRecord)
  BY DEF BrowserTyped, ClaimRecord
<1> QED BY <1>1, SeqFacts

\* The histories only grow; only the code of run k changes, and never back.
Grown(k) ==
  /\ Len(asked) <= Len(asked') /\ Len(run) <= Len(run')
  /\ \A r \in 1..Len(asked) : asked'[r] = asked[r]
  /\ \A n \in 1..Len(run) :
       /\ run'[n].req = run[n].req /\ run'[n].charged = run[n].charged
       /\ run[n].code = "spent" => run'[n].code = "spent"
       /\ n # k => run'[n].code = run[n].code

LEMMA SameIsGrown ==
  ASSUME BrowserTyped, UNCHANGED <<asked, run>>
  PROVE  Grown(None)
BY HistoryFacts DEF Grown

LEMMA InvParts ==
  ASSUME PurchaseInv
  PROVE  /\ BrowserTyped /\ RunsBooked /\ RunsApart /\ Stashed /\ RequestsApart
         /\ SignedIn(saved) /\ answered \subseteq 1..Len(asked)
         /\ \A w \in Window : /\ page[w] \in Page /\ PageShaped(page[w])
                              /\ PageBooked(page[w])
         /\ \A i \in 1..Len(claims) : ClaimBooked(claims[i])
         /\ trouble = 0 => AllInCalm
<1>1. page \in [Window -> Page] BY DEF PurchaseInv, BrowserTyped
<1> QED BY <1>1 DEF PurchaseInv

LEMMA SignedInKept ==
  ASSUME BrowserTyped, BrowserTyped', RunsBooked, NEW k, Grown(k),
         NEW s \in Session, SignedIn(s)
  PROVE  SignedIn(s)'
<1>1. CASE s = None BY <1>1 DEF SignedIn
<1>2. CASE s # None
  <2>1. s \in 1..Len(run) /\ asked[run[s].req] = "login" /\ run[s].code = "spent"
    BY <1>2, HistoryFacts DEF SignedIn, Session, Run
  <2>2. run[s].req \in 1..Len(asked)
    BY <2>1, HistoryFacts DEF RunsBooked, Authorization, RequestId
  <2>3. /\ run'[s].req = run[s].req /\ run'[s].code = "spent"
        /\ asked'[run[s].req] = asked[run[s].req] /\ s <= Len(run')
    BY <2>1, <2>2, HistoryFacts, LaterLengths DEF Grown
  <2> QED BY <2>1, <2>3 DEF SignedIn
<1> QED BY <1>1, <1>2

LEMMA PageBookedKept ==
  ASSUME BrowserTyped, BrowserTyped', RunsBooked, NEW k, Grown(k),
         NEW p \in Page, PageShaped(p), PageBooked(p), p.run = None \/ p.run # k
  PROVE  PageBooked(p)'
<1>1. SignedIn(p.session)'
  <2>1. PICK s \in Session : s = p.session BY DEF Page
  <2>2. SignedIn(s)' BY <2>1, SignedInKept DEF PageBooked
  <2> QED BY <2>1, <2>2
<1>2. p.req <= Len(asked') /\ p.run <= Len(run')
  BY HistoryFacts, LaterLengths, PurchaseFacts DEF Grown, PageBooked, Page, RequestId, Run
<1>3. CASE p.run = None
  BY <1>1, <1>2, <1>3 DEF PageBooked, PageShaped
<1>4. CASE p.run # None
  <2>1. p.run \in 1..Len(run) /\ p.req \in 1..Len(asked)
    BY <1>4, HistoryFacts, PurchaseFacts DEF PageBooked, PageShaped, Page, Run, RequestId
  <2>2. /\ run'[p.run].req = run[p.run].req /\ run'[p.run].code = run[p.run].code
        /\ asked'[p.req] = asked[p.req]
    BY <1>4, <2>1 DEF Grown
  <2> QED BY <1>1, <1>2, <1>4, <2>2 DEF PageBooked
<1> QED BY <1>3, <1>4

\* A step that gives window w page p.
LEMMA PagesKept ==
  ASSUME PurchaseInv, BrowserTyped', NEW k, Grown(k), NEW w \in Window, NEW p \in Page,
         page' = [page EXCEPT ![w] = p], PageShaped(p), PageBooked(p)',
         \A v \in Window \ {w} : page[v].run = None \/ page[v].run # k
  PROVE  \A v \in Window : PageShaped(page[v])' /\ PageBooked(page[v])'
<1> SUFFICES ASSUME NEW v \in Window PROVE PageShaped(page[v])' /\ PageBooked(page[v])'
  OBVIOUS
<1>1. page \in [Window -> Page] BY DEF PurchaseInv, BrowserTyped
<1>2. CASE v = w
  <2>1. page'[v] = p BY <1>1, <1>2
  <2> QED BY <2>1 DEF PageBooked, PageShaped, SignedIn
<1>3. CASE v # w
  <2>1. PICK x \in Page : x = page[v] BY <1>1
  <2>2. page'[v] = x BY <1>1, <1>3, <2>1
  <2>3. PageShaped(x) /\ PageBooked(x)' BY <1>3, <2>1, PageBookedKept, InvParts
  <2> QED BY <2>2, <2>3 DEF PageBooked, PageShaped, SignedIn
<1> QED BY <1>2, <1>3

-----------------------------------------------------------------------------
(* Quiet steps: window w turns to page p, with s in its stash, and answers   *)
(* the requests of d; nothing is asked, begun, traded or claimed.            *)

QuietTurn(w, p, s, d) ==
  /\ page' = [page EXCEPT ![w] = p] /\ stash' = [stash EXCEPT ![w] = s]
  /\ UNCHANGED <<asked, run, claims, paypend>>
  /\ pending' \in [Window -> RequestId \cup {None}]
  /\ saved' \in {saved, None} /\ store' \in Person \cup {Nobody}
  /\ answered' = answered \cup d
  /\ trouble' \in 0..MaxTrouble

\* p, s and d are for window w: nothing is made up.
Honest(w, p, s, d) ==
  /\ PageShaped(p) /\ PageBooked(p)
  /\ p.run \in {None, page[w].run} /\ (p.step = "claim" => page[w].step = "claim")
  /\ s <= Len(asked) /\ (p.at = "idp" => s = p.req)
  /\ \A r \in d : MayShow(w, r)
  /\ p.at \in {"home", "idp"} /\ p.req # None => MayShow(w, p.req) /\ p.req \notin d
  /\ s # None /\ (w[2] = "tab" \/ ~p.url) => MayShow(w, s) /\ s \notin d

LEMMA QuietType ==
  ASSUME BrowserTyped, NEW w \in Window, NEW p \in Page,
         NEW s \in RequestId \cup {None}, NEW d \in SUBSET RequestId,
         QuietTurn(w, p, s, d)
  PROVE  BrowserTyped'
<1>1. page' \in [Window -> Page] /\ stash' \in [Window -> RequestId \cup {None}]
  BY DEF BrowserTyped, QuietTurn
<1>2. saved' \in Session BY DEF BrowserTyped, QuietTurn, Session
<1>3. answered' \subseteq RequestId BY DEF BrowserTyped, QuietTurn
<1>4. /\ asked' = asked /\ run' = run /\ claims' = claims /\ paypend' = paypend
      /\ pending' \in [Window -> RequestId \cup {None}]
      /\ store' \in Person \cup {Nobody} /\ trouble' \in 0..MaxTrouble
  BY DEF QuietTurn
<1> QED BY <1>1, <1>2, <1>3, <1>4 DEF BrowserTyped

LEMMA QuietStep ==
  ASSUME PurchaseInv, NEW w \in Window, NEW p \in Page,
         NEW s \in RequestId \cup {None}, NEW d \in SUBSET RequestId,
         QuietTurn(w, p, s, d), Honest(w, p, s, d),
         trouble' = 0 => AllInCalm'
  PROVE  PurchaseInv' /\ NothingNew
<1>1. BrowserTyped' /\ Grown(None)
  <2>1. UNCHANGED <<asked, run>> BY DEF QuietTurn
  <2> QED BY <2>1, QuietType, SameIsGrown, InvParts
<1>2. /\ page \in [Window -> Page] /\ stash \in [Window -> RequestId \cup {None}]
      /\ answered \subseteq RequestId
  BY InvParts DEF BrowserTyped
<1>3. /\ page' = [page EXCEPT ![w] = p] /\ stash' = [stash EXCEPT ![w] = s]
      /\ page'[w] = p /\ stash'[w] = s
      /\ \A v \in Window : v # w => page'[v] = page[v] /\ stash'[v] = stash[v]
      /\ asked' = asked /\ run' = run /\ claims' = claims
      /\ answered' = answered \cup d
  BY <1>2 DEF QuietTurn
<1>4. \A v \in Window : PageShaped(page[v])' /\ PageBooked(page[v])'
  <2>1. PageBooked(p)' BY <1>3 DEF Honest, PageBooked, SignedIn
  <2>2. \A v \in Window \ {w} : page[v].run = None \/ page[v].run # None OBVIOUS
  <2> QED BY <1>1, <1>3, <2>1, <2>2, PagesKept DEF Honest
<1>5. SignedIn(saved)' /\ RunsBooked'
  BY <1>3, InvParts DEF QuietTurn, SignedIn, RunsBooked
<1>6. RunsApart'
  <2>1. \A v \in Window : page'[v].run # None => page'[v].run = page[v].run
    BY <1>3 DEF Honest
  <2> QED BY <1>3, <2>1, InvParts DEF RunsApart
<1>7. ASSUME NEW i \in 1..Len(claims) PROVE ClaimBooked(claims[i])'
  <2>1. \A v \in Window : page'[v].step = "claim" =>
           page[v].step = "claim" /\ page'[v].run = page[v].run
    BY <1>3 DEF Honest, PageShaped
  <2>2. ClaimBooked(claims[i]) BY InvParts
  <2> QED BY <1>3, <2>1, <2>2 DEF ClaimBooked
<1>8. Stashed'
  BY <1>3, InvParts DEF Stashed, Honest
<1>9. d \subseteq 1..Len(asked)
  <2>1. \A r \in d : r \in Nat /\ r >= 1 /\ MayShow(w, r)
    BY PurchaseFacts DEF Honest, RequestId
  <2>2. page[w].req <= Len(asked) /\ stash[w] <= Len(asked)
    BY InvParts DEF PageBooked, Stashed
  <2> QED BY <2>1, <2>2, InvParts, HistoryFacts DEF MayShow
<1>10. \A v \in Window, r \in RequestId : MayShow(v, r)' => MayShow(v, r) /\ r \notin d
  <2> SUFFICES ASSUME NEW v \in Window, NEW r \in RequestId, MayShow(v, r)'
               PROVE  MayShow(v, r) /\ r \notin d
    OBVIOUS
  <2>1. CASE v = w BY <1>3, <2>1 DEF MayShow, Honest
  <2>2. CASE v # w
    <3>1. MayShow(v, r) BY <1>3, <2>2 DEF MayShow
    <3>2. ~MayShow(w, r) BY <2>2, <3>1, InvParts DEF RequestsApart
    <3> QED BY <3>1, <3>2 DEF Honest
  <2> QED BY <2>1, <2>2
<1>11. RequestsApart'
  <2>2. \A v \in Window, r \in RequestId : MayShow(v, r) =>
          r \notin answered /\ \A u \in Window : MayShow(u, r) => u = v
    BY InvParts DEF RequestsApart
  <2>3. \A v \in Window, r \in RequestId : MayShow(v, r)' =>
          r \notin answered' /\ \A u \in Window : MayShow(u, r)' => u = v
    BY <1>3, <1>10, <2>2
  <2> QED BY <2>3 DEF RequestsApart
<1>12. NothingNew BY <1>10 DEF NothingNew
<1> QED BY <1>1, <1>3, <1>4, <1>5, <1>6, <1>7, <1>8, <1>9, <1>11, <1>12, InvParts
        DEF PurchaseInv

\* The same in calm: the window keeps its authorization and its request, or
\* lets go of the request.
LEMMA QuietCalm ==
  ASSUME PurchaseInv, AllInCalm, NEW w \in Window, NEW p \in Page,
         page' = [page EXCEPT ![w] = p],
         UNCHANGED <<asked, run, claims, paypend, pending>>, saved' # None,
         p.req \in {None, page[w].req}, p.run = page[w].run,
         p.popup => paypend = p.req,
         p.step = "token" => run[p.run].code = "live",
         p.step \in {"token", "claim"} => p.session # None
  PROVE  AllInCalm'
<1>1. page \in [Window -> Page] BY InvParts DEF BrowserTyped
<1>2. /\ page'[w] = p
      /\ \A v \in Window : v # w => page'[v] = page[v]
  BY <1>1
<1>3. ASSUME NEW v \in Window PROVE CalmPage(v)'
  <2>1. CalmPage(v) BY DEF AllInCalm
  <2>2. CASE v = w BY <1>2, <2>1, <2>2 DEF CalmPage
  <2>3. CASE v # w BY <1>2, <2>1, <2>3 DEF CalmPage
  <2> QED BY <2>2, <2>3
<1>4. \A v \in Window : /\ page'[v].req \in {None, page[v].req}
                        /\ page'[v].run = page[v].run
  BY <1>2
<1>5. \A v, u \in Window : page'[v].req # None /\ page'[v].req = page'[u].req => v = u
  BY <1>4 DEF AllInCalm
<1>6. \A n \in 1..Len(run) : Carried(n) => Carried(n)'
  BY <1>4 DEF Carried
<1> QED BY <1>3, <1>5, <1>6 DEF AllInCalm

-----------------------------------------------------------------------------
(* The pages windows turn to *)

LEMMA ExplorerIs ==
  ASSUME NEW s \in Session
  PROVE  /\ Explorer(s) \in Page /\ PageShaped(Explorer(s))
         /\ Explorer(s).at = "app" /\ Explorer(s).req = None /\ ~Explorer(s).url
         /\ Explorer(s).session = s /\ Explorer(s).run = None
         /\ Explorer(s).step = "idle" /\ ~Explorer(s).popup
BY DEF Explorer, Closed, Page, PageShaped, Session, None

LEMMA HomeIs ==
  ASSUME NEW r \in RequestId \cup {None}, NEW u \in BOOLEAN,
         NEW q \in Person \cup {Nobody}
  PROVE  /\ HomePage(r, u, q) \in Page /\ PageShaped(HomePage(r, u, q))
         /\ HomePage(r, u, q).at = "home" /\ HomePage(r, u, q).req = r
         /\ HomePage(r, u, q).url = u
         /\ HomePage(r, u, q).session = None /\ HomePage(r, u, q).run = None
         /\ HomePage(r, u, q).step = "idle" /\ ~HomePage(r, u, q).popup
BY DEF HomePage, Closed, Page, PageShaped, Session, None

LEMMA ConnectedIs ==
  ASSUME NEW r \in RequestId \cup {None}, NEW u \in BOOLEAN, NEW q \in Person
  PROVE  /\ Connected(r, u, q) \in Page /\ PageShaped(Connected(r, u, q))
         /\ Connected(r, u, q).at = "home" /\ Connected(r, u, q).req = r
         /\ Connected(r, u, q).url = u
         /\ Connected(r, u, q).session = None /\ Connected(r, u, q).run = None
         /\ Connected(r, u, q).step \in {"idle", "authorize"}
         /\ ~Connected(r, u, q).popup
<1>1. q # Nobody BY PurchaseFacts
<1> QED BY <1>1 DEF Connected, HomePage, Closed, Page, PageShaped, Session, None

LEMMA ElsewhereIs ==
  ASSUME NEW a \in {"closed", "logout"}
  PROVE  LET p == [Closed EXCEPT !.at = a] IN
         /\ p \in Page /\ PageShaped(p) /\ p.at = a /\ p.req = None /\ ~p.url
         /\ p.session = None /\ p.run = None /\ p.step = "idle" /\ ~p.popup
BY DEF Closed, Page, PageShaped, Session, None

LEMMA ClosedIs ==
  /\ Closed \in Page /\ PageShaped(Closed) /\ Closed.at = "closed"
  /\ Closed.req = None /\ ~Closed.url /\ Closed.session = None
  /\ Closed.run = None /\ Closed.step = "idle" /\ ~Closed.popup
BY DEF Closed, Page, PageShaped, Session, None

LEMMA AwayIs ==
  ASSUME NEW r \in RequestId
  PROVE  LET p == [Closed EXCEPT !.at = "idp", !.req = r] IN
         /\ p \in Page /\ PageShaped(p) /\ p.at = "idp" /\ p.req = r /\ ~p.url
         /\ p.session = None /\ p.run = None /\ p.step = "idle" /\ ~p.popup
BY DEF Closed, Page, PageShaped, Session, None

\* A page without authorization is booked when its request and session are.
LEMMA IdleBooked ==
  ASSUME NEW p \in Page, p.run = None, p.step \in {"idle", "authorize"},
         p.req <= Len(asked), SignedIn(p.session), BrowserTyped
  PROVE  PageBooked(p)
BY HistoryFacts, PurchaseFacts DEF PageBooked

LEMMA NoSession == SignedIn(None)
BY DEF SignedIn

LEMMA StashSame ==
  ASSUME BrowserTyped, NEW w \in Window
  PROVE  /\ stash = [stash EXCEPT ![w] = stash[w]]
         /\ stash[w] \in RequestId \cup {None}
         /\ pending \in [Window -> RequestId \cup {None}]
         /\ Keep(pending, w, None) \in [Window -> RequestId \cup {None}]
         /\ saved \in Session /\ store \in Person \cup {Nobody}
         /\ trouble \in 0..MaxTrouble
BY DEF BrowserTyped, Keep

LEMMA TroubleIs ==
  ASSUME BrowserTyped
  PROVE  /\ Trouble => trouble' \in 0..MaxTrouble /\ trouble' # 0
         /\ Calmly => trouble' \in 0..MaxTrouble /\ trouble' = trouble
BY PurchaseFacts DEF BrowserTyped, Trouble, Calmly

\* A window turns to the Explorer: nothing of it is shown at the home but what
\* its stash still has.
LEMMA ExplorerHonest ==
  ASSUME PurchaseInv, NEW w \in Window, NEW s \in Session, s \in {saved, None},
         NEW k \in {stash[w], None}, NEW d \in SUBSET RequestId,
         \A r \in d : MayShow(w, r),
         k # None => d = {} /\ (w[2] = "tab" \/ ~page[w].url)
  PROVE  Honest(w, Explorer(s), k, d)
<1>1. PageBooked(Explorer(s))
  <2>1. SignedIn(s) BY InvParts, NoSession
  <2> QED BY <2>1, ExplorerIs, IdleBooked, InvParts, HistoryFacts, PurchaseFacts
<1>2. k <= Len(asked)
  BY InvParts, HistoryFacts, PurchaseFacts DEF Stashed
<1>3. k # None => MayShow(w, k) /\ k \notin d
  BY DEF MayShow
<1> QED BY <1>1, <1>2, <1>3, ExplorerIs DEF Honest

\* A window at the home turns to another page of the home for its request.
LEMMA HomeHonest ==
  ASSUME PurchaseInv, NEW w \in Window, NEW p \in Page, PageShaped(p),
         page[w].at \in {"home", "idp"}, p.at \in {"home", "idp"}, p.req = page[w].req,
         p.run = None, p.session = None,
         NEW k \in {stash[w], None, page[w].req}, p.at = "idp" => k = p.req,
         k # None /\ k # page[w].req => w[2] = "tab" \/ (~p.url => ~page[w].url)
  PROVE  Honest(w, p, k, {})
<1>1. p.step \in {"idle", "authorize"} BY DEF PageShaped
<1>2. PageBooked(p)
  BY <1>1, NoSession, IdleBooked, InvParts DEF PageBooked
<1>3. k <= Len(asked)
  BY InvParts, HistoryFacts, PurchaseFacts DEF Stashed, PageBooked
<1>4. p.req # None => MayShow(w, p.req) BY DEF MayShow
<1>5. k # None /\ (w[2] = "tab" \/ ~p.url) => MayShow(w, k)
  BY DEF MayShow
<1> QED BY <1>1, <1>2, <1>3, <1>4, <1>5 DEF Honest

-----------------------------------------------------------------------------
(* The quiet actions *)

LEMMA DisconnectStep ==
  ASSUME PurchaseInv, NEW w \in Window, Disconnect(w)
  PROVE  PurchaseInv' /\ NothingNew
<1> DEFINE p == [Closed EXCEPT !.at = "logout"]
<1>1. PICK q \in Page : q = p /\ PageShaped(q) /\ q.at = "logout" /\ q.req = None
        /\ ~q.url /\ q.session = None /\ q.run = None /\ q.step = "idle" /\ ~q.popup
  BY ElsewhereIs
<1>2. /\ page' = [page EXCEPT ![w] = q] /\ saved' = None /\ page[w].at = "app"
      /\ UNCHANGED <<asked, run, paypend, store, pending, stash, claims, answered>>
      /\ Trouble
  BY <1>1 DEF Disconnect, Show, Ready
<1>3. PICK k \in RequestId \cup {None} : k = stash[w] BY InvParts, StashSame
<1>4. QuietTurn(w, q, k, {})
  BY <1>2, <1>3, StashSame, TroubleIs, InvParts DEF QuietTurn
<1>5. Honest(w, q, k, {})
  <2>1. PageBooked(q)
    <3>1. SignedIn(q.session) BY <1>1, NoSession
    <3>2. q.req <= Len(asked) BY <1>1, InvParts, HistoryFacts, PurchaseFacts
    <3> QED BY <1>1, <3>1, <3>2, IdleBooked, InvParts
  <2>2. ~page[w].url BY <1>2, InvParts DEF PageShaped
  <2>3. k # None => MayShow(w, k) BY <1>3, <2>2 DEF MayShow
  <2>4. k <= Len(asked) BY <1>3, InvParts DEF Stashed
  <2> QED BY <1>1, <2>1, <2>3, <2>4 DEF Honest
<1>6. trouble' # 0 BY <1>2, TroubleIs, InvParts
<1> QED BY <1>4, <1>5, <1>6, QuietStep

LEMMA SignedOutStep ==
  ASSUME PurchaseInv, NEW w \in Window, SignedOut(w)
  PROVE  PurchaseInv' /\ NothingNew
<1>1. PICK s \in Session :
        /\ LoadSession(s) /\ CalmlyIf(s = saved) /\ Show(w, Explorer(s))
        /\ page[w].at = "logout" /\ store' = Nobody
        /\ UNCHANGED <<asked, run, paypend, pending, stash, claims, answered>>
  BY DEF SignedOut
<1>2. PICK k \in RequestId \cup {None} : k = stash[w] BY InvParts, StashSame
<1>3. PICK q \in Page : q = Explorer(s) BY ExplorerIs
<1>4. QuietTurn(w, q, k, {})
  BY <1>1, <1>2, <1>3, StashSame, TroubleIs, InvParts
     DEF QuietTurn, Show, LoadSession, CalmlyIf
<1>5. Honest(w, q, k, {})
  <2>1. ~page[w].url BY <1>1, InvParts DEF PageShaped
  <2> QED BY <1>1, <1>2, <1>3, <2>1, ExplorerHonest DEF LoadSession
<1>6. ASSUME trouble' = 0 PROVE AllInCalm'
  <2>1. trouble = 0 /\ s = saved BY <1>1, <1>6, TroubleIs, InvParts DEF CalmlyIf, Calmly
  <2>2. AllInCalm /\ saved # None BY <2>1, InvParts DEF AllInCalm
  <2>3. page[w].run = None BY <1>1, InvParts DEF PageShaped
  <2> QED BY <1>1, <1>3, <2>1, <2>2, <2>3, ExplorerIs, QuietCalm DEF Show, LoadSession
<1> QED BY <1>4, <1>5, <1>6, QuietStep

LEMMA PickInlineStep ==
  ASSUME PurchaseInv, NEW w \in Window, PickInline(w)
  PROVE  PurchaseInv' /\ NothingNew
<1>1. PICK u \in Person :
        /\ store' = u /\ Show(w, Connected(page[w].req, page[w].url, u))
        /\ Choosing(w) /\ Calmly
        /\ UNCHANGED <<asked, run, paypend, saved, pending, stash, claims, answered>>
  BY DEF PickInline
<1>2. page[w] \in Page /\ PageShaped(page[w]) /\ page[w].at = "home"
      /\ page[w].req # None /\ page[w].who = Nobody
  BY <1>1, InvParts DEF Choosing, AtHome
<1>3. PICK r \in RequestId : r = page[w].req BY <1>2 DEF Page
<1>4. PICK x \in BOOLEAN : x = page[w].url BY <1>2 DEF Page
<1>5. PICK q \in Page : q = Connected(r, x, u) BY <1>3, ConnectedIs
<1>6. /\ PageShaped(q) /\ q.at = "home" /\ q.req = page[w].req /\ q.url = page[w].url
      /\ q.session = None /\ q.run = None /\ q.step \in {"idle", "authorize"}
      /\ ~q.popup
  BY <1>3, <1>4, <1>5, ConnectedIs
<1>7. PICK k \in RequestId \cup {None} : k = stash[w] BY InvParts, StashSame
<1>8. page' = [page EXCEPT ![w] = q] BY <1>1, <1>3, <1>4, <1>5 DEF Show
<1>9. QuietTurn(w, q, k, {})
  BY <1>1, <1>7, <1>8, StashSame, TroubleIs, InvParts DEF QuietTurn
<1>10. Honest(w, q, k, {}) BY <1>2, <1>6, <1>7, HomeHonest
<1>11. page[w].run = None BY <1>2 DEF PageShaped, Page
<1>12. ASSUME trouble' = 0 PROVE AllInCalm'
  <2>1. trouble = 0 BY <1>1, <1>12 DEF Calmly
  <2>2. AllInCalm /\ saved' # None BY <1>1, <2>1, InvParts DEF AllInCalm
  <2> QED BY <1>1, <1>6, <1>8, <1>11, <2>2, QuietCalm
<1> QED BY <1>9, <1>10, <1>12, QuietStep

LEMMA PickSocialStep ==
  ASSUME PurchaseInv, NEW w \in Window, PickSocial(w)
  PROVE  PurchaseInv' /\ NothingNew
<1>1. page[w] \in Page /\ PageShaped(page[w]) /\ page[w].at = "home"
      /\ page[w].req # None /\ page[w].who = Nobody
  BY InvParts DEF PickSocial, Choosing, AtHome
<1>2. PICK r \in RequestId : r = page[w].req BY <1>1 DEF Page
<1>3. PICK q \in Page : q = [Closed EXCEPT !.at = "idp", !.req = r] BY AwayIs
<1>4. /\ PageShaped(q) /\ q.at = "idp" /\ q.req = r /\ ~q.url
      /\ q.session = None /\ q.run = None /\ q.step = "idle" /\ ~q.popup
  BY <1>3, AwayIs
<1>5. /\ page' = [page EXCEPT ![w] = q] /\ stash' = [stash EXCEPT ![w] = r] /\ Calmly
      /\ UNCHANGED <<asked, run, paypend, saved, store, pending, claims, answered>>
  BY <1>2, <1>3 DEF PickSocial, Show, Keep
<1>6. QuietTurn(w, q, r, {})
  BY <1>5, StashSame, TroubleIs, InvParts DEF QuietTurn
<1>7. Honest(w, q, r, {}) BY <1>1, <1>2, <1>4, HomeHonest
<1>8. page[w].run = None BY <1>1 DEF PageShaped, Page
<1>9. ASSUME trouble' = 0 PROVE AllInCalm'
  <2>1. trouble = 0 BY <1>5, <1>9 DEF Calmly
  <2>2. AllInCalm /\ saved' # None BY <1>5, <2>1, InvParts DEF AllInCalm
  <2> QED BY <1>2, <1>4, <1>5, <1>8, <2>2, QuietCalm
<1> QED BY <1>6, <1>7, <1>9, QuietStep

LEMMA SocialReturnStep ==
  ASSUME PurchaseInv, NEW w \in Window, SocialReturn(w)
  PROVE  PurchaseInv' /\ NothingNew
<1>1. PICK r \in RequestId \cup {None} :
        /\ LoadStash(w, r) /\ page[w].at = "idp"
        /\ \/ \E u \in Person : /\ store' = u /\ Show(w, Connected(r, FALSE, u))
                                /\ CalmlyIf(r = stash[w])
           \/ Show(w, HomePage(r, FALSE, Nobody)) /\ UNCHANGED store /\ Trouble
        /\ UNCHANGED <<asked, run, paypend, saved, pending, claims, answered>>
  BY DEF SocialReturn
<1>2. page[w] \in Page /\ PageShaped(page[w]) /\ stash[w] = page[w].req
  BY <1>1, InvParts DEF Stashed
<1>3. page[w].run = None /\ ~page[w].url BY <1>1, <1>2 DEF PageShaped
<1>4. stash' = [stash EXCEPT ![w] = r] /\ r \in {stash[w], None}
  BY <1>1 DEF LoadStash, Keep
<1>5. \E q \in Page :
        /\ PageShaped(q) /\ q.at = "home" /\ q.req = r /\ ~q.url
        /\ q.session = None /\ q.run = None /\ q.step \in {"idle", "authorize"}
        /\ ~q.popup /\ page' = [page EXCEPT ![w] = q]
        /\ store' \in Person \cup {Nobody} /\ trouble' \in 0..MaxTrouble
        /\ trouble' = 0 => trouble = 0 /\ r = stash[w]
  <2>1. CASE \E u \in Person : /\ store' = u /\ Show(w, Connected(r, FALSE, u))
                               /\ CalmlyIf(r = stash[w])
    <3>1. PICK u \in Person : /\ store' = u /\ Show(w, Connected(r, FALSE, u))
                              /\ CalmlyIf(r = stash[w])
      BY <2>1
    <3>0. PICK x \in BOOLEAN : x = FALSE OBVIOUS
    <3>2. PICK q \in Page : q = Connected(r, x, u) BY ConnectedIs
    <3>3. trouble' \in 0..MaxTrouble /\ (trouble' = 0 => trouble = 0 /\ r = stash[w])
      BY <3>1, TroubleIs, InvParts DEF CalmlyIf, Calmly
    <3>4. /\ PageShaped(q) /\ q.at = "home" /\ q.req = r /\ ~q.url
          /\ q.session = None /\ q.run = None /\ q.step \in {"idle", "authorize"}
          /\ ~q.popup
      BY <3>0, <3>2, ConnectedIs
    <3> QED BY <3>0, <3>1, <3>2, <3>3, <3>4 DEF Show
  <2>2. CASE Show(w, HomePage(r, FALSE, Nobody)) /\ UNCHANGED store /\ Trouble
    <3>0. PICK x \in BOOLEAN : x = FALSE OBVIOUS
    <3>1. PICK q \in Page : q = HomePage(r, x, Nobody) BY HomeIs
    <3>2. /\ PageShaped(q) /\ q.at = "home" /\ q.req = r /\ ~q.url
          /\ q.session = None /\ q.run = None /\ q.step \in {"idle", "authorize"}
          /\ ~q.popup
      BY <3>0, <3>1, HomeIs
    <3> QED BY <2>2, <3>0, <3>1, <3>2, TroubleIs, StashSame, InvParts DEF Show
  <2> QED BY <1>1, <2>1, <2>2
<1>6. PICK q \in Page :
        /\ PageShaped(q) /\ q.at = "home" /\ q.req = r /\ ~q.url
        /\ q.session = None /\ q.run = None /\ q.step \in {"idle", "authorize"}
        /\ ~q.popup /\ page' = [page EXCEPT ![w] = q]
        /\ store' \in Person \cup {Nobody} /\ trouble' \in 0..MaxTrouble
        /\ trouble' = 0 => trouble = 0 /\ r = stash[w]
  BY <1>5
<1>7. QuietTurn(w, q, r, {})
  BY <1>1, <1>4, <1>6, StashSame, InvParts DEF QuietTurn
<1>8. Honest(w, q, r, {})
  <2>1. r <= Len(asked)
    BY <1>4, InvParts, HistoryFacts, PurchaseFacts DEF Stashed
  <2>2. PageBooked(q) BY <1>6, <2>1, NoSession, IdleBooked, InvParts
  <2>3. r # None => MayShow(w, r) BY <1>1, <1>2, <1>4 DEF MayShow
  <2> QED BY <1>6, <2>1, <2>2, <2>3 DEF Honest
<1>9. ASSUME trouble' = 0 PROVE AllInCalm'
  <2>1. trouble = 0 /\ r = page[w].req BY <1>2, <1>6, <1>9
  <2>2. AllInCalm /\ saved' # None BY <1>1, <2>1, InvParts DEF AllInCalm
  <2> QED BY <1>1, <1>3, <1>6, <2>1, <2>2, QuietCalm
<1> QED BY <1>7, <1>8, <1>9, QuietStep

LEMMA ApproveStep ==
  ASSUME PurchaseInv, NEW w \in Window, Approve(w)
  PROVE  PurchaseInv' /\ NothingNew
<1>1. /\ page[w] \in Page /\ PageShaped(page[w]) /\ page[w].at = "home"
      /\ page[w].req # None /\ page[w].who # Nobody /\ page[w].step = "idle"
      /\ Calmly /\ page' = [page EXCEPT ![w] = [page[w] EXCEPT !.step = "authorize"]]
      /\ UNCHANGED <<asked, run, paypend, saved, store, pending, stash, claims,
                     answered>>
  BY InvParts DEF Approve, Deciding, AtHome, Show
<1>2. PICK q \in Page : q = [page[w] EXCEPT !.step = "authorize"] BY <1>1 DEF Page
<1>3. /\ q.step = "authorize" /\ q.at = "home" /\ q.req = page[w].req
      /\ q.url = page[w].url /\ q.who = page[w].who /\ q.session = page[w].session
      /\ q.run = page[w].run /\ q.popup = page[w].popup
  BY <1>1, <1>2 DEF Page
<1>4. PageShaped(q) BY <1>1, <1>3 DEF PageShaped
<1>5. q.run = None /\ ~q.popup BY <1>1, <1>3 DEF PageShaped
<1>6. PICK k \in RequestId \cup {None} : k = stash[w] BY InvParts, StashSame
<1>7. QuietTurn(w, q, k, {})
  BY <1>1, <1>2, <1>6, StashSame, TroubleIs, InvParts DEF QuietTurn
<1>8. Honest(w, q, k, {})
  <2>1. PageBooked(page[w]) BY InvParts
  <2>2. PageBooked(q) BY <1>3, <1>5, <2>1, IdleBooked, InvParts DEF PageBooked
  <2>3. MayShow(w, q.req) /\ (k # None /\ (w[2] = "tab" \/ ~q.url) => MayShow(w, k))
    BY <1>1, <1>3, <1>6 DEF MayShow
  <2>4. k <= Len(asked) BY <1>6, InvParts DEF Stashed
  <2> QED BY <1>3, <1>4, <1>5, <2>2, <2>3, <2>4 DEF Honest
<1>9. ASSUME trouble' = 0 PROVE AllInCalm'
  <2>1. trouble = 0 BY <1>1, <1>9 DEF Calmly
  <2>2. AllInCalm /\ saved' # None BY <1>1, <2>1, InvParts DEF AllInCalm
  <2> QED BY <1>1, <1>2, <1>3, <1>4, <1>5, <2>2, QuietCalm
<1> QED BY <1>7, <1>8, <1>9, QuietStep

LEMMA SwitchStep ==
  ASSUME PurchaseInv, NEW w \in Window, SwitchAccount(w)
  PROVE  PurchaseInv' /\ NothingNew
<1>1. /\ page[w] \in Page /\ PageShaped(page[w]) /\ page[w].at = "home"
      /\ page[w].req # None /\ page[w].step = "idle"
      /\ Calmly /\ page' = [page EXCEPT ![w] = [page[w] EXCEPT !.who = Nobody]]
      /\ stash' = [stash EXCEPT ![w] = None] /\ store' = Nobody
      /\ UNCHANGED <<asked, run, paypend, saved, pending, claims, answered>>
  BY InvParts DEF SwitchAccount, Deciding, AtHome, Show, Keep
<1>2. PICK q \in Page : q = [page[w] EXCEPT !.who = Nobody] BY <1>1 DEF Page
<1>3. /\ q.step = "idle" /\ q.at = "home" /\ q.req = page[w].req
      /\ q.url = page[w].url /\ q.session = page[w].session
      /\ q.run = page[w].run /\ q.popup = page[w].popup
  BY <1>1, <1>2 DEF Page
<1>4. PageShaped(q) BY <1>1, <1>3 DEF PageShaped
<1>5. q.run = None /\ ~q.popup BY <1>1, <1>3 DEF PageShaped
<1>6. None \in RequestId \cup {None} OBVIOUS
<1>7. QuietTurn(w, q, None, {})
  BY <1>1, <1>2, StashSame, TroubleIs, InvParts DEF QuietTurn
<1>8. Honest(w, q, None, {})
  <2>1. PageBooked(page[w]) BY InvParts
  <2>2. PageBooked(q) BY <1>3, <1>5, <2>1, IdleBooked, InvParts DEF PageBooked
  <2>3. MayShow(w, q.req) BY <1>1, <1>3 DEF MayShow
  <2>4. None <= Len(asked) BY InvParts, HistoryFacts, PurchaseFacts
  <2> QED BY <1>3, <1>4, <1>5, <2>2, <2>3, <2>4 DEF Honest
<1>9. ASSUME trouble' = 0 PROVE AllInCalm'
  <2>1. trouble = 0 BY <1>1, <1>9 DEF Calmly
  <2>2. AllInCalm /\ saved' # None BY <1>1, <2>1, InvParts DEF AllInCalm
  <2> QED BY <1>1, <1>2, <1>3, <1>4, <1>5, <2>2, QuietCalm
<1> QED BY <1>6, <1>7, <1>8, <1>9, QuietStep

\* The catch of the ceremony: the page lets go of its authorization.
LEMMA FailedIs ==
  ASSUME PurchaseInv, NEW w \in Window, page[w].at = "home", page[w].req # None, Failed(w)
  PROVE  \E q \in Page, k \in RequestId \cup {None} :
           /\ page' = [page EXCEPT ![w] = q] /\ stash' = [stash EXCEPT ![w] = k]
           /\ store' \in Person \cup {Nobody} /\ k \in {stash[w], page[w].req}
           /\ PageShaped(q) /\ q.at = "home" /\ q.req = page[w].req
           /\ q.url = page[w].url /\ q.run = None /\ q.step = "idle" /\ ~q.popup
           /\ q.session = page[w].session
<1>1. page[w] \in Page /\ PageShaped(page[w]) BY InvParts
<1>2. ~page[w].popup BY <1>1 DEF PageShaped
<1>3. stash[w] \in RequestId \cup {None} /\ page[w].req \in RequestId \cup {None}
  BY <1>1, InvParts, StashSame DEF Page
<1>4. CASE /\ Show(w, [page[w] EXCEPT !.step = "idle", !.run = None])
           /\ UNCHANGED <<store, stash>>
  <2>1. PICK x \in Page : x = [page[w] EXCEPT !.step = "idle"] BY <1>1 DEF Page
  <2>2. PICK q \in Page : q = [x EXCEPT !.run = None] BY <2>1 DEF Page
  <2>3. /\ x.at = "home" /\ x.req = page[w].req /\ x.url = page[w].url
        /\ x.popup = page[w].popup /\ x.session = page[w].session /\ x.step = "idle"
    BY <1>1, <2>1 DEF Page
  <2>4. /\ q.at = "home" /\ q.req = page[w].req /\ q.url = page[w].url
        /\ q.popup = page[w].popup /\ q.session = page[w].session /\ q.step = "idle"
        /\ q.run = None
    BY <2>2, <2>3 DEF Page
  <2>5. page' = [page EXCEPT ![w] = q] BY <1>4, <2>1, <2>2 DEF Show
  <2>6. PageShaped(q) BY <1>2, <2>4 DEF PageShaped
  <2> QED BY <1>2, <1>3, <1>4, <2>4, <2>5, <2>6, StashSame, InvParts
<1>5. CASE /\ stash' = Keep(stash, w, page[w].req)
           /\ store' = Nobody
           /\ Show(w, [page[w] EXCEPT !.step = "idle", !.run = None,
                                      !.who = Nobody, !.just = FALSE])
  <2>1. PICK x \in Page : x = [page[w] EXCEPT !.step = "idle"] BY <1>1 DEF Page
  <2>2. PICK y \in Page : y = [x EXCEPT !.run = None] BY <2>1 DEF Page
  <2>3. /\ x.at = "home" /\ x.req = page[w].req /\ x.url = page[w].url
        /\ x.popup = page[w].popup /\ x.session = page[w].session /\ x.step = "idle"
    BY <1>1, <2>1 DEF Page
  <2>4. /\ y.at = "home" /\ y.req = page[w].req /\ y.url = page[w].url
        /\ y.popup = page[w].popup /\ y.session = page[w].session /\ y.step = "idle"
        /\ y.run = None
    BY <2>2, <2>3 DEF Page
  <2>5. PICK z \in Page : z = [y EXCEPT !.who = Nobody] BY DEF Page
  <2>6. PICK q \in Page : q = [z EXCEPT !.just = FALSE] BY DEF Page
  <2>7. /\ z.at = "home" /\ z.req = page[w].req /\ z.url = page[w].url
        /\ z.popup = page[w].popup /\ z.session = page[w].session /\ z.step = "idle"
        /\ z.run = None
    BY <2>4, <2>5 DEF Page
  <2>8. /\ q.at = "home" /\ q.req = page[w].req /\ q.url = page[w].url
        /\ q.popup = page[w].popup /\ q.session = page[w].session /\ q.step = "idle"
        /\ q.run = None
    BY <2>6, <2>7 DEF Page
  <2>9. page' = [page EXCEPT ![w] = q] BY <1>5, <2>1, <2>2, <2>5, <2>6 DEF Show
  <2>10. PageShaped(q) BY <1>2, <2>8 DEF PageShaped
  <2>11. stash' = [stash EXCEPT ![w] = page[w].req] BY <1>5 DEF Keep
  <2>12. PICK k \in RequestId \cup {None} : k = page[w].req BY <1>3
  <2> QED BY <1>2, <1>5, <2>8, <2>9, <2>10, <2>11, <2>12
<1> QED BY <1>4, <1>5 DEF Failed

LEMMA ThrowStep ==
  ASSUME PurchaseInv, NEW w \in Window, Throw(w)
  PROVE  PurchaseInv' /\ NothingNew
<1>1. /\ page[w].at = "home" /\ page[w].step \in {"authorize", "submit"} /\ Failed(w)
      /\ Trouble /\ UNCHANGED <<asked, run, paypend, saved, pending, claims, answered>>
  BY DEF Throw, Doing
<1>2. /\ page[w] \in Page /\ PageShaped(page[w]) /\ PageBooked(page[w])
      /\ page[w].req # None
  BY <1>1, InvParts DEF PageShaped
<1>3. PICK q \in Page, k \in RequestId \cup {None} :
           /\ page' = [page EXCEPT ![w] = q] /\ stash' = [stash EXCEPT ![w] = k]
           /\ store' \in Person \cup {Nobody} /\ k \in {stash[w], page[w].req}
           /\ PageShaped(q) /\ q.at = "home" /\ q.req = page[w].req
           /\ q.url = page[w].url /\ q.run = None /\ q.step = "idle" /\ ~q.popup
           /\ q.session = page[w].session
  BY <1>1, <1>2, FailedIs
<1>4. QuietTurn(w, q, k, {})
  BY <1>1, <1>3, StashSame, TroubleIs, InvParts DEF QuietTurn
<1>5. Honest(w, q, k, {})
  <2>1. PageBooked(q)
    BY <1>2, <1>3, IdleBooked, InvParts DEF PageBooked
  <2>2. MayShow(w, q.req) BY <1>1, <1>2, <1>3 DEF MayShow
  <2>3. k # None /\ (w[2] = "tab" \/ ~q.url) => MayShow(w, k)
    BY <1>1, <1>2, <1>3 DEF MayShow
  <2>4. k <= Len(asked)
    BY <1>2, <1>3, InvParts DEF Stashed, PageBooked
  <2> QED BY <1>3, <2>1, <2>2, <2>3, <2>4 DEF Honest
<1>6. trouble' # 0 BY <1>1, TroubleIs, InvParts
<1> QED BY <1>4, <1>5, <1>6, QuietStep

LEMMA DenyStep ==
  ASSUME PurchaseInv, NEW w \in Window, Deny(w)
  PROVE  PurchaseInv' /\ NothingNew
<1>1. PICK s \in Session :
        /\ LoadSession(s) /\ CalmlyIf(s = saved) /\ Show(w, Explorer(s))
        /\ Deciding(w) /\ stash' = Keep(stash, w, None)
        /\ answered' = answered \cup {page[w].req}
        /\ UNCHANGED <<asked, run, paypend, store, pending, claims>>
  BY DEF Deny
<1>2. /\ page[w] \in Page /\ PageShaped(page[w]) /\ page[w].at = "home"
      /\ page[w].req # None /\ page[w].step = "idle"
  BY <1>1, InvParts DEF Deciding, AtHome
<1>3. PICK r \in RequestId : r = page[w].req BY <1>2 DEF Page
<1>4. PICK q \in Page : q = Explorer(s) BY ExplorerIs
<1>5. PICK d \in SUBSET RequestId : d = {r} OBVIOUS
<1>6. PICK k \in RequestId \cup {None} : k = None OBVIOUS
<1>7. QuietTurn(w, q, k, d)
  BY <1>1, <1>3, <1>4, <1>5, <1>6, StashSame, TroubleIs, InvParts
     DEF QuietTurn, Show, LoadSession, CalmlyIf, Keep
<1>8. Honest(w, q, k, d)
  <2>1. MayShow(w, r) BY <1>2, <1>3 DEF MayShow
  <2> QED BY <1>1, <1>4, <1>5, <1>6, <2>1, ExplorerHonest DEF LoadSession
<1>9. ASSUME trouble' = 0 PROVE AllInCalm'
  <2>1. trouble = 0 /\ s = saved BY <1>1, <1>9, TroubleIs, InvParts DEF CalmlyIf, Calmly
  <2>2. AllInCalm /\ saved # None BY <2>1, InvParts DEF AllInCalm
  <2>3. page[w].run = None BY <1>2 DEF PageShaped
  <2> QED BY <1>1, <1>4, <2>1, <2>2, <2>3, ExplorerIs, QuietCalm DEF Show, LoadSession
<1> QED BY <1>7, <1>8, <1>9, QuietStep

\* Who takes the code: a page of the Explorer, with the authorization where one
\* of the cells knows the request.
LEMMA ReturnedIs ==
  ASSUME PurchaseInv, NEW w \in Window, NEW s \in Session, s \in {saved, None},
         page[w].run # None, page[w].step # "submit"
  PROVE  \E q \in Page :
           /\ q = Returned(w, s) /\ PageShaped(q) /\ PageBooked(q)
           /\ q.at = "app" /\ ~q.url /\ q.session = s
           /\ q.step \in {"idle", "token"}
           /\ q.step = "idle" => q.req = None /\ q.run = None
           /\ q.step = "token" => q.req = page[w].req /\ q.run = page[w].run
           /\ paypend = page[w].req \/ pending[w] = page[w].req => q.step = "token"
           /\ q.popup => q.step = "token" /\ paypend = page[w].req
<1>1. page[w] \in Page /\ PageShaped(page[w]) /\ PageBooked(page[w])
  BY InvParts
<1>2. page[w].req # None /\ run[page[w].run].code # "none"
      /\ page[w].run \in Run /\ page[w].req \in RequestId
  BY <1>1 DEF PageShaped, PageBooked, Page
<1>3. PICK r \in RequestId : r = page[w].req BY <1>2
<1>4. PICK n \in Run : n = page[w].run BY <1>2
<1>5. r # None /\ n # None BY PurchaseFacts
<1>6. PICK e \in Page : e = Explorer(s) BY ExplorerIs
<1>7. PICK x \in Page : x = [e EXCEPT !.step = "token"] BY DEF Page
<1>8. PICK y \in Page : y = [x EXCEPT !.req = r] BY DEF Page
<1>9. PICK z \in Page : z = [y EXCEPT !.run = n] BY DEF Page
<1>10. PICK t \in Page : t = [z EXCEPT !.popup = TRUE] BY DEF Page
<1>11. /\ e.at = "app" /\ e.req = None /\ ~e.url /\ e.session = s /\ e.run = None
       /\ e.step = "idle" /\ ~e.popup /\ PageShaped(e)
  BY <1>6, ExplorerIs
<1>12. /\ x.at = "app" /\ ~x.url /\ x.session = s /\ x.step = "token" /\ ~x.popup
  BY <1>7, <1>11 DEF Page
<1>13. /\ y.at = "app" /\ ~y.url /\ y.session = s /\ y.step = "token" /\ ~y.popup
       /\ y.req = r
  BY <1>8, <1>12 DEF Page
<1>14. /\ z.at = "app" /\ ~z.url /\ z.session = s /\ z.step = "token" /\ ~z.popup
       /\ z.req = r /\ z.run = n
  BY <1>9, <1>13 DEF Page
<1>15. /\ t.at = "app" /\ ~t.url /\ t.session = s /\ t.step = "token" /\ t.popup
       /\ t.req = r /\ t.run = n
  BY <1>10, <1>14 DEF Page
<1>16. PageShaped(z) /\ PageShaped(t) BY <1>5, <1>14, <1>15 DEF PageShaped
<1>17. SignedIn(s) BY InvParts, NoSession
<1>18. PageBooked(z) /\ PageBooked(t)
  BY <1>1, <1>2, <1>3, <1>4, <1>14, <1>15, <1>17 DEF PageBooked
<1>19. PageBooked(e)
  BY <1>11, <1>17, IdleBooked, InvParts, HistoryFacts, PurchaseFacts
<1>20. Returned(w, s) = IF paypend = r THEN t ELSE IF pending[w] = r THEN z ELSE e
  BY <1>3, <1>4, <1>6, <1>7, <1>8, <1>9, <1>10 DEF Returned
<1>21. CASE paypend = r
  BY <1>3, <1>4, <1>15, <1>16, <1>18, <1>20, <1>21
<1>22. CASE paypend # r /\ pending[w] = r
  BY <1>3, <1>4, <1>14, <1>16, <1>18, <1>20, <1>22
<1>23. CASE paypend # r /\ pending[w] # r
  BY <1>3, <1>4, <1>11, <1>19, <1>20, <1>23
<1> QED BY <1>21, <1>22, <1>23

LEMMA DeliverStep ==
  ASSUME PurchaseInv, NEW w \in Window, Deliver(w)
  PROVE  PurchaseInv' /\ NothingNew
<1>1. PICK s \in Session :
        /\ LoadSession(s) /\ CalmlyIf(s = saved) /\ Show(w, Returned(w, s))
        /\ page[w].at = "home" /\ page[w].step = "deliver"
        /\ stash' = Keep(stash, w, None)
        /\ answered' = answered \cup {page[w].req}
        /\ UNCHANGED <<asked, run, paypend, store, pending, claims>>
  BY DEF Deliver, Doing
<1>2. /\ page[w] \in Page /\ PageShaped(page[w]) /\ PageBooked(page[w])
  BY InvParts
<1>3. page[w].req # None /\ page[w].run # None /\ run[page[w].run].code = "live"
  BY <1>1, <1>2 DEF PageShaped, PageBooked
<1>4. PICK r \in RequestId : r = page[w].req BY <1>2, <1>3 DEF Page
<1>5. PICK q \in Page :
           /\ q = Returned(w, s) /\ PageShaped(q) /\ PageBooked(q)
           /\ q.at = "app" /\ ~q.url /\ q.session = s
           /\ q.step \in {"idle", "token"}
           /\ q.step = "idle" => q.req = None /\ q.run = None
           /\ q.step = "token" => q.req = page[w].req /\ q.run = page[w].run
           /\ paypend = page[w].req \/ pending[w] = page[w].req => q.step = "token"
           /\ q.popup => q.step = "token" /\ paypend = page[w].req
  BY <1>1, <1>3, ReturnedIs DEF LoadSession
<1>6. PICK d \in SUBSET RequestId : d = {r} OBVIOUS
<1>7. PICK k \in RequestId \cup {None} : k = None OBVIOUS
<1>8. QuietTurn(w, q, k, d)
  BY <1>1, <1>4, <1>5, <1>6, <1>7, StashSame, TroubleIs, InvParts
     DEF QuietTurn, Show, LoadSession, CalmlyIf, Keep
<1>9. Honest(w, q, k, d)
  <2>1. MayShow(w, r) BY <1>1, <1>3, <1>4 DEF MayShow
  <2>2. k <= Len(asked) BY <1>7, InvParts, HistoryFacts, PurchaseFacts
  <2> QED BY <1>5, <1>6, <1>7, <2>1, <2>2 DEF Honest
<1>10. ASSUME trouble' = 0 PROVE AllInCalm'
  <2>1. trouble = 0 /\ s = saved BY <1>1, <1>10, TroubleIs, InvParts DEF CalmlyIf, Calmly
  <2>2. AllInCalm /\ saved # None BY <2>1, InvParts DEF AllInCalm
  <2>3. paypend = page[w].req \/ pending[w] = page[w].req
    BY <1>3, <2>2 DEF AllInCalm, CalmPage
  <2>4. q.req = page[w].req /\ q.run = page[w].run /\ q.session # None
    BY <1>5, <2>1, <2>2, <2>3
  <2> QED BY <1>1, <1>3, <1>5, <2>1, <2>2, <2>4, QuietCalm DEF Show, LoadSession
<1> QED BY <1>8, <1>9, <1>10, QuietStep

LEMMA ReloadStep ==
  ASSUME PurchaseInv, NEW w \in Window, Reload(w)
  PROVE  PurchaseInv' /\ NothingNew
<1>1. trouble' # 0 /\ trouble' \in 0..MaxTrouble
  BY TroubleIs, InvParts DEF Reload
<1>2. page[w] \in Page /\ PageShaped(page[w]) /\ PageBooked(page[w]) BY InvParts
<1>3. UNCHANGED <<asked, run, paypend, store, pending, claims, answered>>
  BY DEF Reload
<1>4. CASE /\ page[w].at = "home"
           /\ \E r \in RequestId \cup {None} :
                /\ IF page[w].url THEN r = page[w].req /\ UNCHANGED stash
                   ELSE LoadStash(w, r)
                /\ r # None /\ Show(w, HomePage(r, page[w].url, store))
           /\ UNCHANGED saved
  <2>1. PICK r \in RequestId \cup {None} :
                /\ IF page[w].url THEN r = page[w].req /\ UNCHANGED stash
                   ELSE LoadStash(w, r)
                /\ r # None /\ Show(w, HomePage(r, page[w].url, store))
    BY <1>4
  <2>2. PICK x \in BOOLEAN : x = page[w].url BY <1>2 DEF Page
  <2>3. PICK u \in Person \cup {Nobody} : u = store BY InvParts, StashSame
  <2>4. PICK q \in Page : q = HomePage(r, x, u) BY HomeIs
  <2>5. /\ PageShaped(q) /\ q.at = "home" /\ q.req = r /\ q.url = page[w].url
        /\ q.session = None /\ q.run = None /\ q.step = "idle" /\ ~q.popup
    BY <2>2, <2>4, HomeIs
  <2>6. PICK k \in RequestId \cup {None} :
          k = stash'[w] /\ stash' = [stash EXCEPT ![w] = k]
    <3>1. CASE page[w].url BY <2>1, <3>1, StashSame, InvParts
    <3>2. CASE ~page[w].url
      <4>1. stash' = [stash EXCEPT ![w] = r] BY <2>1, <3>2 DEF LoadStash, Keep
      <4>2. stash'[w] = r BY <4>1, InvParts DEF BrowserTyped
      <4> QED BY <4>1, <4>2
    <3> QED BY <3>1, <3>2
  <2>7. QuietTurn(w, q, k, {})
    BY <1>1, <1>3, <1>4, <2>1, <2>2, <2>3, <2>4, <2>6, StashSame, InvParts
       DEF QuietTurn, Show
  <2>8. /\ MayShow(w, r)
        /\ k # None /\ (w[2] = "tab" \/ ~q.url) => MayShow(w, k)
        /\ r <= Len(asked) /\ k <= Len(asked)
    <3>1. page[w].req <= Len(asked) /\ stash[w] <= Len(asked)
      BY <1>2, InvParts DEF PageBooked, Stashed
    <3>2. CASE page[w].url
      <4>1. r = page[w].req /\ k = stash[w] BY <2>1, <2>6, <3>2
      <4> QED BY <1>4, <2>1, <2>5, <3>1, <3>2, <4>1 DEF MayShow
    <3>3. CASE ~page[w].url
      <4>1. r = stash[w] /\ k = r
        BY <2>1, <2>6, <3>3, InvParts DEF LoadStash, Keep, BrowserTyped
      <4> QED BY <2>1, <3>1, <3>3, <4>1 DEF MayShow
    <3> QED BY <3>2, <3>3
  <2>9. PageBooked(q)
    BY <2>5, <2>8, NoSession, IdleBooked, InvParts
  <2>10. Honest(w, q, k, {}) BY <2>5, <2>8, <2>9 DEF Honest
  <2> QED BY <1>1, <2>7, <2>10, QuietStep
<1>5. CASE /\ page[w].at = "app"
           /\ \E s \in Session :
                /\ LoadSession(s)
                /\ Show(w, IF page[w].popup THEN Returned(w, s) ELSE Explorer(s))
           /\ UNCHANGED stash
  <2>1. PICK s \in Session :
                /\ LoadSession(s)
                /\ Show(w, IF page[w].popup THEN Returned(w, s) ELSE Explorer(s))
    BY <1>5
  <2>2. s \in {saved, None} BY <2>1 DEF LoadSession
  <2>3. PICK k \in RequestId \cup {None} : k = stash[w] BY InvParts, StashSame
  <2>4. ~page[w].url BY <1>2, <1>5 DEF PageShaped
  <2>5. CASE ~page[w].popup
    <3>1. PICK q \in Page : q = Explorer(s) BY ExplorerIs
    <3>2. QuietTurn(w, q, k, {})
      BY <1>1, <1>3, <1>5, <2>1, <2>3, <2>5, <3>1, StashSame, InvParts
         DEF QuietTurn, Show, LoadSession
    <3>3. Honest(w, q, k, {}) BY <2>2, <2>3, <2>4, <3>1, ExplorerHonest
    <3> QED BY <1>1, <3>2, <3>3, QuietStep
  <2>6. CASE page[w].popup
    <3>1. page[w].step \in {"token", "claim"} /\ page[w].run # None
      BY <1>2, <2>6 DEF PageShaped
    <3>2. PICK q \in Page :
           /\ q = Returned(w, s) /\ PageShaped(q) /\ PageBooked(q)
           /\ q.at = "app" /\ ~q.url /\ q.session = s
           /\ q.step \in {"idle", "token"}
           /\ q.step = "idle" => q.req = None /\ q.run = None
           /\ q.step = "token" => q.req = page[w].req /\ q.run = page[w].run
           /\ paypend = page[w].req \/ pending[w] = page[w].req => q.step = "token"
           /\ q.popup => q.step = "token" /\ paypend = page[w].req
      BY <2>2, <3>1, ReturnedIs
    <3>3. QuietTurn(w, q, k, {})
      BY <1>1, <1>3, <1>5, <2>1, <2>3, <2>6, <3>2, StashSame, InvParts
         DEF QuietTurn, Show, LoadSession
    <3>4. Honest(w, q, k, {})
      <4>1. k # None => MayShow(w, k) BY <2>3, <2>4 DEF MayShow
      <4>2. k <= Len(asked) BY <2>3, InvParts DEF Stashed
      <4> QED BY <3>2, <4>1, <4>2 DEF Honest
    <3> QED BY <1>1, <3>3, <3>4, QuietStep
  <2> QED BY <2>5, <2>6
<1> QED BY <1>4, <1>5 DEF Reload

LEMMA VisitStep ==
  ASSUME PurchaseInv, NEW w \in Window, Visit(w)
  PROVE  PurchaseInv' /\ NothingNew
<1>1. PICK r \in RequestId :
        /\ LoadStash(w, r) /\ Show(w, HomePage(r, FALSE, store))
        /\ Trouble /\ w[2] = "tab" /\ page[w].at = "app"
        /\ UNCHANGED <<asked, run, paypend, saved, store, pending, claims, answered>>
  BY DEF Visit
<1>2. r = stash[w] /\ r # None /\ stash' = [stash EXCEPT ![w] = r]
  BY <1>1, PurchaseFacts DEF LoadStash, Keep
<1>3. PICK x \in BOOLEAN : x = FALSE OBVIOUS
<1>4. PICK u \in Person \cup {Nobody} : u = store BY InvParts, StashSame
<1>5. PICK q \in Page : q = HomePage(r, x, u) BY HomeIs
<1>6. /\ PageShaped(q) /\ q.at = "home" /\ q.req = r /\ ~q.url
      /\ q.session = None /\ q.run = None /\ q.step = "idle" /\ ~q.popup
  BY <1>3, <1>5, HomeIs
<1>7. QuietTurn(w, q, r, {})
  BY <1>1, <1>2, <1>3, <1>4, <1>5, TroubleIs, StashSame, InvParts DEF QuietTurn, Show
<1>8. Honest(w, q, r, {})
  <2>1. MayShow(w, r) BY <1>1, <1>2 DEF MayShow
  <2>2. r <= Len(asked) BY <1>2, InvParts DEF Stashed
  <2>3. PageBooked(q) BY <1>6, <2>2, NoSession, IdleBooked, InvParts
  <2> QED BY <1>6, <2>1, <2>2, <2>3 DEF Honest
<1>9. trouble' # 0 BY <1>1, TroubleIs, InvParts
<1> QED BY <1>7, <1>8, <1>9, QuietStep

LEMMA LeaveStep ==
  ASSUME PurchaseInv, NEW w \in Window, Leave(w)
  PROVE  PurchaseInv' /\ NothingNew
<1>1. trouble' # 0 /\ trouble' \in 0..MaxTrouble
  BY TroubleIs, InvParts DEF Leave
<1>2. UNCHANGED <<asked, run, paypend, store, claims, answered>> BY DEF Leave
<1>3. CASE w[2] = "pop"
  <2>1. /\ Show(w, Closed) /\ pending' = Keep(pending, w, None)
        /\ stash' = Keep(stash, w, None) /\ UNCHANGED saved
    BY <1>3 DEF Leave, Emptied
  <2>2. PICK k \in RequestId \cup {None} : k = None OBVIOUS
  <2>3. PICK q \in Page : q = Closed BY ClosedIs
  <2>4. QuietTurn(w, q, k, {})
    BY <1>1, <1>2, <2>1, <2>2, <2>3, StashSame, InvParts DEF QuietTurn, Show, Keep
  <2>5. Honest(w, q, k, {})
    <3>1. k <= Len(asked) BY <2>2, InvParts, HistoryFacts, PurchaseFacts
    <3>2. q.req <= Len(asked) /\ SignedIn(q.session)
      BY <2>2, <2>3, <3>1, ClosedIs, NoSession
    <3>3. PageBooked(q) BY <2>3, <3>2, ClosedIs, IdleBooked, InvParts
    <3> QED BY <2>2, <2>3, <3>1, <3>3, ClosedIs DEF Honest
  <2> QED BY <1>1, <2>4, <2>5, QuietStep
<1>4. CASE w[2] # "pop"
  <2>1. PICK s \in Session :
          LoadSession(s) /\ Show(w, Explorer(s)) /\ UNCHANGED <<pending, stash>>
    BY <1>4 DEF Leave
  <2>2. PICK k \in RequestId \cup {None} : k = stash[w] BY InvParts, StashSame
  <2>3. PICK q \in Page : q = Explorer(s) BY ExplorerIs
  <2>4. QuietTurn(w, q, k, {})
    BY <1>1, <1>2, <2>1, <2>2, <2>3, StashSame, InvParts
       DEF QuietTurn, Show, LoadSession
  <2>5. w[2] = "tab" BY <1>4 DEF Window
  <2>6. Honest(w, q, k, {}) BY <2>1, <2>2, <2>3, <2>5, ExplorerHonest DEF LoadSession
  <2> QED BY <1>1, <2>4, <2>6, QuietStep
<1> QED BY <1>3, <1>4

-----------------------------------------------------------------------------
(* Asking: window x is sent to the home with a new request *)

\* k is left in its stash: what was there, or the copy a popup begins with.
AskTurn(x, k) ==
  /\ page' = [page EXCEPT ![x] = HomePage(Len(asked'), TRUE, store)]
  /\ stash' = [stash EXCEPT ![x] = k]
  /\ k <= Len(asked) /\ (k = stash[x] \/ x[2] = "pop")
  /\ paypend' \in {paypend, None, Len(asked')}
  /\ pending' \in [Window -> RequestId \cup {None}]
  /\ trouble' \in 0..MaxTrouble
  /\ UNCHANGED <<run, saved, store, claims, answered>>

\* In calm nothing is under way in that window, the new request is in one of
\* the cells, and the requests of the others stay in the windows' own.
AskCalmly(x) ==
  /\ trouble = 0 /\ page[x].run = None
  /\ paypend' = Len(asked') \/ pending'[x] = Len(asked')
  /\ \A v \in Window \ {x} : page[v].req # None =>
       (paypend' = paypend \/ page[v].req # paypend) /\ pending'[v] = pending[v]

\* Window x alone has something new to show, the request just made, and that
\* is in its history.
NewAt(x) ==
  \A v \in Window, r \in RequestId :
    MayShow(v, r)' => MayShow(v, r) \/ (v = x /\ r = Len(asked'))
Goes(x) ==
  /\ NewAt(x) /\ Len(asked') = Len(asked) + 1
  /\ past' = [past EXCEPT ![x] = past[x] \cup {Len(asked')}]

LEMMA AskStep ==
  ASSUME PurchaseInv, NEW x \in Window, NEW what \in Tier \cup {"login"}, Ask(what),
         NEW k \in RequestId \cup {None}, AskTurn(x, k),
         trouble' = 0 => AskCalmly(x)
  PROVE  PurchaseInv' /\ NewAt(x) /\ Len(asked') = Len(asked) + 1
<1>0. /\ run' = run /\ saved' = saved /\ store' = store /\ claims' = claims
      /\ answered' = answered /\ stash' = [stash EXCEPT ![x] = k] /\ k <= Len(asked)
      /\ k = stash[x] \/ x[2] = "pop"
      /\ page' = [page EXCEPT ![x] = HomePage(Len(asked'), TRUE, store)]
  BY DEF AskTurn
<1>1. /\ asked' \in Seq(Tier \cup {"login"})
      /\ Len(asked') = Len(asked) + 1 /\ Len(asked') \in RequestId
      /\ \A r \in 1..Len(asked) : asked'[r] = asked[r]
      /\ asked'[Len(asked')] = what
  BY AskIs, InvParts
<1>2. PICK r \in RequestId : r = Len(asked') BY <1>1
<1>3. PICK b \in BOOLEAN : b = TRUE OBVIOUS
<1>4. PICK u \in Person \cup {Nobody} : u = store BY InvParts, StashSame
<1>5. PICK q \in Page : q = HomePage(r, b, u) BY HomeIs
<1>6. /\ PageShaped(q) /\ q.at = "home" /\ q.req = r /\ q.url
      /\ q.session = None /\ q.run = None /\ q.step = "idle" /\ ~q.popup
  <2>1. /\ PageShaped(q) /\ q.at = "home" /\ q.req = r /\ q.url = b
        /\ q.session = None /\ q.run = None /\ q.step = "idle" /\ ~q.popup
    BY <1>5, HomeIs
  <2> QED BY <1>3, <2>1
<1>7. page' = [page EXCEPT ![x] = q] BY <1>0, <1>2, <1>3, <1>4, <1>5
<1>8. /\ page \in [Window -> Page] /\ stash \in [Window -> RequestId \cup {None}]
      /\ Len(asked) \in Nat /\ Len(run) \in Nat /\ r \in Nat /\ r = Len(asked) + 1
      /\ answered \subseteq 1..Len(asked)
  BY <1>1, <1>2, InvParts, HistoryFacts DEF BrowserTyped
<1>9. /\ page'[x] = q /\ stash'[x] = k
      /\ \A v \in Window : v # x => page'[v] = page[v] /\ stash'[v] = stash[v]
  BY <1>0, <1>7, <1>8
<1>10. BrowserTyped'
  <2>1. page' \in [Window -> Page] /\ stash' \in [Window -> RequestId \cup {None}]
    BY <1>0, <1>7, <1>8
  <2>2. Len(asked') <= MaxRequests BY <1>1, PurchaseFacts DEF RequestId
  <2>3. /\ paypend' \in RequestId \cup {None} /\ trouble' \in 0..MaxTrouble
        /\ pending' \in [Window -> RequestId \cup {None}]
    BY <1>1, InvParts DEF AskTurn, BrowserTyped
  <2> QED BY <1>0, <1>1, <2>1, <2>2, <2>3, InvParts DEF BrowserTyped
<1>11. Grown(None) BY <1>0, <1>1, <1>8 DEF Grown
<1>12. \A v \in Window : PageShaped(page[v])' /\ PageBooked(page[v])'
  <2>1. PageBooked(q)'
    BY <1>2, <1>6, <1>8, PurchaseFacts DEF PageBooked, SignedIn
  <2>2. \A v \in Window \ {x} : page[v].run = None \/ page[v].run # None OBVIOUS
  <2> QED BY <1>6, <1>7, <1>10, <1>11, <2>1, <2>2, PagesKept
<1>13. SignedIn(saved)'
  <2>1. PICK s \in Session : s = saved BY InvParts, StashSame
  <2>2. SignedIn(s)' BY <1>10, <1>11, <2>1, SignedInKept, InvParts
  <2> QED BY <1>0, <2>1, <2>2 DEF SignedIn
<1>14. RunsBooked'
  <2> SUFFICES ASSUME NEW n \in 1..Len(run)
               PROVE  /\ run[n].req <= Len(asked')
                      /\ run[n].charged = (asked'[run[n].req] \in Tier)
    BY <1>0 DEF RunsBooked
  <2>1. /\ run[n].req \in RequestId /\ run[n].req <= Len(asked)
        /\ run[n].charged = (asked[run[n].req] \in Tier)
    BY InvParts, HistoryFacts DEF RunsBooked, Authorization
  <2>2. run[n].req \in 1..Len(asked) BY <1>8, <2>1 DEF RequestId
  <2> QED BY <1>1, <1>8, <2>1, <2>2
<1>15. RunsApart'
  <2>1. \A v \in Window : page'[v].run # None => page'[v].run = page[v].run
    BY <1>6, <1>9
  <2>2. \A v, y \in Window : page[v].run # None /\ page[v].run = page[y].run => v = y
    BY InvParts DEF RunsApart
  <2>3. \A v, y \in Window : page'[v].run # None /\ page'[v].run = page'[y].run => v = y
    BY <2>1, <2>2
  <2> QED BY <1>0, <2>3, InvParts DEF RunsApart
<1>16. ASSUME NEW i \in 1..Len(claims) PROVE ClaimBooked(claims[i])'
  <2>1. \A v \in Window : page'[v].step = "claim" =>
           page[v].step = "claim" /\ page'[v].run = page[v].run
    BY <1>6, <1>9
  <2>2. ClaimBooked(claims[i]) BY InvParts
  <2>3. claims[i].run \in 1..Len(run)
    BY <2>2, HistoryFacts, InvParts DEF ClaimBooked, ClaimRecord, Run
  <2>4. run[claims[i].run].req \in 1..Len(asked)
    BY <1>8, <2>3, InvParts, HistoryFacts DEF RunsBooked, Authorization, RequestId
  <2>5. asked'[run[claims[i].run].req] = asked[run[claims[i].run].req]
    BY <1>1, <2>4
  <2> QED BY <1>0, <2>1, <2>2, <2>5 DEF ClaimBooked
<1>17. Stashed'
  <2> SUFFICES ASSUME NEW v \in Window
               PROVE  /\ stash'[v] <= Len(asked')
                      /\ page'[v].at = "idp" => stash'[v] = page'[v].req
    BY DEF Stashed
  <2>1. stash'[v] <= Len(asked) BY <1>0, <1>9, InvParts DEF Stashed
  <2>2. stash'[v] \in Nat BY <1>8, <1>9, PurchaseFacts DEF RequestId
  <2>3. stash'[v] <= Len(asked') BY <1>1, <1>8, <2>1, <2>2
  <2>4. page'[v].at = "idp" => stash'[v] = page'[v].req
    BY <1>6, <1>9, InvParts DEF Stashed
  <2> QED BY <2>3, <2>4
<1>18. answered' \subseteq 1..Len(asked') BY <1>0, <1>1, <1>8
<1>19. ASSUME NEW v \in Window, NEW t \in RequestId, MayShow(v, t)'
       PROVE  (v = x /\ t = r) \/ MayShow(v, t)
  <2>1. CASE v = x BY <1>0, <1>6, <1>9, <1>19, <2>1 DEF MayShow
  <2>2. CASE v # x BY <1>9, <1>19, <2>2 DEF MayShow
  <2> QED BY <2>1, <2>2
<1>20. NewAt(x) BY <1>2, <1>19 DEF NewAt
<1>21. RequestsApart'
  <2>2. ASSUME NEW v \in Window, NEW t \in RequestId, MayShow(v, t)
        PROVE  t # r /\ t <= Len(asked)
    <3>1. page[v].req <= Len(asked) /\ stash[v] <= Len(asked)
      BY InvParts DEF PageBooked, Stashed
    <3>2. t <= Len(asked) BY <2>2, <3>1 DEF MayShow
    <3> QED BY <1>8, <3>2
  <2>3. r \notin answered BY <1>8
  <2>4. \A v \in Window, t \in RequestId : MayShow(v, t) =>
          t \notin answered /\ \A y \in Window : MayShow(y, t) => y = v
    BY InvParts DEF RequestsApart
  <2>5. \A v \in Window, t \in RequestId : MayShow(v, t)' =>
          t \notin answered' /\ \A y \in Window : MayShow(y, t)' => y = v
    BY <1>0, <1>19, <2>2, <2>3, <2>4
  <2> QED BY <2>5 DEF RequestsApart
<1>22. ASSUME trouble' = 0 PROVE AllInCalm'
  <2>0. AskCalmly(x) BY <1>22
  <2>1. AllInCalm /\ saved' # None BY <1>0, <2>0, InvParts DEF AllInCalm, AskCalmly
  <2>2. \A n \in 1..Len(run) : run[n].req # r /\ run'[n] = run[n]
    BY <1>0, <1>8, InvParts DEF RunsBooked
  <2>3. ASSUME NEW v \in Window PROVE CalmPage(v)'
    <3>1. CalmPage(v) BY <2>1 DEF AllInCalm
    <3>2. CASE v = x
      <4>1. r # None BY <1>8, PurchaseFacts
      <4>2. paypend' = r \/ pending'[x] = r BY <1>2, <2>0 DEF AskCalmly
      <4>3. \A n \in 1..Len(run') : run'[n].req # r BY <1>0, <2>2
      <4>4. page'[v] = q /\ (paypend' = q.req \/ pending'[v] = q.req)
        BY <1>6, <1>9, <3>2, <4>2
      <4> QED BY <1>6, <4>3, <4>4 DEF CalmPage
    <3>3. CASE v # x
      <4>1. page[v] \in Page /\ PageShaped(page[v]) BY InvParts
      <4>2. page[v].popup => page[v].req # None BY <4>1 DEF PageShaped
      <4>3. page[v].req # None =>
              (paypend' = paypend \/ page[v].req # paypend) /\ pending'[v] = pending[v]
        BY <2>0, <3>3 DEF AskCalmly
      <4> QED BY <1>0, <1>9, <3>1, <3>3, <4>2, <4>3 DEF CalmPage
    <3> QED BY <3>2, <3>3
  <2>4. \A v \in Window : page[v].req # r
    <3>1. \A v \in Window : page[v].req <= Len(asked) BY InvParts DEF PageBooked
    <3> QED BY <1>8, <3>1
  <2>5. \A v, y \in Window : page'[v].req # None /\ page'[v].req = page'[y].req => v = y
    <3>1. \A v, y \in Window : page[v].req # None /\ page[v].req = page[y].req => v = y
      BY <2>1 DEF AllInCalm
    <3>2. \A v \in Window : IF v = x THEN page'[v].req = r
                             ELSE page'[v].req = page[v].req
      BY <1>6, <1>9
    <3> QED BY <2>4, <3>1, <3>2
  <2>6. \A n \in 1..Len(run) : Carried(n) => Carried(n)'
    <3> SUFFICES ASSUME NEW n \in 1..Len(run), NEW v \in Window, page[v].run = n
                 PROVE  page'[v].run = n
      BY <1>0 DEF Carried
    <3>1. n # None BY PurchaseFacts
    <3> QED BY <1>9, <2>0, <3>1 DEF AskCalmly
  <2>7. \A m, n \in 1..Len(run') : run'[m].req = run'[n].req => m = n
    BY <1>0, <2>1 DEF AllInCalm
  <2>8. \A n \in 1..Len(run') : run'[n].charged => Carried(n)'
    BY <1>0, <2>1, <2>6 DEF AllInCalm
  <2> QED BY <2>1, <2>3, <2>5, <2>7, <2>8 DEF AllInCalm
<1> QED BY <1>0, <1>10, <1>12, <1>13, <1>14, <1>15, <1>16, <1>17, <1>18, <1>21, <1>22,
           <1>1, <1>20 DEF PurchaseInv

LEMMA ConnectStep ==
  ASSUME PurchaseInv, NEW w \in Window, Connect(w)
  PROVE  PurchaseInv' /\ Goes(w)
<1>1. /\ Ask("login") /\ page[w].at = "app" /\ CalmlyIf(page[w].step = "idle")
      /\ pending' = Keep(pending, w, Len(asked'))
      /\ page' = [page EXCEPT ![w] = HomePage(Len(asked'), TRUE, store)]
      /\ UNCHANGED <<run, paypend, saved, store, stash, claims, answered>>
      /\ past' = [past EXCEPT ![w] = past[w] \cup {Len(asked')}]
  BY DEF Connect, Sent, Keep, Show, Ready
<1>2. PICK what \in Tier \cup {"login"} : what = "login" OBVIOUS
<1>3. Ask(what) BY <1>1, <1>2
<1>4. Len(asked') \in RequestId BY <1>3, AskIs, InvParts
<1>5. PICK k \in RequestId \cup {None} : k = stash[w] BY InvParts, StashSame
<1>6. pending \in [Window -> RequestId \cup {None}] BY InvParts, StashSame
<1>7. AskTurn(w, k)
  <2>1. k <= Len(asked) BY <1>5, InvParts DEF Stashed
  <2>2. pending' \in [Window -> RequestId \cup {None}]
    BY <1>1, <1>4, <1>6 DEF Keep
  <2>3. trouble' \in 0..MaxTrouble BY <1>1, TroubleIs, InvParts DEF CalmlyIf
  <2>4. stash' = [stash EXCEPT ![w] = k] BY <1>1, <1>5, StashSame, InvParts
  <2> QED BY <1>1, <1>5, <2>1, <2>2, <2>3, <2>4 DEF AskTurn
<1>8. ASSUME trouble' = 0 PROVE AskCalmly(w)
  <2>1. trouble = 0 /\ page[w].step = "idle"
    BY <1>1, <1>8, TroubleIs, InvParts DEF CalmlyIf, Calmly
  <2>2. page[w].run = None BY <2>1, InvParts DEF PageShaped
  <2>3. pending'[w] = Len(asked') /\ \A v \in Window \ {w} : pending'[v] = pending[v]
    BY <1>1, <1>6 DEF Keep
  <2> QED BY <1>1, <2>1, <2>2, <2>3 DEF AskCalmly
<1> QED BY <1>1, <1>3, <1>7, <1>8, AskStep DEF Goes

LEMMA BuyStep ==
  ASSUME PurchaseInv, NEW w \in Window, Buy(w)
  PROVE  PurchaseInv' /\ \E x \in Window : Goes(x)
<1>1. PICK what \in Tier : Ask(what) BY DEF Buy
<1>2. Ask(what) /\ what \in Tier \cup {"login"} BY <1>1
<1>3. Len(asked') \in RequestId BY <1>2, AskIs, InvParts
<1>4. /\ page[w].at = "app"
      /\ UNCHANGED <<run, saved, store, claims, answered>>
      /\ pending \in [Window -> RequestId \cup {None}]
      /\ page[w] \in Page
  BY InvParts, StashSame DEF Buy, Ready
<1>5. CASE OpenPopup(w) /\ CalmlyIf(TurnFree /\ page[w].step = "idle"
                                    /\ page[Popup(w)].req = None)
  <2>1. PICK x \in Window : x = Popup(w) BY DEF Popup, Window
  <2>2. x[2] = "pop" BY <2>1 DEF Popup
  <2>3. /\ paypend' = Len(asked')
        /\ page' = [page EXCEPT ![x] = HomePage(Len(asked'), TRUE, store)]
        /\ pending' = IF page[x].at = "closed" THEN [pending EXCEPT ![x] = pending[w]]
                      ELSE pending
        /\ stash' = IF page[x].at = "closed" THEN [stash EXCEPT ![x] = stash[w]]
                    ELSE stash
        /\ past' = [past EXCEPT ![x] = past[x] \cup {Len(asked')}]
    BY <1>5, <2>1 DEF OpenPopup, Sent, Show, Keep
  <2>4. \A v \in Window \ {x} : pending'[v] = pending[v] BY <1>4, <2>3
  <2>5. PICK k \in RequestId \cup {None} :
          k \in {stash[x], stash[w]} /\ stash' = [stash EXCEPT ![x] = k]
    BY <2>3, StashSame, InvParts
  <2>6. AskTurn(x, k)
    <3>1. k <= Len(asked) BY <2>5, InvParts DEF Stashed
    <3>2. pending' \in [Window -> RequestId \cup {None}] BY <1>4, <2>3
    <3>3. trouble' \in 0..MaxTrouble BY <1>5, TroubleIs, InvParts DEF CalmlyIf
    <3> QED BY <1>4, <2>2, <2>3, <2>5, <3>1, <3>2, <3>3 DEF AskTurn
  <2>7. ASSUME trouble' = 0 PROVE AskCalmly(x)
    <3>1. trouble = 0 /\ TurnFree /\ page[x].req = None
      BY <1>5, <2>1, <2>7, TroubleIs, InvParts DEF CalmlyIf, Calmly
    <3>2. page[x].run = None
      BY <3>1, InvParts DEF PageShaped, Page
    <3> QED BY <2>3, <2>4, <3>1, <3>2 DEF AskCalmly, TurnFree
  <2> QED BY <1>2, <2>3, <2>6, <2>7, AskStep DEF Goes
<1>6. CASE PopupBlocked(w) /\ CalmlyIf(TurnFree /\ page[w].step = "idle")
  <2>1. /\ paypend' = None /\ UNCHANGED stash
        /\ pending' = [pending EXCEPT ![w] = Len(asked')]
        /\ page' = [page EXCEPT ![w] = HomePage(Len(asked'), TRUE, store)]
        /\ past' = [past EXCEPT ![w] = past[w] \cup {Len(asked')}]
    BY <1>6 DEF PopupBlocked, Sent, Show, Keep
  <2>2. PICK k \in RequestId \cup {None} : k = stash[w] BY InvParts, StashSame
  <2>3. AskTurn(w, k)
    <3>1. k <= Len(asked) BY <2>2, InvParts DEF Stashed
    <3>2. pending' \in [Window -> RequestId \cup {None}] BY <1>3, <1>4, <2>1
    <3>3. trouble' \in 0..MaxTrouble BY <1>6, TroubleIs, InvParts DEF CalmlyIf
    <3>4. stash' = [stash EXCEPT ![w] = k] BY <2>1, <2>2, StashSame, InvParts
    <3> QED BY <1>4, <2>1, <2>2, <3>1, <3>2, <3>3, <3>4 DEF AskTurn
  <2>4. ASSUME trouble' = 0 PROVE AskCalmly(w)
    <3>1. trouble = 0 /\ TurnFree /\ page[w].step = "idle"
      BY <1>6, <2>4, TroubleIs, InvParts DEF CalmlyIf, Calmly
    <3>2. page[w].run = None BY <3>1, InvParts DEF PageShaped
    <3>3. pending'[w] = Len(asked') /\ \A v \in Window \ {w} : pending'[v] = pending[v]
      BY <1>4, <2>1
    <3> QED BY <2>1, <3>1, <3>2, <3>3 DEF AskCalmly, TurnFree
  <2> QED BY <1>2, <2>1, <2>3, <2>4, AskStep DEF Goes
<1> QED BY <1>5, <1>6 DEF Buy

-----------------------------------------------------------------------------
(* Work on an authorization: window w turns to page q, the others at most    *)
(* load the session again; of the code of no run but k's anything changes.   *)

Turned(w, q) ==
  /\ page' \in [Window -> Page] /\ page'[w] = q
  /\ \A v \in Window \ {w} :
       /\ page'[v].at = page[v].at /\ page'[v].req = page[v].req
       /\ page'[v].url = page[v].url /\ page'[v].who = page[v].who
       /\ page'[v].run = page[v].run /\ page'[v].step = page[v].step
       /\ page'[v].popup = page[v].popup
       /\ page'[v].session \in {page[v].session, saved'}

LEMMA PagesTurned ==
  ASSUME PurchaseInv, BrowserTyped', NEW k, Grown(k), NEW w \in Window, NEW q \in Page,
         Turned(w, q), PageShaped(q), PageBooked(q)', SignedIn(saved)',
         \A v \in Window \ {w} : page[v].run = None \/ page[v].run # k
  PROVE  \A v \in Window : PageShaped(page[v])' /\ PageBooked(page[v])'
<1> SUFFICES ASSUME NEW v \in Window PROVE PageShaped(page[v])' /\ PageBooked(page[v])'
  OBVIOUS
<1>1. CASE v = w
  <2>1. page'[v] = q BY <1>1 DEF Turned
  <2> QED BY <2>1 DEF PageBooked, PageShaped, SignedIn
<1>2. CASE v # w
  <2>1. PICK x \in Page : x = page[v] BY InvParts
  <2>2. PICK y \in Page : y = page'[v] BY DEF Turned
  <2>3. /\ y.at = x.at /\ y.req = x.req /\ y.url = x.url /\ y.run = x.run
        /\ y.step = x.step /\ y.popup = x.popup /\ y.who = x.who
        /\ y.session \in {x.session, saved'}
    BY <1>2, <2>1, <2>2 DEF Turned
  <2>4. PageShaped(x) /\ PageBooked(x)' BY <1>2, <2>1, PageBookedKept, InvParts
  <2>5. PageShaped(y) BY <2>3, <2>4 DEF PageShaped
  <2>6. SignedIn(y.session)' BY <2>3, <2>4 DEF PageBooked, SignedIn
  <2>7. PageBooked(y)' BY <2>3, <2>4, <2>6 DEF PageBooked
  <2> QED BY <2>2, <2>5, <2>7 DEF PageBooked, PageShaped, SignedIn
<1> QED BY <1>1, <1>2

\* Where claims are as they were, or the page's authorization is claimed.
ClaimsTurned(w, q) ==
  \/ /\ claims' = claims
     /\ q.step = "claim" => q.run = page[w].run /\ run[q.run].code # "spent"
  \/ \E c \in ClaimRecord :
       /\ claims' = Append(claims, c) /\ page[w].step = "claim" /\ q.run = None
       /\ c.run = page[w].run /\ c.tier = asked[page[w].req]

Worked(w, q) ==
  /\ Turned(w, q) /\ ClaimsTurned(w, q) /\ PageShaped(q) /\ PageBooked(q)'
  /\ q.run \in {None, page[w].run} \/ q.run = Len(run) + 1
  /\ asked' = asked /\ answered' = answered
  /\ q.at # "idp" /\ stash'[w] <= Len(asked)
  /\ \A v \in Window \ {w} : stash'[v] = stash[v]
  /\ q.at = "home" => MayShow(w, q.req)
  /\ stash'[w] # None /\ (w[2] = "tab" \/ ~q.url) => MayShow(w, stash'[w])

LEMMA ClaimsBooked ==
  ASSUME PurchaseInv, BrowserTyped', NEW k, Grown(k), NEW w \in Window, NEW q \in Page,
         Worked(w, q)
  PROVE  /\ \A i \in 1..Len(claims') : ClaimBooked(claims[i])'
         /\ \A i, j \in 1..Len(claims') : claims'[i].run = claims'[j].run => i = j
<1>1. /\ \A v \in Window \ {w} : page'[v].step = page[v].step /\ page'[v].run = page[v].run
      /\ page'[w] = q /\ asked' = asked
  BY DEF Worked, Turned
<1>2. ASSUME NEW c \in ClaimRecord, c.run <= Len(run), run[c.run].charged,
             run[c.run].code = "spent", asked[run[c.run].req] = c.tier,
             \A v \in Window : page'[v].step = "claim" => page'[v].run # c.run
      PROVE  ClaimBooked(c)'
  <2>1. c.run \in 1..Len(run) BY <1>2, HistoryFacts, InvParts DEF ClaimRecord, Run
  <2>2. /\ run'[c.run].req = run[c.run].req /\ run'[c.run].charged
        /\ run'[c.run].code = "spent" /\ c.run <= Len(run')
    BY <1>2, <2>1, HistoryFacts, LaterLengths, InvParts DEF Grown
  <2> QED BY <1>1, <1>2, <2>2 DEF ClaimBooked
<1>3. ASSUME NEW i \in 1..Len(claims)
      PROVE  /\ claims[i] \in ClaimRecord /\ claims[i].run <= Len(run)
             /\ run[claims[i].run].charged /\ run[claims[i].run].code = "spent"
             /\ asked[run[claims[i].run].req] = claims[i].tier
             /\ \A v \in Window \ {w} : page'[v].step = "claim" =>
                  page'[v].run # claims[i].run
             /\ page[w].step = "claim" => page[w].run # claims[i].run
  BY <1>1, HistoryFacts, InvParts DEF ClaimBooked
<1>4. CASE /\ claims' = claims
           /\ q.step = "claim" => q.run = page[w].run /\ run[q.run].code # "spent"
  <2>1. ASSUME NEW i \in 1..Len(claims) PROVE ClaimBooked(claims[i])'
    <3>1. q.step = "claim" => q.run # claims[i].run BY <1>3, <1>4
    <3>2. \A v \in Window : page'[v].step = "claim" => page'[v].run # claims[i].run
      BY <1>1, <1>3, <3>1
    <3>3. PICK c \in ClaimRecord : c = claims[i] BY <1>3
    <3>4. ClaimBooked(c)' BY <1>2, <1>3, <3>2, <3>3
    <3> QED BY <1>4, <3>3, <3>4 DEF ClaimBooked
  <2> QED BY <1>4, <2>1, InvParts DEF RunsApart
<1>5. ASSUME NEW c \in ClaimRecord,
             claims' = Append(claims, c), page[w].step = "claim", q.run = None,
             c.run = page[w].run, c.tier = asked[page[w].req]
      PROVE  /\ \A i \in 1..Len(claims') : ClaimBooked(claims[i])'
             /\ \A i, j \in 1..Len(claims') : claims'[i].run = claims'[j].run => i = j
  <2>1. /\ Len(claims') = Len(claims) + 1 /\ Len(claims) \in Nat
        /\ \A i \in 1..Len(claims) : claims'[i] = claims[i]
        /\ claims'[Len(claims) + 1] = c
    BY <1>5, ClaimIs, HistoryFacts, InvParts
  <2>2. /\ page[w].run # None /\ run[page[w].run].req = page[w].req
        /\ run[page[w].run].code = "spent" /\ asked[page[w].req] \in Tier
        /\ page[w].run <= Len(run) /\ page[w].run \in Run
    BY <1>5, InvParts DEF PageShaped, PageBooked, Page
  <2>3. page[w].run \in 1..Len(run) BY <2>2, HistoryFacts, InvParts DEF Run
  <2>4. run[page[w].run].charged BY <2>2, <2>3, InvParts DEF RunsBooked
  <2>5. q.step # "claim"
    BY <1>5, PurchaseFacts DEF Worked, PageShaped
  <2>6. ClaimBooked(c)'
    <3>1. \A v \in Window \ {w} : page'[v].run # c.run
      BY <1>1, <1>5, <2>2, InvParts DEF RunsApart
    <3>2. \A v \in Window : page'[v].step = "claim" => page'[v].run # c.run
      BY <1>1, <2>5, <3>1
    <3>3. /\ c.run <= Len(run) /\ run[c.run].charged /\ run[c.run].code = "spent"
          /\ asked[run[c.run].req] = c.tier
      BY <1>5, <2>2, <2>4
    <3> QED BY <1>2, <3>2, <3>3
  <2>7. ASSUME NEW i \in 1..Len(claims) PROVE ClaimBooked(claims[i])'
    <3>1. \A v \in Window : page'[v].step = "claim" => page'[v].run # claims[i].run
      BY <1>1, <1>3, <2>5
    <3>2. PICK x \in ClaimRecord : x = claims[i] BY <1>3
    <3>3. ClaimBooked(x)' BY <1>2, <1>3, <3>1, <3>2
    <3>4. claims'[i] = x BY <2>1, <3>2
    <3> QED BY <3>3, <3>4 DEF ClaimBooked
  <2>8. ASSUME NEW i \in 1..Len(claims') PROVE ClaimBooked(claims[i])'
    <3>1. CASE i \in 1..Len(claims) BY <2>7, <3>1
    <3>2. CASE i = Len(claims) + 1
      <4>1. claims'[i] = c BY <2>1, <3>2
      <4> QED BY <2>6, <4>1 DEF ClaimBooked
    <3> QED BY <2>1, <3>1, <3>2
  <2>9. \A i \in 1..Len(claims) : claims[i].run # c.run BY <1>3, <1>5
  <2>10. \A i, j \in 1..Len(claims) : claims[i].run = claims[j].run => i = j
    BY InvParts DEF RunsApart
  <2>11. \A i \in 1..Len(claims') : i \in 1..Len(claims) \/ i = Len(claims) + 1
    BY <2>1
  <2>12. \A i, j \in 1..Len(claims') : claims'[i].run = claims'[j].run => i = j
    BY <2>1, <2>9, <2>10, <2>11
  <2> QED BY <2>8, <2>12
<1> QED BY <1>4, <1>5 DEF Worked, ClaimsTurned

LEMMA WorkStep ==
  ASSUME PurchaseInv, BrowserTyped', NEW k, Grown(k), NEW w \in Window, NEW q \in Page,
         Worked(w, q), SignedIn(saved)', RunsBooked',
         \A v \in Window \ {w} : page[v].run = None \/ page[v].run # k,
         trouble' = 0 => AllInCalm'
  PROVE  PurchaseInv' /\ NothingNew
<1>1. \A v \in Window : PageShaped(page[v])' /\ PageBooked(page[v])'
  BY PagesTurned DEF Worked
<1>2. /\ \A v \in Window \ {w} :
           /\ page'[v].run = page[v].run /\ page'[v].at = page[v].at
           /\ page'[v].req = page[v].req /\ page'[v].url = page[v].url
           /\ stash'[v] = stash[v]
      /\ page'[w] = q /\ asked' = asked /\ answered' = answered
      /\ q.run \in {None, page[w].run} \/ q.run = Len(run) + 1
  BY DEF Worked, Turned
<1>3. RunsApart'
  <2>1. \A v, u \in Window : page[v].run # None /\ page[v].run = page[u].run => v = u
    BY InvParts DEF RunsApart
  <2>2. \A v \in Window : page[v].run \in Nat /\ page[v].run <= Len(run)
    BY InvParts, PurchaseFacts DEF PageBooked, Page, Run
  <2>3. \A v \in Window : page[v].run # Len(run) + 1
    BY <2>2, HistoryFacts, InvParts
  <2>4. \A v, u \in Window : page'[v].run # None /\ page'[v].run = page'[u].run => v = u
    BY <1>2, <2>1, <2>3
  <2> QED BY <2>4, ClaimsBooked DEF RunsApart
<1>4. Stashed'
  BY <1>2, InvParts DEF Stashed, Worked
<1>5. NothingNew
  <2> SUFFICES ASSUME NEW v \in Window, NEW r \in RequestId, MayShow(v, r)'
               PROVE  MayShow(v, r)
    BY DEF NothingNew
  <2>1. CASE v = w BY <1>2, <2>1 DEF MayShow, Worked
  <2>2. CASE v # w BY <1>2, <2>2 DEF MayShow
  <2> QED BY <2>1, <2>2
<1>6. RequestsApart'
  <2>2. \A v \in Window, r \in RequestId : MayShow(v, r) =>
          r \notin answered /\ \A u \in Window : MayShow(u, r) => u = v
    BY InvParts DEF RequestsApart
  <2>3. \A v \in Window, r \in RequestId : MayShow(v, r)' =>
          r \notin answered' /\ \A u \in Window : MayShow(u, r)' => u = v
    BY <1>2, <1>5, <2>2 DEF NothingNew
  <2> QED BY <2>3 DEF RequestsApart
<1>7. answered' \subseteq 1..Len(asked') BY <1>2, InvParts
<1> QED BY <1>1, <1>3, <1>4, <1>5, <1>6, <1>7, ClaimsBooked DEF PurchaseInv

-----------------------------------------------------------------------------
(* Beginning an authorization *)

LEMMA ShowTurns ==
  ASSUME BrowserTyped, NEW w \in Window, NEW q \in Page, page' = [page EXCEPT ![w] = q]
  PROVE  Turned(w, q)
BY DEF BrowserTyped, Turned

\* The page at the home after it began, traded or failed to.
HomeTurn(w, q, k) ==
  /\ page' = [page EXCEPT ![w] = q] /\ stash' = [stash EXCEPT ![w] = k]
  /\ k \in {stash[w], page[w].req}
  /\ PageShaped(q) /\ q.at = "home" /\ q.req = page[w].req /\ q.url = page[w].url
  /\ q.session = page[w].session /\ ~q.popup
  /\ UNCHANGED <<asked, paypend, saved, pending, claims, answered>>
  /\ store' \in Person \cup {Nobody} /\ trouble' \in 0..MaxTrouble

LEMMA HomeTurnType ==
  ASSUME BrowserTyped, NEW w \in Window, NEW q \in Page, NEW k \in RequestId \cup {None},
         HomeTurn(w, q, k), run' \in Seq(Authorization), Len(run') <= MaxRuns
  PROVE  BrowserTyped'
<1>1. page' \in [Window -> Page] /\ stash' \in [Window -> RequestId \cup {None}]
  BY DEF BrowserTyped, HomeTurn
<1>2. /\ asked' = asked /\ paypend' = paypend /\ saved' = saved /\ pending' = pending
      /\ claims' = claims /\ answered' = answered
      /\ store' \in Person \cup {Nobody} /\ trouble' \in 0..MaxTrouble
  BY DEF HomeTurn
<1> QED BY <1>1, <1>2 DEF BrowserTyped

LEMMA HomeTurnWorks ==
  ASSUME PurchaseInv, NEW w \in Window, NEW q \in Page, NEW k \in RequestId \cup {None},
         HomeTurn(w, q, k), PageBooked(q)', page[w].at = "home", page[w].req # None,
         q.run \in {None, page[w].run} \/ q.run = Len(run) + 1
  PROVE  Worked(w, q)
<1>1. /\ Turned(w, q) /\ stash'[w] = k
      /\ \A v \in Window \ {w} : stash'[v] = stash[v]
  BY ShowTurns, InvParts DEF HomeTurn, BrowserTyped
<1>2. q.step # "claim" BY DEF HomeTurn, PageShaped
<1>3. k <= Len(asked) BY InvParts DEF HomeTurn, Stashed, PageBooked
<1>4. MayShow(w, q.req) BY DEF HomeTurn, MayShow
<1>5. k # None /\ (w[2] = "tab" \/ ~q.url) => MayShow(w, k)
  BY DEF HomeTurn, MayShow
<1> QED BY <1>1, <1>2, <1>3, <1>4, <1>5 DEF HomeTurn, Worked, ClaimsTurned

LEMMA BegunStep ==
  ASSUME PurchaseInv, NEW w \in Window, NEW q \in Page, NEW k \in RequestId \cup {None},
         NEW c \in BOOLEAN, HomeTurn(w, q, k), Doing(w, "authorize"),
         c = (asked[page[w].req] \in Tier), Len(run) < MaxRuns, run' = Begun(w, c),
         \/ q.step = "submit" /\ q.run = Len(run')
         \/ q.step = "idle" /\ q.run = None,
         trouble' = 0 => trouble = 0 /\ q.step = "submit"
  PROVE  PurchaseInv' /\ NothingNew
<1>1. /\ page[w] \in Page /\ PageShaped(page[w]) /\ PageBooked(page[w])
      /\ page[w].at = "home" /\ page[w].step = "authorize"
  BY InvParts DEF Doing
<1>2. page[w].req # None /\ page[w].who # Nobody /\ page[w].run = None
  BY <1>1 DEF PageShaped
<1>3. page[w].req \in RequestId /\ page[w].who \in Person BY <1>1, <1>2 DEF Page
<1>4. PICK a \in Authorization :
        a = [req |-> page[w].req, who |-> page[w].who, charged |-> c, code |-> "none"]
  BY <1>3 DEF Authorization
<1>5. run' = Append(run, a) BY <1>4 DEF Begun
<1>6. /\ run' \in Seq(Authorization)
      /\ Len(run') = Len(run) + 1 /\ Len(run') \in Run
      /\ \A n \in 1..Len(run) : run'[n] = run[n]
      /\ run'[Len(run')] = a
  BY <1>5, BeginIs, InvParts
<1>7. /\ Len(run) \in Nat /\ Len(asked) \in Nat
      /\ \A n \in 1..Len(run') : n \in 1..Len(run) \/ n = Len(run) + 1
  BY <1>6, HistoryFacts, InvParts
<1>8. /\ asked' = asked /\ saved' = saved /\ paypend' = paypend /\ pending' = pending
      /\ claims' = claims /\ q.req = page[w].req
      /\ page' = [page EXCEPT ![w] = q] /\ PageShaped(q)
      /\ q.session = page[w].session /\ ~q.popup
  BY DEF HomeTurn
<1>9. BrowserTyped' BY <1>6, HomeTurnType, InvParts, PurchaseFacts DEF Run
<1>10. Grown(None) BY <1>6, <1>7, <1>8 DEF Grown
<1>11. SignedIn(saved)' /\ SignedIn(q.session)'
  <2>1. SignedIn(saved) /\ SignedIn(page[w].session) BY <1>1, InvParts DEF PageBooked
  <2>2. PICK s \in Session : s = saved BY InvParts, StashSame
  <2>3. PICK t \in Session : t = q.session BY DEF Page
  <2>4. SignedIn(s)' /\ SignedIn(t)'
    BY <1>8, <1>9, <1>10, <2>1, <2>2, <2>3, SignedInKept, InvParts
  <2> QED BY <1>8, <2>2, <2>3, <2>4 DEF SignedIn
<1>12. PageBooked(q)'
  <2>1. q.req <= Len(asked') BY <1>1, <1>8 DEF PageBooked
  <2>2. CASE q.step = "submit" /\ q.run = Len(run')
    BY <1>4, <1>6, <1>7, <1>8, <1>11, <2>1, <2>2 DEF PageBooked
  <2>3. CASE q.step = "idle" /\ q.run = None
    BY <1>7, <1>6, <1>11, <2>1, <2>3, PurchaseFacts DEF PageBooked
  <2> QED BY <2>2, <2>3
<1>13. Worked(w, q) BY <1>1, <1>2, <1>6, <1>12, HomeTurnWorks
<1>14. RunsBooked'
  <2> SUFFICES ASSUME NEW n \in 1..Len(run')
               PROVE  /\ run'[n].req <= Len(asked)
                      /\ run'[n].charged = (asked[run'[n].req] \in Tier)
    BY <1>8 DEF RunsBooked
  <2>1. CASE n \in 1..Len(run) BY <1>6, <2>1, InvParts DEF RunsBooked
  <2>2. CASE n = Len(run) + 1
    <3>1. run'[n] = a BY <1>6, <2>2
    <3> QED BY <1>1, <1>4, <3>1 DEF PageBooked
  <2> QED BY <1>7, <2>1, <2>2
<1>15. ASSUME trouble' = 0 PROVE AllInCalm'
  <2>1. trouble = 0 /\ q.step = "submit" /\ q.run = Len(run) + 1
    BY <1>6, <1>15, PurchaseFacts
  <2>2. AllInCalm BY <2>1, InvParts
  <2>3. /\ page'[w] = q /\ \A v \in Window \ {w} : page'[v] = page[v]
    BY <1>8, InvParts DEF BrowserTyped
  <2>4. run'[Len(run) + 1].req = page[w].req BY <1>4, <1>6
  <2>5. \A n \in 1..Len(run) : run[n].req # page[w].req
    BY <1>2, <2>2 DEF AllInCalm, CalmPage
  <2>6. \A v \in Window \ {w} : page[v].req # None => page[v].req # page[w].req
    BY <1>2, <2>2 DEF AllInCalm
  <2>7. ASSUME NEW v \in Window \ {w} PROVE CalmPage(v)'
    <3>1. CalmPage(v) /\ PageShaped(page[v]) /\ page[v] \in Page
          /\ PageBooked(page[v])
      BY <2>2, InvParts DEF AllInCalm
    <3>2. \A n \in 1..Len(run') : run'[n].req = page[w].req \/
             (n \in 1..Len(run) /\ run'[n].req = run[n].req)
      BY <1>6, <1>7, <2>4
    <3>3. page[v].step = "token" => run'[page[v].run] = run[page[v].run]
      <4>1. page[v].step = "token" => page[v].run \in 1..Len(run)
        BY <1>7, <3>1 DEF PageShaped, PageBooked, Page, Run, None
      <4> QED BY <1>6, <4>1
    <3> QED BY <1>8, <2>3, <2>6, <3>1, <3>2, <3>3 DEF CalmPage
  <2>8. CalmPage(w)'
    <3>1. CalmPage(w) BY <2>2 DEF AllInCalm
    <3>2. q.run # None BY <1>7, <2>1, PurchaseFacts
    <3> QED BY <1>8, <2>1, <2>3, <3>1, <3>2 DEF CalmPage
  <2>9. \A v, u \in Window : page'[v].req # None /\ page'[v].req = page'[u].req => v = u
    <3>1. \A v \in Window : page'[v].req = page[v].req BY <1>8, <2>3
    <3> QED BY <2>2, <3>1 DEF AllInCalm
  <2>10. \A m, n \in 1..Len(run') : run'[m].req = run'[n].req => m = n
    <3>1. \A m, n \in 1..Len(run) : run[m].req = run[n].req => m = n
      BY <2>2 DEF AllInCalm
    <3> QED BY <1>6, <1>7, <2>4, <2>5, <3>1
  <2>11. ASSUME NEW n \in 1..Len(run'), run'[n].charged PROVE Carried(n)'
    <3>1. CASE n = Len(run) + 1 BY <2>1, <2>3, <3>1 DEF Carried
    <3>2. CASE n \in 1..Len(run)
      <4>1. Carried(n) BY <1>6, <2>2, <2>11, <3>2 DEF AllInCalm
      <4>2. n # None BY <1>7, <3>2, PurchaseFacts
      <4> QED BY <1>2, <1>8, <2>3, <4>1, <4>2 DEF Carried
    <3> QED BY <1>7, <3>1, <3>2
  <2>12. saved' # None BY <1>8, <2>2 DEF AllInCalm
  <2> QED BY <2>7, <2>8, <2>9, <2>10, <2>11, <2>12 DEF AllInCalm
<1>16. \A v \in Window \ {w} : page[v].run = None \/ page[v].run # None OBVIOUS
<1> QED BY <1>9, <1>10, <1>11, <1>13, <1>14, <1>15, <1>16, WorkStep

\* The page goes on with its authorization, n.
LEMMA GoesOn ==
  ASSUME PurchaseInv, NEW w \in Window, Doing(w, "authorize"), NEW n \in Run
  PROVE  \E q \in Page :
           /\ q = [page[w] EXCEPT !.step = "submit", !.run = n]
           /\ PageShaped(q) /\ q.at = "home" /\ q.req = page[w].req
           /\ q.url = page[w].url /\ q.session = page[w].session /\ ~q.popup
           /\ q.step = "submit" /\ q.run = n
<1>1. /\ page[w] \in Page /\ PageShaped(page[w])
      /\ page[w].at = "home" /\ page[w].step = "authorize"
  BY InvParts DEF Doing
<1>2. PICK x \in Page : x = [page[w] EXCEPT !.step = "submit"] BY <1>1 DEF Page
<1>3. /\ x.at = "home" /\ x.req = page[w].req /\ x.url = page[w].url
      /\ x.who = page[w].who /\ x.session = page[w].session /\ x.popup = page[w].popup
      /\ x.step = "submit"
  BY <1>1, <1>2 DEF Page
<1>4. PICK q \in Page : q = [x EXCEPT !.run = n] BY DEF Page
<1>5. /\ q.at = "home" /\ q.req = page[w].req /\ q.url = page[w].url
      /\ q.who = page[w].who /\ q.session = page[w].session /\ q.popup = page[w].popup
      /\ q.step = "submit" /\ q.run = n
  BY <1>3, <1>4 DEF Page
<1>6. q = [page[w] EXCEPT !.step = "submit", !.run = n] BY <1>2, <1>4
<1>7. PageShaped(q) /\ ~q.popup BY <1>1, <1>5, PurchaseFacts DEF PageShaped
<1> QED BY <1>5, <1>6, <1>7

LEMMA ChargeStep ==
  ASSUME PurchaseInv, NEW w \in Window, Charge(w)
  PROVE  PurchaseInv' /\ NothingNew
<1>1. /\ Doing(w, "authorize") /\ asked[page[w].req] \in Tier
      /\ Len(run) < MaxRuns /\ run' = Begun(w, TRUE)
      /\ UNCHANGED <<asked, paypend, saved, pending, claims, answered>>
  BY DEF Charge
<1>2. PICK c \in BOOLEAN : c = TRUE OBVIOUS
<1>3. /\ page[w] \in Page /\ PageShaped(page[w])
      /\ page[w].at = "home" /\ page[w].step = "authorize" /\ page[w].req # None
  BY <1>1, InvParts DEF Doing, PageShaped
<1>4. Len(run') \in Run
  <2>1. page[w].who \in Person /\ page[w].req \in RequestId
    BY <1>3 DEF PageShaped, Page
  <2>2. PICK a \in Authorization :
          a = [req |-> page[w].req, who |-> page[w].who, charged |-> c, code |-> "none"]
    BY <2>1 DEF Authorization
  <2> QED BY <1>1, <1>2, <2>2, BeginIs, InvParts DEF Begun
<1>5. CASE /\ Show(w, [page[w] EXCEPT !.step = "submit", !.run = Len(run')])
           /\ UNCHANGED <<store, stash>> /\ Calmly
  <2>1. PICK n \in Run : n = Len(run') BY <1>4
  <2>2. PICK q \in Page :
           /\ q = [page[w] EXCEPT !.step = "submit", !.run = n]
           /\ PageShaped(q) /\ q.at = "home" /\ q.req = page[w].req
           /\ q.url = page[w].url /\ q.session = page[w].session /\ ~q.popup
           /\ q.step = "submit" /\ q.run = n
    BY <1>1, GoesOn
  <2>3. PICK k \in RequestId \cup {None} : k = stash[w] BY InvParts, StashSame
  <2>4. HomeTurn(w, q, k)
    BY <1>1, <1>5, <2>1, <2>2, <2>3, StashSame, TroubleIs, InvParts DEF HomeTurn, Show
  <2>5. trouble' = 0 => trouble = 0 /\ q.step = "submit" BY <1>5, <2>2 DEF Calmly
  <2> QED BY <1>1, <1>2, <2>1, <2>2, <2>4, <2>5, BegunStep
<1>6. CASE Failed(w) /\ Trouble
  <2>1. PICK q \in Page, k \in RequestId \cup {None} :
           /\ page' = [page EXCEPT ![w] = q] /\ stash' = [stash EXCEPT ![w] = k]
           /\ store' \in Person \cup {Nobody} /\ k \in {stash[w], page[w].req}
           /\ PageShaped(q) /\ q.at = "home" /\ q.req = page[w].req
           /\ q.url = page[w].url /\ q.run = None /\ q.step = "idle" /\ ~q.popup
           /\ q.session = page[w].session
    BY <1>3, <1>6, FailedIs
  <2>2. HomeTurn(w, q, k)
    BY <1>1, <1>6, <2>1, TroubleIs, InvParts DEF HomeTurn
  <2>3. trouble' # 0 BY <1>6, TroubleIs, InvParts
  <2> QED BY <1>1, <1>2, <2>1, <2>2, <2>3, BegunStep
<1> QED BY <1>5, <1>6 DEF Charge

LEMMA GrantedStep ==
  ASSUME PurchaseInv, NEW w \in Window, Granted(w)
  PROVE  PurchaseInv' /\ NothingNew
<1>1. /\ Doing(w, "authorize") /\ asked[page[w].req] = "login"
      /\ Len(run) < MaxRuns /\ run' = Begun(w, FALSE)
      /\ page' = [page EXCEPT ![w] =
                    [page[w] EXCEPT !.step = "submit", !.run = Len(run')]]
      /\ Calmly
      /\ UNCHANGED <<asked, paypend, saved, store, pending, stash, claims, answered>>
  BY DEF Granted, Show
<1>2. PICK c \in BOOLEAN : c = FALSE OBVIOUS
<1>3. /\ page[w] \in Page /\ PageShaped(page[w])
      /\ page[w].at = "home" /\ page[w].step = "authorize" /\ page[w].req # None
  BY <1>1, InvParts DEF Doing, PageShaped
<1>4. Len(run') \in Run
  <2>1. page[w].who \in Person /\ page[w].req \in RequestId
    BY <1>3 DEF PageShaped, Page
  <2>2. PICK a \in Authorization :
          a = [req |-> page[w].req, who |-> page[w].who, charged |-> c, code |-> "none"]
    BY <2>1 DEF Authorization
  <2> QED BY <1>1, <1>2, <2>2, BeginIs, InvParts DEF Begun
<1>5. asked[page[w].req] \notin Tier BY <1>1, PurchaseFacts
<1>6. PICK n \in Run : n = Len(run') BY <1>4
<1>7. PICK q \in Page :
         /\ q = [page[w] EXCEPT !.step = "submit", !.run = n]
         /\ PageShaped(q) /\ q.at = "home" /\ q.req = page[w].req
         /\ q.url = page[w].url /\ q.session = page[w].session /\ ~q.popup
         /\ q.step = "submit" /\ q.run = n
  BY <1>1, GoesOn
<1>8. PICK k \in RequestId \cup {None} : k = stash[w] BY InvParts, StashSame
<1>9. HomeTurn(w, q, k)
  BY <1>1, <1>6, <1>7, <1>8, StashSame, TroubleIs, InvParts DEF HomeTurn
<1>10. trouble' = 0 => trouble = 0 /\ q.step = "submit" BY <1>1, <1>7 DEF Calmly
<1>11. c = (asked[page[w].req] \in Tier) BY <1>2, <1>5
<1> QED BY <1>1, <1>2, <1>6, <1>7, <1>9, <1>10, <1>11, BegunStep

-----------------------------------------------------------------------------
(* Trading: the code of the page's authorization changes *)

\* The code of run n becomes c, which it does not when it is spent.
LEMMA CodeGrows ==
  ASSUME PurchaseInv, NEW n \in 1..Len(run), NEW c \in {"none", "live", "spent"},
         run' = [run EXCEPT ![n].code = c], asked' = asked,
         run[n].code = "spent" => c = "spent"
  PROVE  /\ Grown(n) /\ RunsBooked' /\ run' \in Seq(Authorization)
         /\ Len(run') = Len(run)
         /\ \A m \in 1..Len(run) : m # n => run'[m] = run[m]
         /\ \A m \in 1..Len(run) : /\ run'[m].req = run[m].req
                                   /\ run'[m].charged = run[m].charged
         /\ run'[n].code = c
<1>1. /\ run' \in Seq(Authorization) /\ Len(run') = Len(run)
      /\ \A m \in 1..Len(run) : m # n => run'[m] = run[m]
      /\ run'[n].code = c /\ run'[n].req = run[n].req
      /\ run'[n].charged = run[n].charged
  BY CodeIs, InvParts
<1>2. \A m \in 1..Len(run) : /\ run'[m].req = run[m].req
                             /\ run'[m].charged = run[m].charged
  BY <1>1
<1>3. Grown(n)
  <2>1. Len(asked) <= Len(asked') /\ Len(run) <= Len(run')
    BY <1>1, HistoryFacts, InvParts
  <2> QED BY <1>1, <1>2, <2>1 DEF Grown
<1>4. RunsBooked'
  BY <1>1, <1>2, InvParts DEF RunsBooked
<1> QED BY <1>1, <1>2, <1>3, <1>4

LEMMA SubmitStep ==
  ASSUME PurchaseInv, NEW w \in Window, Submit(w)
  PROVE  PurchaseInv' /\ NothingNew
<1>1. /\ page[w].at = "home" /\ page[w].step = "submit"
      /\ run' = [run EXCEPT ![page[w].run].code = "live"]
      /\ UNCHANGED <<asked, paypend, saved, pending, claims, answered>>
  BY DEF Submit, Doing
<1>2. page[w] \in Page /\ PageShaped(page[w]) /\ PageBooked(page[w]) BY InvParts
<1>3. /\ page[w].req # None /\ page[w].run # None /\ run[page[w].run].code = "none"
      /\ run[page[w].run].req = page[w].req
  BY <1>1, <1>2 DEF PageShaped, PageBooked
<1>4. page[w].run \in 1..Len(run)
  BY <1>2, <1>3, HistoryFacts, InvParts DEF PageBooked, Page, Run
<1>5. PICK n \in 1..Len(run) : n = page[w].run BY <1>4
<1>6. PICK c \in {"none", "live", "spent"} : c = "live" OBVIOUS
<1>7. /\ Grown(n) /\ RunsBooked' /\ run' \in Seq(Authorization)
      /\ Len(run') = Len(run)
      /\ \A m \in 1..Len(run) : m # n => run'[m] = run[m]
      /\ \A m \in 1..Len(run) : /\ run'[m].req = run[m].req
                                /\ run'[m].charged = run[m].charged
      /\ run'[n].code = c
  BY <1>1, <1>3, <1>5, <1>6, CodeGrows
<1>8. \E q \in Page, k \in RequestId \cup {None} :
        /\ HomeTurn(w, q, k)
        /\ \/ q.step = "deliver" /\ q.run = n /\ trouble' = trouble
           \/ q.step = "idle" /\ q.run = None /\ trouble' # 0
  <2>1. CASE /\ Show(w, [page[w] EXCEPT !.step = "deliver"])
             /\ UNCHANGED <<store, stash>> /\ Calmly
    <3>1. PICK q \in Page : q = [page[w] EXCEPT !.step = "deliver"] BY <1>2 DEF Page
    <3>2. /\ q.at = "home" /\ q.req = page[w].req /\ q.url = page[w].url
          /\ q.who = page[w].who /\ q.session = page[w].session
          /\ q.popup = page[w].popup /\ q.run = n /\ q.step = "deliver"
      BY <1>1, <1>2, <1>5, <3>1 DEF Page
    <3>3. PageShaped(q) /\ ~q.popup BY <1>1, <1>2, <1>3, <1>5, <3>2 DEF PageShaped
    <3>4. PICK k \in RequestId \cup {None} : k = stash[w] BY InvParts, StashSame
    <3>5. HomeTurn(w, q, k)
      BY <1>1, <2>1, <3>1, <3>2, <3>3, <3>4, StashSame, TroubleIs, InvParts
         DEF HomeTurn, Show
    <3> QED BY <2>1, <3>2, <3>5 DEF Calmly
  <2>2. CASE Failed(w) /\ Trouble
    <3>1. PICK q \in Page, k \in RequestId \cup {None} :
           /\ page' = [page EXCEPT ![w] = q] /\ stash' = [stash EXCEPT ![w] = k]
           /\ store' \in Person \cup {Nobody} /\ k \in {stash[w], page[w].req}
           /\ PageShaped(q) /\ q.at = "home" /\ q.req = page[w].req
           /\ q.url = page[w].url /\ q.run = None /\ q.step = "idle" /\ ~q.popup
           /\ q.session = page[w].session
      BY <1>1, <1>3, <2>2, FailedIs
    <3>2. HomeTurn(w, q, k)
      BY <1>1, <2>2, <3>1, TroubleIs, InvParts DEF HomeTurn
    <3>3. trouble' # 0 BY <2>2, TroubleIs, InvParts
    <3> QED BY <3>1, <3>2, <3>3
  <2> QED BY <2>1, <2>2 DEF Submit
<1>9. PICK q \in Page, k \in RequestId \cup {None} :
        /\ HomeTurn(w, q, k)
        /\ \/ q.step = "deliver" /\ q.run = n /\ trouble' = trouble
           \/ q.step = "idle" /\ q.run = None /\ trouble' # 0
  BY <1>8
<1>10. /\ asked' = asked /\ saved' = saved /\ paypend' = paypend /\ pending' = pending
       /\ claims' = claims /\ q.req = page[w].req
       /\ page' = [page EXCEPT ![w] = q] /\ PageShaped(q)
       /\ q.session = page[w].session /\ ~q.popup
  BY <1>9 DEF HomeTurn
<1>11. BrowserTyped'
  BY <1>7, <1>9, HomeTurnType, InvParts DEF BrowserTyped
<1>12. SignedIn(saved)' /\ SignedIn(q.session)'
  <2>1. SignedIn(saved) /\ SignedIn(page[w].session) BY <1>2, InvParts DEF PageBooked
  <2>2. PICK s \in Session : s = saved BY InvParts, StashSame
  <2>3. PICK t \in Session : t = q.session BY DEF Page
  <2>4. SignedIn(s)' /\ SignedIn(t)'
    BY <1>7, <1>10, <1>11, <2>1, <2>2, <2>3, SignedInKept, InvParts
  <2> QED BY <1>10, <2>2, <2>3, <2>4 DEF SignedIn
<1>13. PageBooked(q)'
  <2>1. q.req <= Len(asked') BY <1>2, <1>10 DEF PageBooked
  <2>2. CASE q.step = "deliver" /\ q.run = n
    <3>1. n <= Len(run') /\ run'[n].req = q.req
      BY <1>3, <1>5, <1>7, <1>10, HistoryFacts, InvParts
    <3> QED BY <1>6, <1>7, <1>12, <2>1, <2>2, <3>1 DEF PageBooked
  <2>3. CASE q.step = "idle" /\ q.run = None
    <3>1. q.run <= Len(run') BY <2>3, <1>7, HistoryFacts, InvParts, PurchaseFacts
    <3> QED BY <1>12, <2>1, <2>3, <3>1 DEF PageBooked
  <2> QED BY <1>9, <2>2, <2>3
<1>14. Worked(w, q) BY <1>1, <1>3, <1>5, <1>9, <1>13, HomeTurnWorks
<1>15. \A v \in Window \ {w} : page[v].run = None \/ page[v].run # n
  BY <1>3, <1>5, InvParts DEF RunsApart
<1>16. ASSUME trouble' = 0 PROVE AllInCalm'
  <2>1. trouble = 0 /\ q.step = "deliver" /\ q.run = page[w].run BY <1>5, <1>9, <1>16
  <2>2. AllInCalm BY <2>1, InvParts
  <2>3. /\ page'[w] = q /\ \A v \in Window \ {w} : page'[v] = page[v]
    BY <1>10, InvParts DEF BrowserTyped
  <2>4. ASSUME NEW v \in Window \ {w} PROVE CalmPage(v)'
    <3>1. CalmPage(v) /\ PageShaped(page[v]) /\ page[v] \in Page
          /\ PageBooked(page[v])
      BY <2>2, InvParts DEF AllInCalm
    <3>2. page[v].step = "token" => run'[page[v].run] = run[page[v].run]
      <4>1. page[v].step = "token" => page[v].run \in 1..Len(run) /\ page[v].run # n
        BY <1>15, <3>1, HistoryFacts, InvParts
           DEF PageShaped, PageBooked, Page, Run, None
      <4> QED BY <1>7, <4>1
    <3> QED BY <1>7, <1>10, <2>3, <3>1, <3>2 DEF CalmPage
  <2>5. CalmPage(w)'
    <3>1. CalmPage(w) BY <2>2 DEF AllInCalm
    <3> QED BY <1>3, <1>10, <2>1, <2>3, <3>1 DEF CalmPage
  <2>6. \A v \in Window : page'[v].req = page[v].req /\ page'[v].run = page[v].run
    BY <1>10, <2>1, <2>3
  <2>7. \A v, u \in Window : page'[v].req # None /\ page'[v].req = page'[u].req => v = u
    BY <2>2, <2>6 DEF AllInCalm
  <2>8. \A m, j \in 1..Len(run') : run'[m].req = run'[j].req => m = j
    BY <1>7, <2>2 DEF AllInCalm
  <2>9. \A m \in 1..Len(run') : run'[m].charged => Carried(m)'
    BY <1>7, <1>10, <2>2, <2>6 DEF AllInCalm, Carried
  <2>10. saved' # None BY <1>10, <2>2 DEF AllInCalm
  <2> QED BY <2>4, <2>5, <2>7, <2>8, <2>9, <2>10 DEF AllInCalm
<1> QED BY <1>7, <1>11, <1>12, <1>14, <1>15, <1>16, WorkStep

-----------------------------------------------------------------------------
(* The end of the way back: the window's authorization is done with *)

\* Window w turns to page q, whose session is s unless it is closed.
EndTurn(w, s, q) ==
  /\ Turned(w, q) /\ PageShaped(q)
  /\ q.at \in {"closed", "app"} /\ q.req = None /\ ~q.url /\ q.run = None
  /\ q.step = "idle" /\ ~q.popup /\ q.session \in {None, s}
  /\ pending' \in [Window -> RequestId \cup {None}]
  /\ stash' \in [Window -> RequestId \cup {None}]
  /\ \A v \in Window \ {w} : pending'[v] = pending[v] /\ stash'[v] = stash[v]
  /\ stash'[w] \in {None, stash[w]}
  /\ paypend' = IF page[w].popup THEN None ELSE paypend

LEMMA EndedIs ==
  ASSUME PurchaseInv, NEW w \in Window, NEW s \in Session, saved' \in Session,
         Ended(w, s)
  PROVE  \E q \in Page : EndTurn(w, s, q)
<1>1. /\ page \in [Window -> Page] /\ pending \in [Window -> RequestId \cup {None}]
      /\ stash \in [Window -> RequestId \cup {None}]
  BY InvParts DEF BrowserTyped
<1>2. CASE page[w].popup
  <2>1. /\ paypend' = None
        /\ page' = [v \in Window |->
             IF v = w THEN Closed
             ELSE IF Ready(v) THEN [page[v] EXCEPT !.session = saved']
             ELSE page[v]]
        /\ pending' = [pending EXCEPT ![w] = None]
        /\ stash' = [stash EXCEPT ![w] = None]
    BY <1>2 DEF Ended, Emptied, Keep
  <2>2. PICK t \in Session : t = saved' OBVIOUS
  <2>3. ASSUME NEW v \in Window \ {w}
        PROVE  /\ page'[v] \in Page
               /\ page'[v].at = page[v].at /\ page'[v].req = page[v].req
               /\ page'[v].url = page[v].url /\ page'[v].who = page[v].who
               /\ page'[v].run = page[v].run /\ page'[v].step = page[v].step
               /\ page'[v].popup = page[v].popup
               /\ page'[v].session \in {page[v].session, saved'}
    <3>1. PICK x \in Page : x = page[v] BY <1>1
    <3>2. PICK y \in Page : y = [x EXCEPT !.session = t] BY DEF Page
    <3>3. /\ y.at = x.at /\ y.req = x.req /\ y.url = x.url /\ y.who = x.who
          /\ y.run = x.run /\ y.step = x.step /\ y.popup = x.popup /\ y.session = t
      BY <3>2 DEF Page
    <3>4. page'[v] = IF Ready(v) THEN [x EXCEPT !.session = t] ELSE x
      BY <2>1, <2>2, <3>1
    <3>5. page'[v] = x \/ page'[v] = y BY <3>2, <3>4
    <3> QED BY <2>2, <3>1, <3>3, <3>5
  <2>4. page'[w] = Closed BY <2>1
  <2>5. PICK q \in Page : q = Closed BY ClosedIs
  <2>6. page' \in [Window -> Page]
    <3>1. \A v \in Window : page'[v] \in Page BY <2>3, <2>4, <2>5
    <3>2. PICK f : f = page' OBVIOUS
    <3>3. f = [v \in Window |-> f[v]] BY <2>1, <3>2
    <3> QED BY <3>1, <3>2, <3>3
  <2>7. Turned(w, q) BY <2>3, <2>4, <2>5, <2>6 DEF Turned
  <2>8. /\ pending' \in [Window -> RequestId \cup {None}]
        /\ stash' \in [Window -> RequestId \cup {None}]
        /\ \A v \in Window \ {w} : pending'[v] = pending[v] /\ stash'[v] = stash[v]
        /\ stash'[w] = None
    BY <1>1, <2>1
  <2> QED BY <1>2, <2>1, <2>5, <2>7, <2>8, ClosedIs DEF EndTurn
<1>3. CASE ~page[w].popup
  <2>1. /\ paypend' = paypend /\ stash' = stash
        /\ page' = [page EXCEPT ![w] = Explorer(s)]
        /\ pending' = [pending EXCEPT ![w] = None]
    BY <1>3 DEF Ended, Keep, Show
  <2>2. PICK q \in Page : q = Explorer(s) BY ExplorerIs
  <2>3. Turned(w, q) BY <2>1, <2>2, ShowTurns, InvParts
  <2>4. /\ pending' \in [Window -> RequestId \cup {None}]
        /\ \A v \in Window \ {w} : pending'[v] = pending[v]
    BY <1>1, <2>1
  <2> QED BY <1>1, <1>3, <2>1, <2>2, <2>3, <2>4, ExplorerIs DEF EndTurn
<1> QED BY <1>2, <1>3

\* Of the runs only the code of k changed, and of it only forwards.
Traced(k) ==
  /\ Grown(k) /\ RunsBooked' /\ run' \in Seq(Authorization) /\ Len(run') = Len(run)
  /\ \A n \in 1..Len(run) : /\ run'[n].req = run[n].req
                            /\ run'[n].charged = run[n].charged
                            /\ n # k => run'[n] = run[n]

\* In calm a charge the page carried has been claimed.
CalmEnd(w) ==
  /\ trouble = 0 /\ saved' # None
  /\ Len(claims) <= Len(claims') /\ \A i \in 1..Len(claims) : claims'[i] = claims[i]
  /\ \A n \in 1..Len(run) : run[n].charged /\ n = page[w].run =>
       \E i \in 1..Len(claims') : claims'[i].run = n

LEMMA EndCalm ==
  ASSUME PurchaseInv, NEW w \in Window, NEW s \in Session, NEW q \in Page,
         EndTurn(w, s, q), NEW k, Traced(k), asked' = asked, Len(claims') \in Nat,
         page[w].req # None, CalmEnd(w),
         \A v \in Window \ {w} : page[v].run = None \/ page[v].run # k
  PROVE  AllInCalm'
<1>1. AllInCalm /\ saved' # None BY InvParts DEF CalmEnd
<1>2. /\ page'[w] = q /\ q.req = None /\ q.run = None /\ q.step = "idle" /\ ~q.popup
      /\ \A v \in Window \ {w} :
           /\ page'[v].req = page[v].req /\ page'[v].run = page[v].run
           /\ page'[v].step = page[v].step /\ page'[v].popup = page[v].popup
           /\ page'[v].session \in {page[v].session, saved'}
           /\ pending'[v] = pending[v]
      /\ paypend' = IF page[w].popup THEN None ELSE paypend
  BY DEF EndTurn, Turned
<1>3. Len(run') = Len(run) /\ \A n \in 1..Len(run) : run'[n].req = run[n].req
  BY DEF Traced
<1>4. \A v, u \in Window : page[v].req # None /\ page[v].req = page[u].req => v = u
  BY <1>1 DEF AllInCalm
<1>5. page[w].popup => paypend = page[w].req
  BY <1>1 DEF AllInCalm, CalmPage
<1>6. ASSUME NEW v \in Window \ {w} PROVE CalmPage(v)'
  <2>1. CalmPage(v) /\ PageShaped(page[v]) /\ page[v] \in Page /\ PageBooked(page[v])
    BY <1>1, InvParts DEF AllInCalm
  <2>2. page[v].req # None => page[v].req # page[w].req BY <1>4
  <2>3. page[v].req # None => paypend' = page[v].req \/ pending[v] = page[v].req
    BY <1>2, <1>5, <2>1, <2>2 DEF CalmPage
  <2>4. page[v].popup => paypend' = page[v].req
    BY <1>2, <1>5, <2>1, <2>2 DEF CalmPage, PageShaped
  <2>5. page[v].step = "token" => run'[page[v].run] = run[page[v].run]
    <3>1. page[v].step = "token" => page[v].run \in 1..Len(run) /\ page[v].run # k
      BY <2>1, HistoryFacts, InvParts
         DEF PageShaped, PageBooked, Page, Run, None
    <3> QED BY <3>1 DEF Traced
  <2>6. page'[v].run = None /\ page'[v].req # None =>
          \A n \in 1..Len(run') : run'[n].req # page'[v].req
    BY <1>2, <1>3, <2>1 DEF CalmPage
  <2>7. page'[v].step = "token" => run'[page'[v].run].code = "live"
    BY <1>2, <2>1, <2>5 DEF CalmPage
  <2>8. page'[v].step \in {"token", "claim"} => page'[v].session # None
    BY <1>1, <1>2, <2>1 DEF CalmPage
  <2> QED BY <1>2, <2>3, <2>4, <2>6, <2>7, <2>8 DEF CalmPage
<1>7. CalmPage(w)' BY <1>2 DEF CalmPage
<1>8. \A v, u \in Window : page'[v].req # None /\ page'[v].req = page'[u].req => v = u
  BY <1>2, <1>4
<1>9. \A m, n \in 1..Len(run') : run'[m].req = run'[n].req => m = n
  BY <1>1, <1>3 DEF AllInCalm
<1>10. ASSUME NEW n \in 1..Len(run'), run'[n].charged PROVE Carried(n)'
  <2>1. n \in 1..Len(run) /\ run[n].charged BY <1>3, <1>10 DEF Traced
  <2>2. Carried(n) BY <1>1, <2>1 DEF AllInCalm
  <2>3. CASE \E i \in 1..Len(claims) : claims[i].run = n
    <3>1. PICK i \in 1..Len(claims) : claims[i].run = n BY <2>3
    <3>2. i \in 1..Len(claims') /\ claims'[i] = claims[i]
      BY <3>1, HistoryFacts, InvParts DEF CalmEnd
    <3> QED BY <3>1, <3>2 DEF Carried
  <2>4. CASE page[w].run = n BY <2>1, <2>4 DEF CalmEnd, Carried
  <2>5. CASE \E v \in Window \ {w} : page[v].run = n
    BY <1>2, <2>5 DEF Carried
  <2> QED BY <2>2, <2>3, <2>4, <2>5 DEF Carried
<1> QED BY <1>1, <1>6, <1>7, <1>8, <1>9, <1>10 DEF AllInCalm

LEMMA EndedStep ==
  ASSUME PurchaseInv, NEW w \in Window, NEW s \in Session, NEW q \in Page,
         EndTurn(w, s, q), NEW k, Traced(k), ClaimsTurned(w, q),
         claims' \in Seq(ClaimRecord), saved' \in Session,
         UNCHANGED <<asked, store, answered>>,
         page[w].at = "app", page[w].req # None,
         SignedIn(s)', SignedIn(saved)', trouble' \in 0..MaxTrouble,
         trouble' = 0 => CalmEnd(w),
         \A v \in Window \ {w} : page[v].run = None \/ page[v].run # k
  PROVE  PurchaseInv' /\ NothingNew
<1>0. asked' = asked /\ store' = store /\ answered' = answered OBVIOUS
<1>1. BrowserTyped'
  <2>1. paypend' \in RequestId \cup {None} BY InvParts DEF EndTurn, BrowserTyped
  <2>2. run' \in Seq(Authorization) /\ Len(run') <= MaxRuns
    BY InvParts DEF Traced, BrowserTyped
  <2>3. /\ page' \in [Window -> Page] /\ stash' \in [Window -> RequestId \cup {None}]
        /\ pending' \in [Window -> RequestId \cup {None}]
    BY DEF EndTurn, Turned
  <2> QED BY <1>0, <2>1, <2>2, <2>3, InvParts DEF BrowserTyped, ClaimRecord
<1>2. Len(run') \in Nat /\ Len(asked') \in Nat /\ Len(claims') \in Nat
  BY <1>1, LaterLengths
<1>3. PageBooked(q)'
  <2>1. SignedIn(q.session)' BY NoSession DEF EndTurn, SignedIn
  <2> QED BY <1>2, <2>1, PurchaseFacts DEF EndTurn, PageBooked
<1>4. stash'[w] <= Len(asked)
  BY HistoryFacts, InvParts, PurchaseFacts DEF EndTurn, Stashed
<1>5. stash'[w] # None => MayShow(w, stash'[w])
  <2>1. ~page[w].url BY InvParts DEF PageShaped
  <2> QED BY <2>1 DEF EndTurn, MayShow
<1>6. Worked(w, q)
  BY <1>0, <1>3, <1>4, <1>5 DEF Worked, EndTurn
<1>7. trouble' = 0 => AllInCalm' BY <1>0, <1>2, EndCalm
<1> QED BY <1>1, <1>6, <1>7, WorkStep DEF Traced

\* What a page that trades or claims has to hand.
LEMMA OnTheWay ==
  ASSUME PurchaseInv, NEW w \in Window, page[w].step \in {"token", "claim"}
  PROVE  /\ page[w] \in Page /\ PageShaped(page[w]) /\ PageBooked(page[w])
         /\ page[w].at = "app" /\ page[w].req # None /\ page[w].run # None
         /\ page[w].run \in 1..Len(run) /\ page[w].run \in Session
         /\ run[page[w].run].req = page[w].req
         /\ page[w].session \in Session /\ SignedIn(page[w].session)
         /\ page[w].req \in 1..Len(asked)
         /\ run[page[w].run] \in Authorization
         /\ \A v \in Window \ {w} : page[v].run = None \/ page[v].run # page[w].run
<1>1. /\ page[w] \in Page /\ PageShaped(page[w]) /\ PageBooked(page[w])
      /\ page[w].at = "app" /\ page[w].req # None /\ page[w].run # None
  BY InvParts DEF PageShaped
<1>2. page[w].run \in 1..Len(run) /\ page[w].run \in Session
  BY <1>1, HistoryFacts, InvParts DEF PageBooked, Page, Run, None, Session
<1>3. page[w].req \in 1..Len(asked)
  BY <1>1, HistoryFacts, InvParts DEF PageBooked, Page, RequestId, None
<1>4. \A v \in Window \ {w} : page[v].run = None \/ page[v].run # page[w].run
  BY <1>1, InvParts DEF RunsApart
<1>5. run[page[w].run] \in Authorization BY <1>2, HistoryFacts, InvParts
<1> QED BY <1>1, <1>2, <1>3, <1>4, <1>5 DEF PageBooked, Page

\* A session signed in to stays one when a code is spent.
LEMMA SignedInTraced ==
  ASSUME PurchaseInv, NEW k, Traced(k), asked' = asked, NEW s \in Session, SignedIn(s)
  PROVE  SignedIn(s)'
<1>1. CASE s = None BY <1>1 DEF SignedIn
<1>2. CASE s # None
  <2>1. s \in 1..Len(run) /\ asked[run[s].req] = "login" /\ run[s].code = "spent"
    BY <1>2, HistoryFacts, InvParts DEF SignedIn, Session, Run, None
  <2>2. run'[s].req = run[s].req /\ run'[s].code = "spent" /\ s <= Len(run')
    BY <2>1 DEF Traced, Grown
  <2> QED BY <2>1, <2>2 DEF SignedIn
<1> QED BY <1>1, <1>2

\* The tokens of a purchase are there: on to the claim.
LEMMA ToClaimStep ==
  ASSUME PurchaseInv, NEW w \in Window, page[w].step = "token",
         NEW n \in 1..Len(run), n = page[w].run, Traced(n), run'[n].code = "spent",
         run[n].code = "live", asked[page[w].req] \in Tier,
         saved' = IF page[w].session # None THEN page[w].session ELSE saved,
         page' = [page EXCEPT ![w] = [page[w] EXCEPT !.step = "claim"]],
         UNCHANGED <<asked, store, answered, paypend, pending, stash, claims, trouble>>
  PROVE  PurchaseInv' /\ NothingNew
<1>0. /\ asked' = asked /\ store' = store /\ answered' = answered
      /\ paypend' = paypend /\ pending' = pending /\ stash' = stash
      /\ claims' = claims /\ trouble' = trouble
  OBVIOUS
<1>1. /\ page[w] \in Page /\ PageShaped(page[w]) /\ PageBooked(page[w])
      /\ page[w].at = "app" /\ page[w].req # None /\ page[w].run # None
      /\ run[n].req = page[w].req
      /\ page[w].session \in Session /\ SignedIn(page[w].session)
      /\ \A v \in Window \ {w} : page[v].run = None \/ page[v].run # n
  BY OnTheWay
<1>2. PICK q \in Page : q = [page[w] EXCEPT !.step = "claim"] BY <1>1 DEF Page
<1>3. /\ q.at = page[w].at /\ q.req = page[w].req /\ q.url = page[w].url
      /\ q.session = page[w].session /\ q.run = n /\ q.step = "claim"
      /\ q.popup = page[w].popup /\ q.who = page[w].who
  BY <1>1, <1>2 DEF Page
<1>4. page' = [page EXCEPT ![w] = q] BY <1>2
<1>5. saved' \in Session /\ SignedIn(saved')
  BY <1>1, InvParts, StashSame DEF SignedIn
<1>6. Turned(w, q) BY <1>4, ShowTurns, InvParts
<1>7. /\ run' \in Seq(Authorization) /\ Len(run') = Len(run) /\ Grown(n) /\ RunsBooked'
      /\ \A m \in 1..Len(run) : /\ run'[m].req = run[m].req
                                /\ run'[m].charged = run[m].charged
                                /\ m # n => run'[m] = run[m]
  BY DEF Traced
<1>8. BrowserTyped'
  BY <1>0, <1>5, <1>6, <1>7, InvParts DEF BrowserTyped, Turned
<1>9. SignedIn(saved)' /\ SignedIn(q.session)'
  <2>1. PICK s \in Session : s = saved' BY <1>5
  <2>2. PICK t \in Session : t = q.session BY <1>1, <1>3
  <2>3. SignedIn(s)' /\ SignedIn(t)' BY <1>0, <1>1, <1>3, <1>5, <2>1, <2>2, SignedInTraced
  <2> QED BY <2>1, <2>2, <2>3 DEF SignedIn
<1>10. PageShaped(q) BY <1>1, <1>3 DEF PageShaped
<1>11. PageBooked(q)'
  <2>1. q.req <= Len(asked') BY <1>0, <1>1, <1>3 DEF PageBooked
  <2>2. n <= Len(run') BY <1>7, HistoryFacts, InvParts
  <2> QED BY <1>0, <1>1, <1>3, <1>7, <1>9, <2>1, <2>2 DEF PageBooked
<1>12. ClaimsTurned(w, q) BY <1>0, <1>3 DEF ClaimsTurned
<1>13. stash[w] # None => MayShow(w, stash[w])
  BY <1>1 DEF PageShaped, MayShow
<1>14. stash[w] <= Len(asked) BY InvParts DEF Stashed
<1>15. Worked(w, q)
  BY <1>0, <1>1, <1>3, <1>6, <1>10, <1>11, <1>12, <1>13, <1>14 DEF Worked
<1>16. ASSUME trouble' = 0 PROVE AllInCalm'
  <2>1. AllInCalm BY <1>0, <1>16, InvParts
  <2>2. /\ page'[w] = q /\ \A v \in Window \ {w} : page'[v] = page[v]
    BY <1>4, InvParts DEF BrowserTyped
  <2>3. ASSUME NEW v \in Window \ {w} PROVE CalmPage(v)'
    <3>1. CalmPage(v) /\ PageShaped(page[v]) /\ page[v] \in Page /\ PageBooked(page[v])
      BY <2>1, InvParts DEF AllInCalm
    <3>2. page[v].step = "token" => run'[page[v].run] = run[page[v].run]
      <4>1. page[v].step = "token" => page[v].run \in 1..Len(run) /\ page[v].run # n
        BY <1>1, <3>1, HistoryFacts, InvParts
           DEF PageShaped, PageBooked, Page, Run, None
      <4> QED BY <1>7, <4>1
    <3> QED BY <1>0, <1>7, <2>2, <3>1, <3>2 DEF CalmPage
  <2>4. CalmPage(w)'
    <3>1. CalmPage(w) BY <2>1 DEF AllInCalm
    <3> QED BY <1>0, <1>1, <1>3, <2>2, <3>1 DEF CalmPage
  <2>5. \A v \in Window : page'[v].req = page[v].req /\ page'[v].run = page[v].run
    BY <1>3, <2>2
  <2>6. \A v, u \in Window : page'[v].req # None /\ page'[v].req = page'[u].req => v = u
    BY <2>1, <2>5 DEF AllInCalm
  <2>7. \A m, j \in 1..Len(run') : run'[m].req = run'[j].req => m = j
    BY <1>7, <2>1 DEF AllInCalm
  <2>8. \A m \in 1..Len(run') : run'[m].charged => Carried(m)'
    BY <1>0, <1>7, <2>1, <2>5 DEF AllInCalm, Carried
  <2>9. saved' # None BY <2>1 DEF AllInCalm
  <2> QED BY <2>3, <2>4, <2>6, <2>7, <2>8, <2>9 DEF AllInCalm
<1> QED BY <1>1, <1>7, <1>8, <1>9, <1>15, <1>16, WorkStep

LEMMA TokenStep ==
  ASSUME PurchaseInv, NEW w \in Window, Token(w)
  PROVE  PurchaseInv' /\ NothingNew
<1>1. /\ page[w].step = "token" /\ run' = [run EXCEPT ![page[w].run].code = "spent"]
      /\ asked' = asked /\ store' = store /\ claims' = claims /\ answered' = answered
  BY DEF Token
<1>2. /\ page[w] \in Page /\ PageShaped(page[w]) /\ PageBooked(page[w])
      /\ page[w].at = "app" /\ page[w].req # None /\ page[w].run # None
      /\ page[w].run \in 1..Len(run) /\ page[w].run \in Session
      /\ run[page[w].run].req = page[w].req
      /\ page[w].session \in Session /\ SignedIn(page[w].session)
      /\ \A v \in Window \ {w} : page[v].run = None \/ page[v].run # page[w].run
  BY <1>1, OnTheWay
<1>3. PICK n \in 1..Len(run) : n = page[w].run BY <1>2
<1>4. PICK c \in {"none", "live", "spent"} : c = "spent" OBVIOUS
<1>5. /\ Grown(n) /\ RunsBooked' /\ run' \in Seq(Authorization)
      /\ Len(run') = Len(run)
      /\ \A m \in 1..Len(run) : m # n => run'[m] = run[m]
      /\ \A m \in 1..Len(run) : /\ run'[m].req = run[m].req
                                /\ run'[m].charged = run[m].charged
      /\ run'[n].code = c
  BY <1>1, <1>3, <1>4, CodeGrows
<1>6. Traced(n) BY <1>5 DEF Traced
<1>7. claims \in Seq(ClaimRecord) BY InvParts DEF BrowserTyped, ClaimRecord
<1>8. ASSUME NEW s \in Session, saved' \in Session, SignedIn(s)', SignedIn(saved)',
             Ended(w, s), trouble' \in 0..MaxTrouble,
             trouble' = 0 => trouble = 0 /\ saved' # None /\ ~run[n].charged
      PROVE  PurchaseInv' /\ NothingNew
  <2>1. PICK q \in Page : EndTurn(w, s, q) BY <1>8, EndedIs
  <2>2. ClaimsTurned(w, q) BY <1>1, <2>1 DEF ClaimsTurned, EndTurn
  <2>3. trouble' = 0 => CalmEnd(w)
    BY <1>1, <1>3, <1>8, HistoryFacts, InvParts DEF CalmEnd
  <2> QED BY <1>1, <1>2, <1>3, <1>6, <1>7, <1>8, <2>1, <2>2, <2>3, EndedStep
<1>9. CASE run[page[w].run].code = "live" /\ Traded(w) /\ Calmly
  <2>1. trouble' \in 0..MaxTrouble /\ trouble' = trouble BY <1>9, TroubleIs, InvParts
  <2>2. CASE asked[page[w].req] = "login" /\ saved' = page[w].run /\ Ended(w, page[w].run)
    <3>1. PICK s \in Session : s = page[w].run BY <1>2
    <3>2. SignedIn(s)'
      <4>1. s <= Len(run') /\ run'[s].req = page[w].req /\ run'[s].code = "spent"
        BY <1>2, <1>3, <1>4, <1>5, <3>1, HistoryFacts, InvParts
      <4> QED BY <1>1, <2>2, <4>1 DEF SignedIn
    <3>3. SignedIn(saved)' BY <2>2, <3>1, <3>2 DEF SignedIn
    <3>4. ~run[n].charged
      BY <1>2, <1>3, <2>2, PurchaseFacts, InvParts DEF RunsBooked
    <3> QED BY <1>2, <1>8, <2>1, <2>2, <3>1, <3>2, <3>3, <3>4
  <2>3. CASE /\ asked[page[w].req] \in Tier
             /\ saved' = IF page[w].session # None THEN page[w].session ELSE saved
             /\ Show(w, [page[w] EXCEPT !.step = "claim"])
             /\ UNCHANGED <<paypend, pending, stash>>
    BY <1>1, <1>3, <1>4, <1>5, <1>6, <1>9, <2>1, <2>3, ToClaimStep DEF Show
  <2> QED BY <1>9, <2>2, <2>3 DEF Traded
<1>10. ASSUME Finish(w), trouble' \in 0..MaxTrouble, trouble' # 0
       PROVE  PurchaseInv' /\ NothingNew
  <2>1. PICK s \in Session : s = page[w].session BY <1>2
  <2>2. saved' = saved /\ Ended(w, s) BY <1>10, <2>1 DEF Finish
  <2>3. PICK t \in Session : t = saved BY InvParts, StashSame
  <2>4. SignedIn(s)' /\ SignedIn(t)'
    BY <1>1, <1>2, <1>6, <2>1, <2>3, SignedInTraced, InvParts
  <2>5. SignedIn(saved)' BY <2>2, <2>3, <2>4 DEF SignedIn
  <2> QED BY <1>8, <1>10, <2>2, <2>3, <2>4, <2>5
<1>11. CASE run[page[w].run].code = "live" /\ Finish(w) /\ Trouble
  BY <1>10, <1>11, TroubleIs, InvParts
<1>12. CASE run[page[w].run].code = "spent" /\ Finish(w) /\ Calmly
  <2>1. trouble' \in 0..MaxTrouble /\ trouble' = trouble BY <1>12, TroubleIs, InvParts
  <2>2. trouble # 0 BY <1>1, <1>12, InvParts DEF AllInCalm, CalmPage
  <2> QED BY <1>10, <1>12, <2>1, <2>2
<1> QED BY <1>9, <1>11, <1>12 DEF Token

LEMMA ClaimStep ==
  ASSUME PurchaseInv, NEW w \in Window, Claim(w)
  PROVE  PurchaseInv' /\ NothingNew
<1>1. /\ page[w].step = "claim" /\ saved' = saved /\ Ended(w, page[w].session)
      /\ asked' = asked /\ store' = store /\ run' = run /\ answered' = answered
  BY DEF Claim, Finish
<1>2. /\ page[w] \in Page /\ PageShaped(page[w]) /\ PageBooked(page[w])
      /\ page[w].at = "app" /\ page[w].req # None /\ page[w].run # None
      /\ page[w].run \in 1..Len(run) /\ page[w].run \in Session
      /\ run[page[w].run].req = page[w].req
      /\ page[w].session \in Session /\ SignedIn(page[w].session)
      /\ run[page[w].run] \in Authorization
  BY <1>1, OnTheWay
<1>3. Traced(None)
  <2>1. Grown(None) BY <1>1, SameIsGrown, InvParts
  <2>2. RunsBooked' /\ run' \in Seq(Authorization)
    BY <1>1, InvParts DEF RunsBooked, BrowserTyped
  <2> QED BY <1>1, <2>1, <2>2 DEF Traced
<1>4. PICK s \in Session : s = page[w].session BY <1>2
<1>5. PICK q \in Page : EndTurn(w, s, q)
  <2>1. saved' \in Session BY <1>1, InvParts, StashSame
  <2> QED BY <1>1, <1>4, <2>1, EndedIs
<1>6. SignedIn(s)' /\ SignedIn(saved)' /\ saved' \in Session
  <2>1. PICK t \in Session : t = saved BY InvParts, StashSame
  <2>2. SignedIn(s)' /\ SignedIn(t)'
    BY <1>1, <1>2, <1>3, <1>4, <2>1, SignedInTraced, InvParts
  <2> QED BY <1>1, <2>1, <2>2 DEF SignedIn
<1>7. Claimant(w) # Nobody => Claimant(w) \in Person
  <2>1. page[w].session # None => run[page[w].session] \in Authorization
    <3>1. page[w].session # None => page[w].session \in 1..Len(run)
      BY <1>2, HistoryFacts, InvParts DEF SignedIn, Session, Run, None
    <3> QED BY <3>1, HistoryFacts, InvParts
  <2> QED BY <1>2, <2>1 DEF Claimant, Authorization
<1>8. ASSUME claims' \in Seq(ClaimRecord), ClaimsTurned(w, q), trouble' \in 0..MaxTrouble,
             trouble' = 0 => CalmEnd(w)
      PROVE  PurchaseInv' /\ NothingNew
  <2>1. \A v \in Window \ {w} : page[v].run = None \/ page[v].run # None OBVIOUS
  <2> QED BY <1>1, <1>2, <1>3, <1>5, <1>6, <1>8, <2>1, EndedStep
<1>9. trouble = 0 => saved # None /\ Claimant(w) # Nobody
  <2>1. trouble = 0 => saved # None /\ page[w].session # None
    BY <1>1, InvParts DEF AllInCalm, CalmPage
  <2>2. page[w].session # None => run[page[w].session] \in Authorization
    <3>1. page[w].session # None => page[w].session \in 1..Len(run)
      BY <1>2, HistoryFacts, InvParts DEF SignedIn, Session, Run, None
    <3> QED BY <3>1, HistoryFacts, InvParts
  <2>3. trouble = 0 => Claimant(w) \in Person
    BY <1>2, <2>1, <2>2 DEF Claimant, Authorization
  <2> QED BY <2>1, <2>3, PurchaseFacts
<1>10. CASE Claimant(w) # Nobody /\ Calmly /\ claims' = Append(claims, Claimed(w))
  <2>1. asked[page[w].req] \in Tier BY <1>1, <1>2 DEF PageBooked
  <2>2. PICK c \in ClaimRecord : c = Claimed(w)
    BY <1>2, <1>7, <1>10, <2>1 DEF Claimed, ClaimRecord, Page, None
  <2>3. c.run = page[w].run /\ c.tier = asked[page[w].req]
    BY <2>2 DEF Claimed
  <2>4. /\ claims' \in Seq(ClaimRecord) /\ Len(claims') = Len(claims) + 1
        /\ Len(claims) \in Nat
        /\ \A i \in 1..Len(claims) : claims'[i] = claims[i]
        /\ claims'[Len(claims) + 1] = c
    BY <1>10, <2>2, ClaimIs, HistoryFacts, InvParts
  <2>5. ClaimsTurned(w, q)
    BY <1>1, <1>5, <1>10, <2>2, <2>3 DEF ClaimsTurned, EndTurn
  <2>6. trouble' \in 0..MaxTrouble /\ trouble' = trouble BY <1>10, TroubleIs, InvParts
  <2>7. trouble' = 0 => CalmEnd(w)
    BY <1>1, <1>9, <2>3, <2>4, <2>6 DEF CalmEnd
  <2> QED BY <1>8, <2>4, <2>5, <2>6, <2>7
<1>11. CASE claims' = claims /\ CalmlyIf(Claimant(w) = Nobody)
  <2>1. claims \in Seq(ClaimRecord) BY InvParts DEF BrowserTyped, ClaimRecord
  <2>2. ClaimsTurned(w, q) BY <1>5, <1>11 DEF ClaimsTurned, EndTurn
  <2>3. trouble' \in 0..MaxTrouble /\ trouble' # 0
    BY <1>9, <1>11, TroubleIs, InvParts DEF CalmlyIf
  <2> QED BY <1>8, <1>11, <2>1, <2>2, <2>3
<1> QED BY <1>10, <1>11 DEF Claim

-----------------------------------------------------------------------------
(* The invariant *)

LEMMA PurchaseInitial == PurchaseInit => PurchaseInv
<1> SUFFICES ASSUME PurchaseInit PROVE PurchaseInv
  OBVIOUS
<1>1. /\ asked = <<"login">> /\ saved = 1 /\ store \in Person
      /\ run = <<[req |-> 1, who |-> store, charged |-> FALSE, code |-> "spent"]>>
      /\ paypend = None /\ pending = [w \in Window |-> None]
      /\ stash = [w \in Window |-> None] /\ claims = <<>> /\ answered = {1}
      /\ trouble = 0
  BY DEF PurchaseInit
<1>2. PICK before \in SUBSET Tab :
        page = [w \in Window |->
          IF w[2] = "pop" THEN Closed
          ELSE Explorer(IF w[1] \in before THEN None ELSE saved)]
  BY DEF PurchaseInit
<1>3. PICK a \in Authorization :
        a = [req |-> 1, who |-> store, charged |-> FALSE, code |-> "spent"]
  BY <1>1, PurchaseFacts DEF Authorization
<1>4. /\ a.req = 1 /\ ~a.charged /\ a.code = "spent"
  BY <1>3
<1>5. run \in Seq(Authorization) /\ Len(run) = 1 /\ run[1] = a
  BY <1>1, <1>3
<1>6. asked \in Seq(Tier \cup {"login"}) /\ Len(asked) = 1 /\ asked[1] = "login"
  BY <1>1
<1>7. claims \in Seq(ClaimRecord) /\ Len(claims) = 0
  BY <1>1
<1>8. SignedIn(saved) /\ SignedIn(None) /\ saved \in Session /\ None \in Session
  BY <1>1, <1>4, <1>5, <1>6, PurchaseFacts DEF SignedIn, Session
<1>9. ASSUME NEW w \in Window
      PROVE  /\ page[w] \in Page /\ PageShaped(page[w]) /\ PageBooked(page[w])
             /\ page[w].at \in {"closed", "app"} /\ page[w].req = None
             /\ page[w].run = None /\ page[w].step = "idle" /\ ~page[w].popup
  <2>1. CASE w[2] = "pop"
    <3>1. page[w] = Closed BY <1>2, <2>1
    <3> QED BY <1>5, <1>6, <1>8, <3>1, ClosedIs, PurchaseFacts DEF PageBooked
  <2>2. CASE w[2] # "pop"
    <3>1. PICK s \in Session : s = IF w[1] \in before THEN None ELSE saved BY <1>8
    <3>2. page[w] = Explorer(s) BY <1>2, <2>2, <3>1
    <3>3. SignedIn(s) BY <1>8, <3>1
    <3> QED BY <1>5, <1>6, <3>2, <3>3, ExplorerIs, PurchaseFacts DEF PageBooked
  <2> QED BY <2>1, <2>2
<1>10. BrowserTyped
  <2>1. page \in [Window -> Page] BY <1>2, <1>9
  <2>2. MaxRequests >= 1 /\ MaxRuns >= 1 /\ 0 \in 0..MaxTrouble
    BY PurchaseConstants
  <2>3. claims \in Seq([run : Run, by : Person, popup : BOOLEAN, tier : Tier])
    BY <1>7 DEF ClaimRecord
  <2> QED BY <1>1, <1>5, <1>6, <1>8, <2>1, <2>2, <2>3, PurchaseFacts DEF BrowserTyped
<1>11. RunsBooked
  <2>1. (asked[1] \in Tier) = FALSE BY <1>6, PurchaseFacts
  <2>2. a.charged = FALSE BY <1>3
  <2>3. \A n \in 1..Len(run) : n = 1 /\ run[n] = a BY <1>5
  <2> SUFFICES ASSUME NEW n \in 1..Len(run)
               PROVE  /\ run[n].req <= Len(asked)
                      /\ run[n].charged = (asked[run[n].req] \in Tier)
    BY DEF RunsBooked
  <2>4. run[n] = a BY <2>3
  <2>5. a.req <= Len(asked) BY <1>4, <1>6
  <2>6. a.charged = (asked[a.req] \in Tier) BY <1>4, <2>1, <2>2
  <2> QED BY <2>4, <2>5, <2>6
<1>12. RunsApart BY <1>7, <1>9 DEF RunsApart
<1>13. \A i \in 1..Len(claims) : ClaimBooked(claims[i]) BY <1>7
<1>14. answered \subseteq 1..Len(asked) /\ Stashed
  BY <1>1, <1>6, <1>9, PurchaseFacts DEF Stashed
<1>15. RequestsApart BY <1>1, <1>9, PurchaseFacts DEF RequestsApart, MayShow
<1>16. AllInCalm
  <2>1. saved # None BY <1>1, PurchaseFacts
  <2>2. \A w \in Window : CalmPage(w) BY <1>9 DEF CalmPage
  <2>3. \A v, w \in Window : page[v].req # None /\ page[v].req = page[w].req => v = w
    BY <1>9
  <2>4. \A m, n \in 1..Len(run) : run[m].req = run[n].req => m = n BY <1>5
  <2>5. \A n \in 1..Len(run) : run[n].charged => Carried(n) BY <1>4, <1>5
  <2> QED BY <2>1, <2>2, <2>3, <2>4, <2>5 DEF AllInCalm
<1> QED BY <1>8, <1>9, <1>10, <1>11, <1>12, <1>13, <1>14, <1>15, <1>16 DEF PurchaseInv

\* What a step does to a history: nothing, or the window closed.
Shortened ==
  past' = past \/ \E w \in Window : past' = [past EXCEPT ![w] = {}]

LEMMA HistoriesKept ==
  ASSUME PurchaseInv, PurchaseInv', HistoriesApart, NothingNew, Shortened,
         asked' = asked
  PROVE  HistoriesApart'
<1>1. /\ past' \in [Window -> SUBSET RequestId]
      /\ \A w \in Window : past'[w] \subseteq past[w]
  BY DEF Shortened, HistoriesApart
<1>2. SUFFICES ASSUME NEW w \in Window, NEW r \in past'[w]
               PROVE  /\ r <= Len(asked')
                      /\ \A v \in Window :
                           MayShow(v, r)' \/ r \in past'[v] => v = w
  BY <1>1 DEF HistoriesApart
<1>3. r \in past[w] /\ r \in RequestId BY <1>1 DEF HistoriesApart
<1> QED BY <1>1, <1>3 DEF HistoriesApart, NothingNew

LEMMA HistoriesGrow ==
  ASSUME PurchaseInv, PurchaseInv', HistoriesApart, NEW x \in Window, Goes(x)
  PROVE  HistoriesApart'
<1>1. /\ past \in [Window -> SUBSET RequestId] /\ Len(asked') \in RequestId
      /\ Len(asked) \in Nat /\ Len(asked') = Len(asked) + 1
  <2>1. Len(asked') \in 1..MaxRequests
    <3>1. BrowserTyped' BY DEF PurchaseInv
    <3> QED BY <3>1, InvParts, HistoryFacts, PurchaseFacts DEF Goes, BrowserTyped
  <2> QED BY <2>1, InvParts, HistoryFacts DEF HistoriesApart, Goes, RequestId
<1>2. PICK n \in RequestId : n = Len(asked') BY <1>1
<1>3. /\ past' = [past EXCEPT ![x] = past[x] \cup {n}]
      /\ \A v \in Window, r \in RequestId :
           MayShow(v, r)' => MayShow(v, r) \/ (v = x /\ r = n)
      /\ n > Len(asked)
  BY <1>1, <1>2 DEF Goes, NewAt, RequestId
<1>4. past' \in [Window -> SUBSET RequestId]
  BY <1>1, <1>3
<1>5. ASSUME NEW v \in Window PROVE ~MayShow(v, n) /\ n \notin past[v]
  <2>1. page[v].req <= Len(asked) /\ stash[v] <= Len(asked)
    BY InvParts DEF PageBooked, Stashed
  <2>2. \A r \in past[v] : r <= Len(asked) BY DEF HistoriesApart
  <2>3. ~(n <= Len(asked)) BY <1>1, <1>2
  <2> QED BY <2>1, <2>2, <2>3 DEF MayShow
<1>6. ASSUME NEW w \in Window, NEW r \in past'[w]
      PROVE  /\ r <= Len(asked')
             /\ \A v \in Window : MayShow(v, r)' \/ r \in past'[v] => v = w
  <2>1. r \in RequestId BY <1>4
  <2>2. CASE r = n
    <3>1. w = x BY <1>1, <1>3, <1>5, <2>2
    <3>2. ASSUME NEW v \in Window, MayShow(v, r)' \/ r \in past'[v] PROVE v = x
      BY <1>1, <1>3, <1>5, <2>2, <3>2
    <3> QED BY <1>1, <1>2, <2>2, <3>1, <3>2
  <2>3. CASE r # n
    <3>1. \A v \in Window : r \in past'[v] => r \in past[v]
      BY <1>1, <1>3, <2>3
    <3>2. \A v \in Window : MayShow(v, r)' => MayShow(v, r)
      BY <1>3, <2>1, <2>3
    <3>3. /\ r <= Len(asked)
          /\ \A v \in Window : MayShow(v, r) \/ r \in past[v] => v = w
      BY <3>1 DEF HistoriesApart
    <3>4. r <= Len(asked') BY <1>1, <2>1, <3>3 DEF RequestId
    <3> QED BY <3>1, <3>2, <3>3, <3>4
  <2> QED BY <2>2, <2>3
<1> QED BY <1>4, <1>6 DEF HistoriesApart

\* Back: the request is its window's own, so nothing else shows it.
LEMMA BackStep ==
  ASSUME PurchaseInv, HistoriesApart, NEW w \in Window, Back(w)
  PROVE  PurchaseInv' /\ HistoriesApart'
<1>1. /\ trouble' # 0 /\ trouble' \in 0..MaxTrouble
      /\ UNCHANGED <<asked, past, run, paypend, saved, store, pending, stash,
                     claims>>
  BY TroubleIs, InvParts DEF Back
<1>2. PICK r \in past[w] :
        Show(w, HomePage(r, TRUE, store)) /\ answered' = answered \ {r}
  BY DEF Back
<1>3. /\ r \in RequestId /\ r <= Len(asked)
      /\ \A v \in Window : MayShow(v, r) \/ r \in past[v] => v = w
  BY <1>2 DEF HistoriesApart
<1>4. PICK b \in BOOLEAN : b = TRUE OBVIOUS
<1>5. PICK u \in Person \cup {Nobody} : u = store BY InvParts, StashSame
<1>6. PICK q \in Page : q = HomePage(r, b, u) BY <1>3, HomeIs
<1>7. /\ PageShaped(q) /\ q.at = "home" /\ q.req = r /\ q.url = b
      /\ q.session = None /\ q.run = None /\ q.step = "idle" /\ ~q.popup
  BY <1>3, <1>6, HomeIs
<1>8. /\ page' = [page EXCEPT ![w] = q]
      /\ page \in [Window -> Page] /\ answered \subseteq RequestId
  BY <1>2, <1>4, <1>5, <1>6, InvParts DEF Show, BrowserTyped
<1>9. /\ page' \in [Window -> Page] /\ page'[w] = q
      /\ \A v \in Window : v # w => page'[v] = page[v]
  BY <1>8
<1>10. /\ asked' = asked /\ past' = past /\ run' = run /\ paypend' = paypend
       /\ saved' = saved /\ store' = store /\ pending' = pending
       /\ stash' = stash /\ claims' = claims /\ answered' = answered \ {r}
  BY <1>1, <1>2
<1>11. BrowserTyped'
  BY <1>1, <1>8, <1>9, <1>10, InvParts DEF BrowserTyped
<1>12. Grown(None)
  BY <1>10, SameIsGrown, InvParts
<1>13. \A v \in Window : PageShaped(page[v])' /\ PageBooked(page[v])'
  <2>1. PageBooked(q)
    BY <1>3, <1>7, NoSession, IdleBooked, InvParts DEF PageBooked
  <2>2. PageBooked(q)' BY <1>10, <2>1 DEF PageBooked, SignedIn
  <2>3. \A v \in Window \ {w} : page[v].run = None \/ page[v].run # None OBVIOUS
  <2> QED BY <1>7, <1>8, <1>11, <1>12, <2>2, <2>3, PagesKept
<1>14. SignedIn(saved)' /\ RunsBooked'
  BY <1>10, InvParts DEF SignedIn, RunsBooked
<1>15. RunsApart'
  <2>1. \A v \in Window : page'[v].run # None => page'[v].run = page[v].run
    BY <1>7, <1>9
  <2>2. \A v, y \in Window : page[v].run # None /\ page[v].run = page[y].run => v = y
    BY InvParts DEF RunsApart
  <2>3. \A v, y \in Window : page'[v].run # None /\ page'[v].run = page'[y].run => v = y
    BY <2>1, <2>2
  <2> QED BY <1>10, <2>3, InvParts DEF RunsApart
<1>16. ASSUME NEW i \in 1..Len(claims) PROVE ClaimBooked(claims[i])'
  <2>1. \A v \in Window : page'[v].step = "claim" =>
           page[v].step = "claim" /\ page'[v].run = page[v].run
    BY <1>7, <1>9
  <2>2. ClaimBooked(claims[i]) BY InvParts
  <2> QED BY <1>10, <2>1, <2>2 DEF ClaimBooked
<1>17. Stashed'
  BY <1>7, <1>9, <1>10, InvParts DEF Stashed
<1>18. \A v \in Window, t \in RequestId :
         MayShow(v, t)' => MayShow(v, t) \/ (v = w /\ t = r)
  <2> SUFFICES ASSUME NEW v \in Window, NEW t \in RequestId, MayShow(v, t)',
                      ~(v = w /\ t = r)
               PROVE  MayShow(v, t)
    OBVIOUS
  <2>1. CASE v = w
    <3>1. t # None /\ stash[w] = t /\ w[2] = "tab"
      BY <1>4, <1>7, <1>9, <1>10, <2>1 DEF MayShow
    <3> QED BY <2>1, <3>1 DEF MayShow
  <2>2. CASE v # w BY <1>9, <1>10, <2>2 DEF MayShow
  <2> QED BY <2>1, <2>2
<1>19. RequestsApart'
  <2>1. \A v \in Window, t \in RequestId : MayShow(v, t) =>
          t \notin answered /\ \A y \in Window : MayShow(y, t) => y = v
    BY InvParts DEF RequestsApart
  <2>2. \A v \in Window, t \in RequestId : MayShow(v, t)' =>
          t \notin answered' /\ \A y \in Window : MayShow(y, t)' => y = v
    BY <1>3, <1>10, <1>18, <2>1
  <2> QED BY <2>2 DEF RequestsApart
<1>20. answered' \subseteq 1..Len(asked') BY <1>10, InvParts
<1>21. PurchaseInv'
  BY <1>1, <1>10, <1>11, <1>13, <1>14, <1>15, <1>16, <1>17, <1>19, <1>20
     DEF PurchaseInv
<1>22. HistoriesApart'
  <2>1. ASSUME NEW v \in Window, NEW t \in past[v]
        PROVE  /\ t \in RequestId /\ t <= Len(asked)
               /\ \A y \in Window : MayShow(y, t) \/ t \in past[y] => y = v
    BY DEF HistoriesApart
  <2>2. ASSUME NEW v \in Window, NEW t \in past[v]
        PROVE  \A y \in Window : MayShow(y, t)' \/ t \in past[y] => y = v
    BY <1>2, <1>18, <2>1, <2>2
  <2> QED BY <1>10, <2>1, <2>2 DEF HistoriesApart
<1> QED BY <1>21, <1>22

LEMMA PurchaseStep ==
  PurchaseInv /\ HistoriesApart /\ [PurchaseNext]_purchaseVars
    => PurchaseInv' /\ HistoriesApart'
<1> SUFFICES ASSUME PurchaseInv, HistoriesApart, [PurchaseNext]_purchaseVars
             PROVE  PurchaseInv' /\ HistoriesApart'
  OBVIOUS
<1>1. CASE PurchaseNext
  <2>1. PICK w \in Window :
          \/ Connect(w) \/ Buy(w) \/ Disconnect(w) \/ SignedOut(w)
          \/ PickInline(w) \/ PickSocial(w) \/ SocialReturn(w)
          \/ Approve(w) \/ SwitchAccount(w)
          \/ Charge(w) \/ Granted(w) \/ Submit(w) \/ Throw(w)
          \/ Deliver(w) \/ Deny(w) \/ Token(w) \/ Claim(w)
          \/ Reload(w) \/ Visit(w) \/ Back(w) \/ Leave(w)
    BY <1>1 DEF PurchaseNext
  <2>2. CASE Connect(w) \/ Buy(w)
    BY <2>2, ConnectStep, BuyStep, HistoriesGrow
  <2>3. CASE Back(w) BY <2>3, BackStep
  <2>4. ASSUME \/ Disconnect(w) \/ SignedOut(w)
               \/ PickInline(w) \/ PickSocial(w) \/ SocialReturn(w)
               \/ Approve(w) \/ SwitchAccount(w)
               \/ Charge(w) \/ Granted(w) \/ Submit(w) \/ Throw(w)
               \/ Deliver(w) \/ Deny(w) \/ Reload(w) \/ Visit(w)
        PROVE  past' = past /\ asked' = asked
    BY <2>4 DEF Disconnect, SignedOut, PickInline, PickSocial, SocialReturn,
                Approve, SwitchAccount, Charge, Granted, Submit, Throw, Deliver,
                Deny, Reload, Visit
  <2>5. CASE Disconnect(w) \/ SignedOut(w)
    BY <2>4, <2>5, DisconnectStep, SignedOutStep, HistoriesKept DEF Shortened
  <2>6. CASE PickInline(w) \/ PickSocial(w) \/ SocialReturn(w)
    BY <2>4, <2>6, PickInlineStep, PickSocialStep, SocialReturnStep,
       HistoriesKept DEF Shortened
  <2>7. CASE Approve(w) \/ SwitchAccount(w)
    BY <2>4, <2>7, ApproveStep, SwitchStep, HistoriesKept DEF Shortened
  <2>8. CASE Charge(w) \/ Granted(w) \/ Submit(w) \/ Throw(w)
    BY <2>4, <2>8, ChargeStep, GrantedStep, SubmitStep, ThrowStep,
       HistoriesKept DEF Shortened
  <2>9. CASE Deliver(w) \/ Deny(w)
    BY <2>4, <2>9, DeliverStep, DenyStep, HistoriesKept DEF Shortened
  <2>10. CASE Reload(w) \/ Visit(w)
    BY <2>4, <2>10, ReloadStep, VisitStep, HistoriesKept DEF Shortened
  <2>11. ASSUME NEW s \in Session, Ended(w, s) PROVE Shortened
    BY <2>11 DEF Ended, Emptied, Keep, Shortened
  <2>12. CASE Token(w) \/ Claim(w)
    <3>1. page[w].session \in Session /\ asked' = asked
      BY <2>12, InvParts DEF Token, Claim, Page
    <3>2. CASE Token(w)
      <4>1. Traded(w) \/ Ended(w, page[w].session)
        BY <3>2 DEF Token, Finish
      <4>2. ASSUME Traded(w) PROVE Shortened
        <5>1. page[w].run \in Session BY InvParts DEF Page, Session
        <5>2. Ended(w, page[w].run) \/ past' = past
          BY <4>2 DEF Traded
        <5> QED BY <2>11, <5>1, <5>2 DEF Shortened
      <4>3. Shortened BY <2>11, <3>1, <4>1, <4>2
      <4> QED BY <3>1, <3>2, <4>3, TokenStep, HistoriesKept
    <3>3. CASE Claim(w)
      <4>1. Shortened BY <2>11, <3>1, <3>3 DEF Claim, Finish
      <4> QED BY <3>1, <3>3, <4>1, ClaimStep, HistoriesKept
    <3> QED BY <2>12, <3>2, <3>3
  <2>13. CASE Leave(w)
    <3>1. Shortened /\ asked' = asked
      BY <2>13 DEF Leave, Emptied, Keep, Shortened
    <3> QED BY <2>13, <3>1, LeaveStep, HistoriesKept
  <2> QED BY <2>1, <2>2, <2>3, <2>5, <2>6, <2>7, <2>8, <2>9, <2>10, <2>12,
             <2>13
<1>2. CASE UNCHANGED purchaseVars
  <2>1. /\ asked' = asked /\ run' = run /\ paypend' = paypend /\ saved' = saved
        /\ store' = store /\ pending' = pending /\ stash' = stash /\ page' = page
        /\ claims' = claims /\ answered' = answered /\ trouble' = trouble
        /\ past' = past
    BY <1>2 DEF purchaseVars
  <2>2. BrowserTyped' BY <2>1, InvParts DEF BrowserTyped
  <2>3. \A w \in Window : PageShaped(page[w])' /\ PageBooked(page[w])'
    BY <2>1, InvParts DEF PageShaped, PageBooked, SignedIn
  <2>4. SignedIn(saved)' /\ RunsBooked' /\ RunsApart'
    BY <2>1, InvParts DEF SignedIn, RunsBooked, RunsApart
  <2>5. \A i \in 1..Len(claims') : ClaimBooked(claims[i])'
    BY <2>1, InvParts DEF ClaimBooked
  <2>6. answered' \subseteq 1..Len(asked') /\ Stashed' /\ RequestsApart'
    BY <2>1, InvParts DEF Stashed, RequestsApart, MayShow
  <2>7. trouble' = 0 => AllInCalm'
    BY <2>1, InvParts DEF AllInCalm, CalmPage, Carried
  <2>8. PurchaseInv'
    BY <2>2, <2>3, <2>4, <2>5, <2>6, <2>7 DEF PurchaseInv
  <2>9. NothingNew BY <2>1 DEF NothingNew, MayShow
  <2> QED BY <2>1, <2>8, <2>9, HistoriesKept DEF Shortened
<1> QED BY <1>1, <1>2

LEMMA HistoriesInitial == PurchaseInit => HistoriesApart
BY DEF PurchaseInit, HistoriesApart

LEMMA PurchaseAlways == PurchaseSpec => [](PurchaseInv /\ HistoriesApart)
BY PurchaseInitial, HistoriesInitial, PurchaseStep, PTL DEF PurchaseSpec

\* What every window shows and carries agrees with what was asked, begun,
\* traded and claimed; each authorization is in one pair of hands, each request
\* in one window of the home; and in calm no request is lost track of.
THEOREM PurchaseInvariant == PurchaseSpec => []PurchaseInv
BY PurchaseAlways, PTL

\* The browser's cells and windows, the authorizations and the claims stay in
\* their types; so only people claim, and only tiers are claimed
\* (ui.ts:484-508, 563-591).
THEOREM PurchaseTypeCorrect == PurchaseSpec => []PurchaseTypeOK
<1>1. PurchaseInv /\ HistoriesApart => PurchaseTypeOK
  BY DEF PurchaseInv, HistoriesApart, BrowserTyped, PurchaseTypeOK
<1> QED BY <1>1, PurchaseAlways, PTL

\* What is claimed was bought, in its tier, and is claimed once, however many
\* windows write over each other's sa.paypend, are reloaded half way or go back
\* (ui.ts:484-508, 563-591).
THEOREM ClaimsArePurchases == PurchaseSpec => []ClaimIsPurchase
<1>1. ASSUME PurchaseInv PROVE ClaimIsPurchase
  <2>1. DOMAIN claims = 1..Len(claims)
    BY <1>1, InvParts DEF BrowserTyped
  <2> QED BY <1>1, <2>1, InvParts DEF ClaimIsPurchase, ClaimBooked, RunsApart
<1> QED BY <1>1, PurchaseInvariant, PTL

\* Nobody is signed in but by a login they answered, of which the code was
\* traded: a purchase, whoever paid in the popup, makes no session
\* (ui.ts:497, 575, 590).
THEOREM SessionsWereAsked == PurchaseSpec => []SessionIsAsked
<1>1. ASSUME PurchaseInv PROVE SessionIsAsked
  <2>1. \A w \in Window : SignedIn(page[w].session) BY <1>1, InvParts DEF PageBooked
  <2>2. SignedIn(saved) BY <1>1, InvParts
  <2> QED BY <2>1, <2>2 DEF SessionIsAsked, SignedIn
<1> QED BY <1>1, PurchaseInvariant, PTL

\* In calm every charge is claimed or on its way in some window, and no request
\* is charged twice, with any number of windows, purchases and sign-ins
\* (AuthorizeCeremony.tsx:131-197, ui.ts:490-508, 632-636).
THEOREM NothingIsLost == PurchaseSpec => []NothingLost
<1>1. ASSUME PurchaseInv PROVE NothingLost
  <2>1. DOMAIN claims = 1..Len(claims) /\ DOMAIN run = 1..Len(run)
    BY <1>1, InvParts DEF BrowserTyped
  <2>2. trouble = 0 => AllInCalm BY <1>1, InvParts
  <2> QED BY <2>1, <2>2 DEF NothingLost, AllInCalm, Carried
<1> QED BY <1>1, PurchaseInvariant, PTL

\* Only Back shows a request again that was delivered or denied: whatever is
\* left in the stashes of the windows, none of them shows it at the home until
\* somebody goes back to its URL (enroll.ts:77-99, AuthorizeCeremony.tsx:68).
THEOREM AnsweredStaysOver == PurchaseSpec => []AnsweredIsOver
<1>1. ASSUME PurchaseInv PROVE AnsweredIsOver
  <2> SUFFICES ASSUME NEW w \in Window, page[w].at \in {"home", "idp"}
               PROVE  page[w].req \notin answered
    BY DEF AnsweredIsOver
  <2>1. page[w].req \in RequestId \cup {None} /\ answered \subseteq RequestId
    BY <1>1, InvParts DEF Page, BrowserTyped
  <2>2. CASE page[w].req = None BY <2>1, <2>2, PurchaseFacts
  <2>3. CASE page[w].req # None
    <3>1. MayShow(w, page[w].req) /\ page[w].req \in RequestId BY <2>1, <2>3 DEF MayShow
    <3> QED BY <1>1, <3>1, InvParts DEF RequestsApart
  <2> QED BY <2>2, <2>3
<1> QED BY <1>1, PurchaseInvariant, PTL

-----------------------------------------------------------------------------
(* The prepaid ledger *)

USE PassConstants DEF PassId, Time, Until, Rows, histories

LEMMA AbsentIsNoRow == Absent \notin Row
BY DEF Absent, Row

LEMMA LedgerInit == Init => LedgerInv
<1> SUFFICES ASSUME Init PROVE LedgerInv
  OBVIOUS
<1>1. TypeOK
  BY AbsentIsNoRow DEF Init, TypeOK, Idle
<1>2. SelectionsHold /\ StatusMatchesMeter /\ NeverOvercharged
  BY DEF Init, SelectionsHold, StatusMatchesMeter, NeverOvercharged, Idle
<1> QED BY <1>1, <1>2 DEF LedgerInv

LEMMA MintStep ==
  ASSUME LedgerInv, NEW a \in Account, NEW uses \in 0..MaxUses,
         NEW until \in Until, Mint(a, uses, until)
  PROVE  LedgerInv'
<1> DEFINE new == [acct |-> a, max_uses |-> AtLeastOne(uses), used |-> 0,
                   valid_until |-> until, status |-> "active"]
<1>1. new \in Row
  BY DEF Row, AtLeastOne
<1>2. /\ nPasses' = nPasses + 1 /\ nPasses + 1 \in PassId
      /\ nPasses \in 0..MaxPasses
      /\ passes' = [passes EXCEPT ![nPasses + 1] = new]
      /\ UNCHANGED <<now, reader, begun, histories, alone>>
      /\ passes \in [PassId -> Row \cup {Absent}]
  BY DEF Mint, LedgerInv, TypeOK
<1>3. /\ passes'[nPasses + 1] = new
      /\ \A i \in PassId : i # nPasses + 1 => passes'[i] = passes[i]
  BY <1>2
<1>4. TypeOK'
  BY <1>1, <1>2, <1>3 DEF LedgerInv, TypeOK
<1>5. SelectionsHold'
  BY <1>2, <1>3 DEF LedgerInv, SelectionsHold
<1>6. AtLeastOne(uses) > 0 /\ new.used = 0 /\ new.status = "active"
      /\ new.max_uses = AtLeastOne(uses)
  BY DEF AtLeastOne
<1> HIDE DEF new
<1>7. StatusMatchesMeter' /\ NeverOvercharged'
  BY <1>2, <1>3, <1>6
     DEF LedgerInv, TypeOK, StatusMatchesMeter, NeverOvercharged
<1> QED BY <1>4, <1>5, <1>7 DEF LedgerInv

LEMMA UpdateStep ==
  ASSUME LedgerInv, NEW r \in Reader, UpdatePass(r)
  PROVE  LedgerInv'
<1> DEFINE i == reader[r].id
           u == reader[r].used + 1
           st == StatusFor(u, reader[r].max_uses)
<1>1. /\ reader[r].pc = "update"
      /\ passes' = [passes EXCEPT ![i].used = u, ![i].status = st]
      /\ charged' = [charged EXCEPT ![i] = @ + 1]
      /\ reader' = [reader EXCEPT ![r] = [pc |-> "answer", id |-> i]]
      /\ UNCHANGED <<now, nPasses, begun, delivered, lost, alone>>
  BY DEF UpdatePass, MeterAfter
<1>2. /\ i \in Rows /\ i \in PassId
      /\ reader[r].max_uses = passes[i].max_uses
      /\ reader[r].used < reader[r].max_uses
      /\ reader[r].used <= charged[i]
  BY <1>1 DEF LedgerInv, TypeOK, SelectionsHold
<1>3. passes[i] \in Row
  BY <1>2 DEF LedgerInv, TypeOK
<1>4. reader[r] \in Request /\ reader[r].used \in 0..MaxUses
  BY <1>1 DEF LedgerInv, TypeOK, Request, Idle
<1>5. /\ passes'[i] = [passes[i] EXCEPT !.used = u, !.status = st]
      /\ \A j \in PassId : j # i => passes'[j] = passes[j]
  BY <1>1, <1>2 DEF LedgerInv, TypeOK
<1>6. u \in 1..passes[i].max_uses /\ st \in {"active", "exhausted"}
      /\ (st = "exhausted" <=> u = passes[i].max_uses)
  BY <1>2, <1>3, <1>4 DEF Row, StatusFor
<1>7. /\ passes'[i] \in Row
      /\ passes'[i].used = u /\ passes'[i].status = st
      /\ passes'[i].max_uses = passes[i].max_uses
  <2>1. /\ passes[i].max_uses \in 1..MaxUses /\ u \in 0..MaxUses
    BY <1>3, <1>6 DEF Row
  <2> HIDE DEF i, u, st
  <2> QED BY <1>3, <1>5, <1>6, <2>1 DEF Row
<1>8. /\ charged' \in [PassId -> Nat]
      /\ charged'[i] = charged[i] + 1
      /\ \A j \in PassId : charged[j] \in Nat /\ charged'[j] >= charged[j]
  <2>1. charged \in [PassId -> Nat]
    BY DEF LedgerInv, TypeOK
  <2> HIDE DEF i
  <2> QED BY <1>1, <1>2, <2>1
<1>9. TypeOK'
  <2>1. passes' \in [PassId -> Row \cup {Absent}]
    BY <1>1, <1>5, <1>7 DEF LedgerInv, TypeOK
  <2>2. \A j \in PassId : j \in Rows' <=> passes'[j] \in Row
    BY <1>1, <1>2, <1>5, <1>7 DEF LedgerInv, TypeOK
  <2>3. reader' \in [Reader -> Request \cup {Idle}]
    BY <1>1, <1>2 DEF LedgerInv, TypeOK, Request
  <2> QED BY <1>1, <1>8, <2>1, <2>2, <2>3 DEF LedgerInv, TypeOK
<1>10. SelectionsHold'
  <2> SUFFICES ASSUME NEW q \in Reader
               PROVE  /\ reader'[q].pc \in {"update", "answer"}
                           => reader'[q].id \in Rows'
                      /\ reader'[q].pc = "update" =>
                           /\ reader'[q].max_uses
                                = passes'[reader'[q].id].max_uses
                           /\ reader'[q].used < reader'[q].max_uses
                           /\ reader'[q].used <= charged'[reader'[q].id]
    BY DEF SelectionsHold
  <2>1. CASE q = r
    BY <2>1, <1>1, <1>2 DEF LedgerInv, TypeOK
  <2>2. CASE q # r
    <3>1. reader'[q] = reader[q] /\ reader[q] \in Request \cup {Idle}
      BY <2>2, <1>1 DEF LedgerInv, TypeOK
    <3>2. reader[q].pc \in {"update", "answer"} => reader[q].id \in Rows
      BY DEF LedgerInv, SelectionsHold
    <3>3. ASSUME reader[q].pc = "update"
          PROVE  /\ reader[q].id \in PassId /\ reader[q].used \in Nat
                 /\ reader[q].max_uses = passes[reader[q].id].max_uses
                 /\ reader[q].used < reader[q].max_uses
                 /\ reader[q].used <= charged[reader[q].id]
      BY <3>1, <3>3 DEF LedgerInv, SelectionsHold, Request, Idle
    <3>4. \A j \in PassId : passes'[j].max_uses = passes[j].max_uses
      BY <1>5, <1>7
    <3>5. \A j \in PassId, n \in Nat : n <= charged[j] => n <= charged'[j]
      BY <1>8
    <3>6. reader'[q].pc \in {"update", "answer"} => reader'[q].id \in Rows'
      BY <3>1, <3>2, <1>1
    <3> QED BY <3>1, <3>3, <3>4, <3>5, <3>6
  <2> QED BY <2>1, <2>2
<1>11. StatusMatchesMeter'
  <2> SUFFICES ASSUME NEW j \in Rows'
               PROVE  IF passes'[j].status = "exhausted"
                        THEN passes'[j].used = passes'[j].max_uses
                        ELSE passes'[j].used < passes'[j].max_uses
    BY DEF StatusMatchesMeter
  <2>1. j \in PassId /\ j \in Rows
    BY <1>1 DEF LedgerInv, TypeOK
  <2>2. CASE j = i
    <3>1. passes[i].max_uses \in Nat /\ u \in Nat /\ u <= passes[i].max_uses
      BY <1>3, <1>6 DEF Row
    <3> QED BY <3>1, <2>2, <1>6, <1>7
  <2>3. CASE j # i
    BY <2>1, <2>3, <1>5 DEF LedgerInv, StatusMatchesMeter
  <2> QED BY <2>2, <2>3
<1>12. NeverOvercharged'
  <2> SUFFICES ASSUME NEW j \in Rows' PROVE passes'[j].used <= charged'[j]
    BY DEF NeverOvercharged
  <2>1. j \in PassId /\ j \in Rows
    BY <1>1 DEF LedgerInv, TypeOK
  <2>2. CASE j = i
    BY <2>2, <1>2, <1>4, <1>7, <1>8
  <2>3. CASE j # i
    <3>1. /\ passes'[j] = passes[j] /\ passes[j].used \in Nat
          /\ passes[j].used <= charged[j]
      BY <2>1, <2>3, <1>5 DEF LedgerInv, TypeOK, NeverOvercharged, Row
    <3> QED BY <2>1, <3>1, <1>8
  <2> QED BY <2>2, <2>3
<1> QED BY <1>9, <1>10, <1>11, <1>12 DEF LedgerInv

LEMMA SelectStep ==
  ASSUME LedgerInv, NEW r \in Reader, SelectPass(r)
  PROVE  LedgerInv'
<1>1. PICK i \in Rows :
        /\ i \in Spendable(reader[r].acct, reader[r].at)
        /\ reader' = [reader EXCEPT ![r] =
                        [pc |-> "update", id |-> i, used |-> passes[i].used,
                         max_uses |-> passes[i].max_uses]]
  BY DEF SelectPass, IsOldest
<1>2. UNCHANGED <<now, passes, nPasses, begun, histories, alone>>
  BY DEF SelectPass
<1>3. /\ i \in PassId /\ passes[i] \in Row
      /\ passes[i].used < passes[i].max_uses
      /\ passes[i].used <= charged[i]
  BY <1>1 DEF LedgerInv, TypeOK, Spendable, NeverOvercharged
<1>4. passes[i].used \in 0..MaxUses /\ passes[i].max_uses \in 1..MaxUses
  BY <1>3 DEF Row
<1>5. TypeOK'
  BY <1>1, <1>2, <1>3, <1>4 DEF LedgerInv, TypeOK, Request
<1>6. SelectionsHold'
  BY <1>1, <1>2, <1>3 DEF LedgerInv, TypeOK, SelectionsHold
<1>7. StatusMatchesMeter' /\ NeverOvercharged'
  BY <1>2 DEF LedgerInv, StatusMatchesMeter, NeverOvercharged
<1> QED BY <1>5, <1>6, <1>7 DEF LedgerInv

LEMMA BeginStep ==
  ASSUME LedgerInv, NEW r \in Reader, NEW a \in Account, Begin(r, a)
  PROVE  LedgerInv'
<1>1. /\ reader' = [reader EXCEPT ![r] =
                       [pc |-> "select", acct |-> a, at |-> now]]
      /\ begun < MaxReads /\ begun' = begun + 1
      /\ UNCHANGED <<now, passes, nPasses, histories, alone>>
  BY DEF Begin
<1>2. TypeOK'
  BY <1>1 DEF LedgerInv, TypeOK, Request
<1>3. SelectionsHold' /\ StatusMatchesMeter' /\ NeverOvercharged'
  BY <1>1 DEF LedgerInv, TypeOK, SelectionsHold, StatusMatchesMeter,
              NeverOvercharged
<1> QED BY <1>2, <1>3 DEF LedgerInv

\* One more of a count per row, of any row.
LEMMA CountUp ==
  ASSUME NEW f \in [PassId -> Nat], NEW j
  PROVE  /\ [f EXCEPT ![j] = @ + 1] \in [PassId -> Nat]
         /\ \A i \in PassId : [f EXCEPT ![j] = @ + 1][i]
                               = IF i = j THEN f[i] + 1 ELSE f[i]
<1>1. \A i \in PassId : f[i] \in Nat /\ f[i] + 1 \in Nat
  OBVIOUS
<1>2. \A i \in PassId : [f EXCEPT ![j] = @ + 1][i] = IF i = j THEN f[i] + 1 ELSE f[i]
  OBVIOUS
<1> QED BY <1>1, <1>2

\* NoPass, Answer and Fail only end the request.
LEMMA EndStep ==
  ASSUME LedgerInv, NEW r \in Reader,
         reader' = [reader EXCEPT ![r] = Idle],
         UNCHANGED <<now, passes, nPasses, begun, charged, alone>>,
         delivered' \in [PassId -> Nat], lost' \in [PassId -> Nat]
  PROVE  LedgerInv'
<1>1. TypeOK'
  BY DEF LedgerInv, TypeOK
<1>2. SelectionsHold' /\ StatusMatchesMeter' /\ NeverOvercharged'
  BY DEF LedgerInv, TypeOK, SelectionsHold, StatusMatchesMeter,
         NeverOvercharged, Idle
<1> QED BY <1>1, <1>2 DEF LedgerInv

LEMMA TickStep == ASSUME LedgerInv, Tick PROVE LedgerInv'
<1>1. now' \in Time /\ UNCHANGED <<passes, nPasses, reader, begun, histories, alone>>
  BY DEF Tick, LedgerInv, TypeOK
<1> QED BY <1>1 DEF LedgerInv, TypeOK, SelectionsHold, StatusMatchesMeter,
                    NeverOvercharged

LEMMA LedgerStep == LedgerInv /\ [Next]_vars => LedgerInv'
<1> SUFFICES ASSUME LedgerInv, [Next]_vars PROVE LedgerInv'
  OBVIOUS
<1>1. ASSUME NEW a \in Account, NEW uses \in 0..MaxUses, NEW until \in Until,
             Mint(a, uses, until)
      PROVE  LedgerInv'
  BY <1>1, MintStep
<1>2. ASSUME NEW r \in Reader, NEW a \in Account, Begin(r, a)
      PROVE  LedgerInv'
  BY <1>2, BeginStep
<1>3. ASSUME NEW r \in Reader, SelectPass(r) PROVE LedgerInv'
  BY <1>3, SelectStep
<1>4. ASSUME NEW r \in Reader, NoPass(r) \/ Answer(r) \/ Fail(r)
      PROVE  LedgerInv'
  <2>1. delivered' \in [PassId -> Nat] /\ lost' \in [PassId -> Nat]
    <3>1. delivered \in [PassId -> Nat] /\ lost \in [PassId -> Nat]
      BY DEF LedgerInv, TypeOK
    <3>2. CASE NoPass(r)
      BY <3>1, <3>2 DEF NoPass
    <3>3. CASE Answer(r)
      BY <3>1, <3>3, CountUp DEF Answer
    <3>4. CASE Fail(r)
      BY <3>1, <3>4, CountUp DEF Fail
    <3> QED BY <1>4, <3>2, <3>3, <3>4
  <2> QED BY <1>4, <2>1, EndStep DEF NoPass, Answer, Fail
<1>5. ASSUME NEW r \in Reader, UpdatePass(r) PROVE LedgerInv'
  BY <1>5, UpdateStep
<1>6. CASE Tick
  BY <1>6, TickStep
<1>7. CASE UNCHANGED vars
  BY <1>7 DEF vars, LedgerInv, TypeOK, SelectionsHold, StatusMatchesMeter,
              NeverOvercharged
<1> QED BY <1>1, <1>2, <1>3, <1>4, <1>5, <1>6, <1>7 DEF Next

\* The inductive invariant holds in every reachable state.
THEOREM LedgerInvariant == Spec => []LedgerInv
BY LedgerInit, LedgerStep, PTL DEF Spec

\* Type correctness of the ledger.
THEOREM TypeCorrect == Spec => []TypeOK
<1>1. LedgerInv => TypeOK
  BY DEF LedgerInv
<1> QED BY <1>1, LedgerInvariant, PTL

\* The status column and the meter never disagree, for any number of readers.
THEOREM StatusAlwaysMatches == Spec => []StatusMatchesMeter
<1>1. LedgerInv => StatusMatchesMeter
  BY DEF LedgerInv
<1> QED BY <1>1, LedgerInvariant, PTL

-----------------------------------------------------------------------------
(* What became of the reads charged *)

\* A step of one request moves it, and no other, in or out of the answers due.
LEMMA AnsweringMoves ==
  ASSUME TypeOK, NEW r \in Reader, NEW x, reader' = [reader EXCEPT ![r] = x],
         NEW i \in PassId
  PROVE  Answering(i)' = IF x.pc = "answer" /\ x.id = i
                           THEN Answering(i) \cup {r} ELSE Answering(i) \ {r}
<1>1. /\ reader'[r] = x
      /\ \A q \in Reader : q # r => reader'[q] = reader[q]
  BY DEF TypeOK
<1> QED BY <1>1 DEF Answering

LEMMA AnsweringCounts ==
  ASSUME NEW i \in PassId, NEW r \in Reader
  PROVE  /\ Cardinality(Answering(i)) \in Nat
         /\ r \notin Answering(i) =>
              /\ Cardinality(Answering(i) \cup {r}) = Cardinality(Answering(i)) + 1
              /\ Answering(i) \ {r} = Answering(i)
         /\ r \in Answering(i) =>
              /\ Cardinality(Answering(i) \ {r}) = Cardinality(Answering(i)) - 1
              /\ Cardinality(Answering(i)) > 0
<1>1. IsFiniteSet(Answering(i))
  BY FS_Subset DEF Answering
<1>2. Cardinality(Answering(i)) \in Nat /\ Cardinality(Answering(i) \ {r}) \in Nat
  BY <1>1, FS_CardinalityType, FS_RemoveElement
<1>3. r \notin Answering(i) =>
        Cardinality(Answering(i) \cup {r}) = Cardinality(Answering(i)) + 1
  BY <1>1, FS_AddElement
<1>4. r \in Answering(i) =>
        Cardinality(Answering(i) \ {r}) = Cardinality(Answering(i)) - 1
  BY <1>1, FS_RemoveElement
<1> QED BY <1>2, <1>3, <1>4

\* A step that moves request r and leaves what is delivered and lost alone adds
\* to what is accounted for exactly when it takes r past its UPDATE.
LEMMA AccountedMove ==
  ASSUME TypeOK, NEW r \in Reader, NEW x, reader' = [reader EXCEPT ![r] = x],
         reader[r].pc # "answer", UNCHANGED <<delivered, lost>>,
         NEW i \in PassId
  PROVE  Accounted(i)' = IF x.pc = "answer" /\ x.id = i
                           THEN Accounted(i) + 1 ELSE Accounted(i)
<1>1. r \notin Answering(i)
  BY DEF Answering
<1>2. delivered[i] \in Nat /\ lost[i] \in Nat
  BY DEF TypeOK
<1>3. Answering(i)' = IF x.pc = "answer" /\ x.id = i
                        THEN Answering(i) \cup {r} ELSE Answering(i)
  <2>1. Answering(i) \ {r} = Answering(i)
    BY <1>1
  <2>2. Answering(i)' = IF x.pc = "answer" /\ x.id = i
                          THEN Answering(i) \cup {r} ELSE Answering(i) \ {r}
    BY AnsweringMoves
  <2> QED BY <2>1, <2>2
<1> QED BY <1>1, <1>2, <1>3, AnsweringCounts DEF Accounted

\* An answer, or a death past the UPDATE, changes the account of no row.
LEMMA AccountedEnd ==
  ASSUME TypeOK, NEW r \in Reader, Answer(r) \/ Fail(r),
         reader[r].pc = "answer", NEW i \in PassId
  PROVE  Accounted(i)' = Accounted(i)
<1>1. /\ reader' = [reader EXCEPT ![r] = Idle]
      /\ \/ /\ delivered' = [delivered EXCEPT ![reader[r].id] = @ + 1]
            /\ lost' = lost
         \/ /\ lost' = [lost EXCEPT ![reader[r].id] = @ + 1]
            /\ delivered' = delivered
  BY DEF Answer, Fail
<1>2. Answering(i)' = Answering(i) \ {r}
  <2>1. Idle.pc # "answer"
    BY DEF Idle
  <2>2. Answering(i)' = IF Idle.pc = "answer" /\ Idle.id = i
                          THEN Answering(i) \cup {r} ELSE Answering(i) \ {r}
    BY <1>1, AnsweringMoves
  <2> QED BY <2>1, <2>2
<1>3. /\ delivered \in [PassId -> Nat] /\ lost \in [PassId -> Nat]
      /\ delivered[i] \in Nat /\ lost[i] \in Nat
  BY DEF TypeOK
<1>4. CASE reader[r].id = i
  <2>1. r \in Answering(i)
    BY <1>4 DEF Answering
  <2>2. /\ Cardinality(Answering(i)') = Cardinality(Answering(i)) - 1
        /\ Cardinality(Answering(i)) \in Nat
    BY <1>2, <2>1, AnsweringCounts
  <2>3. delivered'[i] + lost'[i] = delivered[i] + lost[i] + 1
        /\ delivered'[i] \in Nat /\ lost'[i] \in Nat
    <3>1. CASE delivered' = [delivered EXCEPT ![reader[r].id] = @ + 1] /\ lost' = lost
      <4>1. delivered'[i] = delivered[i] + 1
        BY <1>3, <1>4, <3>1
      <4>2. lost'[i] = lost[i]
        BY <3>1
      <4> QED BY <1>3, <4>1, <4>2
    <3>2. CASE lost' = [lost EXCEPT ![reader[r].id] = @ + 1] /\ delivered' = delivered
      <4>1. lost'[i] = lost[i] + 1
        BY <1>3, <1>4, <3>2
      <4>2. delivered'[i] = delivered[i]
        BY <3>2
      <4> QED BY <1>3, <4>1, <4>2
    <3> QED BY <1>1, <3>1, <3>2
  <2> QED BY <1>3, <2>2, <2>3 DEF Accounted
<1>5. CASE reader[r].id # i
  <2>1. r \notin Answering(i)
    BY <1>5 DEF Answering
  <2>2. Answering(i)' = Answering(i)
    BY <1>2, <2>1, AnsweringCounts
  <2>3. delivered'[i] = delivered[i] /\ lost'[i] = lost[i]
    BY <1>1, <1>3, <1>5
  <2> QED BY <2>2, <2>3 DEF Accounted
<1> QED BY <1>4, <1>5

LEMMA AccountedStep ==
  LedgerInv /\ ChargesAccounted /\ [Next]_vars => ChargesAccounted'
<1> SUFFICES ASSUME LedgerInv, ChargesAccounted, [Next]_vars, NEW i \in PassId
             PROVE  charged'[i] = Accounted(i)'
  BY DEF ChargesAccounted
<1>0. /\ TypeOK /\ charged[i] = Accounted(i) /\ charged \in [PassId -> Nat]
  BY DEF ChargesAccounted, LedgerInv, TypeOK
<1>1. ASSUME NEW r \in Reader, UpdatePass(r)
      PROVE  charged'[i] = Accounted(i)'
  <2> DEFINE x == [pc |-> "answer", id |-> reader[r].id]
  <2>1. /\ reader' = [reader EXCEPT ![r] = x] /\ reader[r].pc # "answer"
        /\ UNCHANGED <<delivered, lost>>
        /\ charged' = [charged EXCEPT ![reader[r].id] = @ + 1]
    BY <1>1 DEF UpdatePass
  <2>2. x.pc = "answer" /\ x.id = reader[r].id
    OBVIOUS
  <2> HIDE DEF x
  <2>3. Accounted(i)' = IF reader[r].id = i THEN Accounted(i) + 1 ELSE Accounted(i)
    BY <1>0, <2>1, <2>2, AccountedMove
  <2> QED BY <1>0, <2>1, <2>3
<1>2. ASSUME NEW r \in Reader, Answer(r) \/ Fail(r), reader[r].pc = "answer"
      PROVE  charged'[i] = Accounted(i)'
  BY <1>0, <1>2, AccountedEnd DEF Answer, Fail
<1>3. ASSUME NEW r \in Reader,
             \/ \E a \in Account : Begin(r, a)
             \/ SelectPass(r) \/ NoPass(r)
             \/ Fail(r) /\ reader[r].pc # "answer"
      PROVE  charged'[i] = Accounted(i)'
  <2>1. /\ reader[r].pc # "answer" /\ UNCHANGED <<charged, delivered, lost>>
        /\ \E x : x.pc # "answer" /\ reader' = [reader EXCEPT ![r] = x]
    <3>1. CASE \E a \in Account : Begin(r, a)
      <4>1. PICK a \in Account : Begin(r, a)
        BY <3>1
      <4>2. [pc |-> "select", acct |-> a, at |-> now].pc # "answer"
        OBVIOUS
      <4>3. /\ reader[r].pc # "answer" /\ UNCHANGED <<charged, delivered, lost>>
            /\ reader' = [reader EXCEPT ![r] =
                             [pc |-> "select", acct |-> a, at |-> now]]
        BY <4>1 DEF Begin, Idle
      <4> QED BY <4>2, <4>3, Zenon
    <3>2. CASE SelectPass(r)
      <4>1. PICK j \in Rows :
              reader' = [reader EXCEPT ![r] =
                           [pc |-> "update", id |-> j, used |-> passes[j].used,
                            max_uses |-> passes[j].max_uses]]
        BY <3>2 DEF SelectPass
      <4>2. [pc |-> "update", id |-> j, used |-> passes[j].used,
             max_uses |-> passes[j].max_uses].pc # "answer"
        OBVIOUS
      <4>3. reader[r].pc # "answer" /\ UNCHANGED <<charged, delivered, lost>>
        BY <3>2 DEF SelectPass
      <4> QED BY <4>1, <4>2, <4>3, Zenon
    <3>3. CASE NoPass(r)
      <4>1. Idle.pc # "answer" /\ reader[r].pc # "answer"
        BY <3>3 DEF Idle, NoPass
      <4> QED BY <3>3, <4>1, Zenon DEF NoPass
    <3>4. CASE Fail(r) /\ reader[r].pc # "answer"
      <4>1. Idle.pc # "answer" /\ lost' = lost
        BY <3>4 DEF Idle, Fail
      <4> QED BY <3>4, <4>1, Zenon DEF Fail
    <3> QED BY <1>3, <3>1, <3>2, <3>3, <3>4
  <2>2. PICK x : x.pc # "answer" /\ reader' = [reader EXCEPT ![r] = x]
    BY <2>1
  <2> QED BY <1>0, <2>1, <2>2, AccountedMove
<1>4. CASE UNCHANGED <<reader, charged, delivered, lost>>
  BY <1>0, <1>4 DEF Accounted, Answering
<1> QED BY <1>1, <1>2, <1>3, <1>4 DEF Next, vars, Mint, Tick, Answer

\* Every UPDATE of a meter is a read delivered, about to be, or lost.
LEMMA AccountedHolds == Spec => []ChargesAccounted
<1>1. Init => ChargesAccounted
  <2> SUFFICES ASSUME Init, NEW i \in PassId PROVE charged[i] = Accounted(i)
    BY DEF ChargesAccounted
  <2>1. Answering(i) = {}
    BY DEF Init, Answering, Idle
  <2> QED BY <2>1, FS_EmptySet DEF Init, Accounted
<1> QED BY <1>1, AccountedStep, LedgerInvariant, PTL DEF Spec

-----------------------------------------------------------------------------
(* One request at a time *)

LEMMA SerialInit == Init => SerialInv
BY LedgerInit DEF Init, SerialInv, OneReader, SelectionsFresh, ExactMeter, Idle

LEMMA SerialMint ==
  ASSUME alone, SerialInv, NEW a \in Account, NEW uses \in 0..MaxUses,
         NEW until \in Until, Mint(a, uses, until),
         charged[nPasses + 1] = 0
  PROVE  SelectionsFresh' /\ ExactMeter'
<1> DEFINE new == [acct |-> a, max_uses |-> AtLeastOne(uses), used |-> 0,
                   valid_until |-> until, status |-> "active"]
<1>1. /\ nPasses' = nPasses + 1 /\ nPasses + 1 \in PassId
      /\ nPasses \in 0..MaxPasses
      /\ UNCHANGED <<reader, charged>>
      /\ passes'[nPasses + 1] = new
      /\ \A i \in PassId : i # nPasses + 1 => passes'[i] = passes[i]
  BY DEF Mint, SerialInv, LedgerInv, TypeOK
<1>2. ExactMeter'
  BY <1>1 DEF SerialInv, ExactMeter
<1>3. SelectionsFresh'
  BY <1>1 DEF SerialInv, LedgerInv, SelectionsHold, SelectionsFresh
<1> QED BY <1>2, <1>3

LEMMA SerialUpdate ==
  ASSUME alone, SerialInv, NEW r \in Reader, UpdatePass(r)
  PROVE  SelectionsFresh' /\ ExactMeter'
<1> DEFINE i == reader[r].id
           u == reader[r].used + 1
<1>1. /\ reader[r].pc = "update" /\ UNCHANGED nPasses
      /\ i \in Rows /\ i \in PassId
      /\ reader[r].used = passes[i].used
      /\ reader \in [Reader -> Request \cup {Idle}]
      /\ reader' = [reader EXCEPT ![r] = [pc |-> "answer", id |-> i]]
      /\ charged \in [PassId -> Nat] /\ nPasses \in 0..MaxPasses
      /\ charged' = [charged EXCEPT ![i] = @ + 1]
  BY DEF UpdatePass, MeterAfter, SerialInv, LedgerInv, TypeOK, SelectionsHold,
         SelectionsFresh, Idle
<1>2. /\ passes'[i].used = u
      /\ \A j \in PassId : j # i => passes'[j] = passes[j]
  <2>1. passes \in [PassId -> Row \cup {Absent}] /\ passes[i] \in Row
    BY <1>1 DEF SerialInv, LedgerInv, TypeOK
  <2>2. passes' = [passes EXCEPT
                     ![i].used = u,
                     ![i].status = StatusFor(u, reader[r].max_uses)]
    BY DEF UpdatePass, MeterAfter
  <2> QED BY <1>1, <2>1, <2>2 DEF Row
<1>3. ExactMeter'
  BY <1>1, <1>2 DEF SerialInv, ExactMeter
<1>4. \A q \in Reader : reader'[q].pc # "update"
  BY <1>1 DEF SerialInv, OneReader, Idle
<1>5. SelectionsFresh'
  BY <1>4 DEF SelectionsFresh
<1> QED BY <1>3, <1>5

\* A row that does not exist yet has let nothing through.
UnsoldUnspent == \A i \in PassId : i \notin Rows => charged[i] = 0

LEMMA UnsoldStep ==
  LedgerInv /\ UnsoldUnspent /\ [Next]_vars => UnsoldUnspent'
<1> SUFFICES ASSUME LedgerInv, UnsoldUnspent, [Next]_vars,
                    NEW i \in PassId, i \notin Rows'
             PROVE  charged'[i] = 0
  BY DEF UnsoldUnspent
<1> USE DEF LedgerInv, TypeOK
<1>1. CASE \E a \in Account, uses \in 0..MaxUses, until \in Until :
             Mint(a, uses, until)
  BY <1>1 DEF Mint, UnsoldUnspent
<1>2. CASE \E r \in Reader : UpdatePass(r)
  BY <1>2 DEF UpdatePass, MeterAfter, UnsoldUnspent, SelectionsHold
<1>3. CASE UNCHANGED <<nPasses, charged>>
  BY <1>3 DEF UnsoldUnspent
<1> QED BY <1>1, <1>2, <1>3 DEF Next, vars, Begin, SelectPass, NoPass, Answer,
                                Fail, Tick

\* Served alone, a request starts when every slot is idle, and no other step
\* starts one.
LEMMA AloneStep ==
  ASSUME alone, SerialInv, [Next]_vars
  PROVE  OneReader'
<1>1. /\ OneReader /\ alone
      /\ reader \in [Reader -> Request \cup {Idle}]
  BY DEF SerialInv, LedgerInv, TypeOK
<1>2. CASE UNCHANGED reader
  BY <1>1, <1>2 DEF OneReader
<1>3. ASSUME NEW r \in Reader, NEW a \in Account, Begin(r, a)
      PROVE  OneReader'
  <2>1. \A q \in Reader : q # r => reader'[q] = Idle
    BY <1>1, <1>3 DEF Begin
  <2> QED BY <2>1 DEF OneReader
<1>4. ASSUME NEW r \in Reader, SelectPass(r) \/ NoPass(r) \/ UpdatePass(r)
                                 \/ Answer(r) \/ Fail(r)
      PROVE  OneReader'
  <2>1. reader[r] # Idle
    <3>1. CASE Fail(r)
      BY <3>1 DEF Fail
    <3>2. CASE reader[r].pc # "idle"
      BY <3>2 DEF Idle
    <3> QED BY <1>4, <3>1, <3>2 DEF SelectPass, NoPass, UpdatePass, Answer
  <2>2. \A q \in Reader : q # r => reader[q] = Idle
    BY <1>1, <2>1 DEF OneReader
  <2>3. \A q \in Reader : q # r => reader'[q] = reader[q]
    BY <1>1, <1>4 DEF SelectPass, NoPass, UpdatePass, Answer, Fail
  <2> QED BY <2>2, <2>3 DEF OneReader
<1> QED BY <1>2, <1>3, <1>4 DEF Next, vars, Mint, Tick

\* The world does not change.
LEMMA AloneFixed == [Next]_vars => alone' = alone
BY DEF Next, vars, Mint, Begin, SelectPass, NoPass, UpdatePass, Answer, Fail,
       Tick

LEMMA SerialStep == SerialInv /\ UnsoldUnspent /\ [Next]_vars => SerialInv'
<1> SUFFICES ASSUME SerialInv, UnsoldUnspent, [Next]_vars, alone'
             PROVE  SelectionsFresh' /\ ExactMeter'
  BY AloneFixed, LedgerStep, AloneStep DEF SerialInv
<1>0. alone /\ SelectionsFresh /\ ExactMeter /\ LedgerInv
  <2>1. alone' = alone
    BY AloneFixed
  <2> QED BY <2>1 DEF SerialInv
<1>1. ASSUME NEW a \in Account, NEW uses \in 0..MaxUses, NEW until \in Until,
             Mint(a, uses, until)
      PROVE  SelectionsFresh' /\ ExactMeter'
  <2>1. nPasses + 1 \in PassId /\ nPasses + 1 \notin Rows
    BY <1>0, <1>1 DEF Mint, LedgerInv, TypeOK
  <2> QED BY <1>0, <1>1, <2>1, SerialMint DEF UnsoldUnspent
<1>2. ASSUME NEW r \in Reader, UpdatePass(r)
      PROVE  SelectionsFresh' /\ ExactMeter'
  BY <1>0, <1>2, SerialUpdate
<1> USE DEF SelectionsFresh, ExactMeter
<1>3. ASSUME NEW r \in Reader, SelectPass(r)
      PROVE  SelectionsFresh' /\ ExactMeter'
  BY <1>0, <1>3 DEF SelectPass, LedgerInv, TypeOK
<1>4. ASSUME NEW r \in Reader, \/ \E a \in Account : Begin(r, a)
                               \/ NoPass(r) \/ Answer(r) \/ Fail(r)
      PROVE  SelectionsFresh' /\ ExactMeter'
  <2>1. UNCHANGED <<passes, nPasses, charged>>
        /\ \E x : x.pc # "update" /\ reader' = [reader EXCEPT ![r] = x]
    BY <1>4, Zenon DEF Begin, NoPass, Answer, Fail, Idle
  <2> QED BY <1>0, <2>1 DEF LedgerInv, TypeOK
<1>5. CASE Tick \/ UNCHANGED vars
  BY <1>0, <1>5 DEF Tick, vars
<1> QED BY <1>1, <1>2, <1>3, <1>4, <1>5 DEF Next

LEMMA SerialHolds == Spec => [](SerialInv /\ UnsoldUnspent)
<1>1. Init => SerialInv /\ UnsoldUnspent
  BY SerialInit DEF Init, UnsoldUnspent
<1>2. SerialInv /\ UnsoldUnspent /\ [Next]_vars => SerialInv' /\ UnsoldUnspent'
  BY SerialStep, UnsoldStep DEF SerialInv
<1> QED BY <1>1, <1>2, PTL DEF Spec

\* The meter stands no higher than the reads delivered, those about to be and
\* those lost with a request that died after its UPDATE; served one request at a
\* time it is their sum.
THEOREM MeterTrueHolds == Spec => []MeterTrue
<1>1. SerialInv /\ ChargesAccounted => MeterTrue
  BY DEF SerialInv, LedgerInv, TypeOK, ChargesAccounted, NeverOvercharged,
         ExactMeter, MeterTrue
<1> QED BY <1>1, SerialHolds, AccountedHolds, PTL

\* What was delivered is part of what was charged, and a strict part of it while
\* an answer is due.
LEMMA DeliveredIsCharged ==
  ASSUME TypeOK, ChargesAccounted, NEW i \in PassId
  PROVE  /\ delivered[i] \in Nat /\ charged[i] \in Nat
         /\ delivered[i] <= charged[i]
         /\ Answering(i) # {} => delivered[i] < charged[i]
<1>1. /\ charged[i] = Accounted(i) /\ charged[i] \in Nat
      /\ delivered[i] \in Nat /\ lost[i] \in Nat
  BY DEF ChargesAccounted, TypeOK
<1>2. IsFiniteSet(Answering(i))
  BY FS_Subset DEF Answering
<1>3. Cardinality(Answering(i)) \in Nat
      /\ (Answering(i) # {} => Cardinality(Answering(i)) > 0)
  BY <1>2, FS_CardinalityType, FS_EmptySet
<1> QED BY <1>1, <1>3 DEF Accounted

\* Served one request at a time the meter is exact, so a pass delivers no more
\* reads than it was sold with.
THEOREM SerialExact == Spec => [](alone => SoldReadsBound)
<1>1. ASSUME SerialInv, ChargesAccounted, alone PROVE SoldReadsBound
  <2> SUFFICES ASSUME NEW i \in Rows PROVE delivered[i] <= passes[i].max_uses
    BY DEF SoldReadsBound
  <2>1. /\ i \in PassId /\ passes[i] \in Row /\ charged[i] = passes[i].used
        /\ TypeOK
    BY <1>1 DEF SerialInv, LedgerInv, TypeOK, ExactMeter
  <2>2. passes[i].used \in Nat /\ passes[i].max_uses \in Nat
    BY <2>1 DEF Row
  <2>3. passes[i].used <= passes[i].max_uses
    BY <1>1, <2>2 DEF SerialInv, LedgerInv, StatusMatchesMeter
  <2>4. delivered[i] \in Nat /\ delivered[i] <= charged[i]
    BY <1>1, <2>1, DeliveredIsCharged
  <2> QED BY <2>1, <2>2, <2>3, <2>4
<1> QED BY <1>1, SerialHolds, AccountedHolds, PTL

\* Served one request at a time, every step of the ledger is a sale, a read that
\* was sold, or nothing at all to the promise.
LEMMA PromiseStep ==
  ASSUME alone, SerialInv, ChargesAccounted, [Next]_vars
  PROVE  [Promise!PromiseNext]_(Promise!promiseVars)
<1> DEFINE sold == [i \in PassId |-> IF i \in Rows THEN passes[i].max_uses ELSE 0]
<1>1. TypeOK
  BY DEF SerialInv, LedgerInv
<1>2. ASSUME NEW a \in Account, NEW uses \in 0..MaxUses, NEW until \in Until,
             Mint(a, uses, until)
      PROVE  Promise!PromiseNext
  <2> DEFINE n == nPasses + 1
  <2>1. /\ n \in PassId /\ n \notin Rows /\ Rows' = Rows \cup {n}
        /\ UNCHANGED delivered
        /\ passes'[n].max_uses = AtLeastOne(uses)
        /\ \A i \in PassId : i # n => passes'[i] = passes[i]
    BY <1>1, <1>2 DEF Mint, TypeOK
  <2>2. AtLeastOne(uses) \in 1..MaxUses
    BY DEF AtLeastOne
  <2> HIDE DEF n
  <2>3. sold[n] = 0 /\ sold' = [sold EXCEPT ![n] = AtLeastOne(uses)]
    BY <2>1
  <2>4. Promise!Sell(n, AtLeastOne(uses))
    BY <2>1, <2>3 DEF Promise!Sell
  <2> QED BY <2>1, <2>2, <2>4 DEF Promise!PromiseNext
<1>3. ASSUME NEW r \in Reader, UpdatePass(r)
      PROVE  UNCHANGED Promise!promiseVars
  <2> DEFINE i == reader[r].id
  <2>1. /\ i \in Rows /\ i \in PassId /\ UNCHANGED <<nPasses, delivered>>
    BY <1>3 DEF UpdatePass, SerialInv, LedgerInv, TypeOK, SelectionsHold
  <2>2. \A j \in PassId : j \in Rows => passes'[j].max_uses = passes[j].max_uses
    <3>1. \A j \in PassId : j # i => passes'[j] = passes[j]
      BY <1>1, <1>3 DEF UpdatePass, MeterAfter, TypeOK
    <3>2. passes'[i].max_uses = passes[i].max_uses
      BY <1>1, <1>3, <2>1 DEF UpdatePass, MeterAfter, TypeOK, Row
    <3> QED BY <3>1, <3>2
  <2>3. sold' = sold
    BY <2>1, <2>2
  <2> QED BY <2>1, <2>3 DEF Promise!promiseVars
<1>4. ASSUME NEW r \in Reader, Answer(r)
      PROVE  Promise!PromiseNext
  <2> DEFINE i == reader[r].id
  <2>1. /\ reader[r].pc = "answer" /\ i \in Rows /\ i \in PassId
        /\ UNCHANGED <<passes, nPasses>>
        /\ delivered' = [delivered EXCEPT ![i] = @ + 1]
    BY <1>4 DEF Answer, SerialInv, LedgerInv, TypeOK, SelectionsHold
  <2>2. r \in Answering(i)
    BY <2>1 DEF Answering
  <2>3. delivered[i] \in Nat /\ charged[i] \in Nat /\ delivered[i] < charged[i]
    BY <1>1, <2>1, <2>2, DeliveredIsCharged
  <2>4. /\ passes[i] \in Row /\ charged[i] = passes[i].used
        /\ passes[i].used <= passes[i].max_uses
    <3>1. passes[i] \in Row /\ charged[i] = passes[i].used
      BY <1>1, <2>1 DEF SerialInv, LedgerInv, TypeOK, ExactMeter
    <3>2. passes[i].used \in Nat /\ passes[i].max_uses \in Nat
      BY <3>1 DEF Row
    <3> QED BY <2>1, <3>1, <3>2 DEF SerialInv, LedgerInv, StatusMatchesMeter
  <2>5. passes[i].max_uses \in Nat /\ passes[i].used \in Nat
    BY <2>4 DEF Row
  <2>6. sold[i] = passes[i].max_uses /\ sold' = sold
    BY <2>1
  <2>7. delivered[i] < sold[i]
    BY <2>3, <2>4, <2>5, <2>6
  <2>8. Promise!Spend(i)
    BY <2>1, <2>6, <2>7 DEF Promise!Spend
  <2> QED BY <2>1, <2>8 DEF Promise!PromiseNext
<1>5. CASE UNCHANGED <<passes, nPasses, delivered>>
  BY <1>5 DEF Promise!promiseVars
<1> QED BY <1>2, <1>3, <1>4, <1>5 DEF Next, vars, Begin, SelectPass, NoPass,
                                     Fail, Tick

\* Served one request at a time, the ledger implements the promise.
THEOREM SerialKeepsPromise == Spec => KeepsPromise
<1>1. Init => Promise!PromiseInit
  BY DEF Init, Promise!PromiseInit
<1>2. SerialInv /\ ChargesAccounted /\ [Next]_vars
        => [alone => Promise!PromiseNext]_(Promise!promiseVars)
  BY PromiseStep
<1> QED BY <1>1, <1>2, SerialHolds, AccountedHolds, PTL DEF Spec, KeepsPromise
=============================================================================
