------------------------------- MODULE Homes -------------------------------
(***************************************************************************)
(* How a smart account comes to exist, gets its name and is used: the      *)
(* relays of apps/impact-a2a (deploy, call, Google custody), the sign-in   *)
(* routes of apps/impact/server/connect and the flows of                   *)
(* apps/impact/src/lib/connect.ts that call them.                          *)
(*                                                                         *)
(* A request is one run of a flow by one browser tab.  Between any two of  *)
(* its calls any other request may run.  The chain is read through a       *)
(* replica that may lag (or not answer), an answer may be lost after its   *)
(* operation landed, and a tab may be closed.                              *)
(*                                                                         *)
(* External (the chain): an operation is refused unless it carries the     *)
(* account's next nonce, a deployment is refused when the account exists   *)
(* and a call when it does not; one that is accepted counts even when its  *)
(* batch reverts, and the batch is all or nothing.  A label has one owner  *)
(* and an account at most one label.                                       *)
(***************************************************************************)
EXTENDS Naturals

CONSTANTS
  Passkey, Wallet, Social,  \* the members' homes, by credential
  Before,     \* members' homes that may be there from the start
  Treasury,   \* accounts a passkey derives with the fixed salt 1
  Fresh,      \* accounts derived with a random salt, each drawn once
  NoHome,     \* the owner of a free label
  NLabel,     \* labels are base, base2, ... baseN of one wished name
  Wish,       \* what may be wished: 0 for no name, or a first label
  Tab,        \* requests that can run at once
  Flows,      \* the flows tabs may start
  Attempts,   \* executeCall's attempts
  Resends,    \* submit-call-userop's attempts after AA20
  MaxBegins   \* bound: requests ever started

Member == Passkey \cup Wallet \cup Social
Account == Member \cup Treasury \cup Fresh
Flow == {"passkey", "wallet", "social", "later", "treasury", "agent",
         "nameAgent", "act", "direct"}

ASSUME HomesConstants ==
  /\ Before \subseteq Member
  /\ NLabel \in Nat /\ MaxBegins \in Nat
  /\ Attempts \in Nat \ {0} /\ Resends \in Nat \ {0}
  /\ Flows \subseteq Flow /\ Wish \subseteq 0..NLabel
  /\ NoHome \notin Account
  /\ Fresh \cap (Member \cup Treasury) = {}   \* an address is a hash of its salt

VARIABLES
  code,      \* accounts that are deployed
  nonce,     \* account -> its next nonce
  owner,     \* label -> the account it is registered to
  approved,  \* accounts whose stewardship grant is approved on chain
  recorded,  \* managed accounts recorded in the owner's vault
  drawn,     \* salts drawn: members of Fresh that were derived
  req,       \* tab -> its request
  begun,     \* requests started
  calm       \* no read is stale, no answer lost, no account has two tabs

vars == <<code, nonce, owner, approved, recorded, drawn, req, begun, calm>>
chain == <<code, nonce, owner, approved>>

Label == 1..NLabel
NameOf(h) == {l \in Label : owner[l] = h}   \* reverseResolve: none or one

Pc == {"login", "guard", "look", "reverse", "pick", "build", "submit",
       "again", "record", "done"}
Request ==
  [flow : Flow, home : Account \cup {NoHome}, wish : 0..NLabel, pc : Pc,
   deploy : BOOLEAN,   \* the operation deploys the account
   fresh : BOOLEAN,    \* this request deployed it: minNonce is 1
   label : 0..NLabel,  \* the label its batch registers, 0 for none
   nonce : Nat, tries : 0..(Attempts - 1), sends : 0..(Resends - 1),
   said : {"nothing", "ok", "failed", "warned"}, name : 0..NLabel,
   short : BOOLEAN,    \* answered by the alreadyDeployed shortcut
   refused : BOOLEAN,  \* an operation of it was refused (history)
   hits : Nat,         \* calls of it that took effect (history)
   lost : Nat]         \* answers of it that were lost (history)

Idle == [flow |-> "act", home |-> NoHome, wish |-> 0, pc |-> "done",
         deploy |-> FALSE, fresh |-> FALSE, label |-> 0, nonce |-> 0,
         tries |-> 0, sends |-> 0, said |-> "nothing", name |-> 0,
         short |-> FALSE, refused |-> FALSE, hits |-> 0, lost |-> 0]

Active(t) == req[t].pc # "done"
Set(t, r) == req' = [req EXCEPT ![t] = r]
Ended(r, said, name) ==
  [r EXCEPT !.pc = "done", !.said = said, !.name = name,
            !.nonce = 0, !.tries = 0, !.sends = 0, !.deploy = FALSE,
            !.fresh = FALSE]

-----------------------------------------------------------------------------
(* What a read of the chain can return *)

SeesCode(h) == {h \in code} \cup (IF ~calm THEN {FALSE} ELSE {})
SeesNonce(h) == {n \in 0..nonce[h] : n = nonce[h] \/ ~calm}
SeesName(h) == NameOf(h) \cup (IF ~calm \/ NameOf(h) = {} THEN {0} ELSE {})
\* /connect/name: the first label of the sequence that resolves to nothing
Free(w) == {l \in Label : /\ w <= l
                          /\ owner[l] = NoHome \/ ~calm
                          /\ \A k \in w..(l - 1) : owner[k] # NoHome}

-----------------------------------------------------------------------------
(* Starting a flow *)

\* who may start flow f on account h with the wished label w, and where
Starts(f, h, w) ==
  CASE f = "passkey" -> h \in Passkey
    [] f = "wallet" -> h \in Wallet
    [] f = "social" -> h \in Social
    [] f = "direct" -> h \in Member /\ w = 0
    [] f = "treasury" -> h \in Treasury
    [] f = "agent" -> h \in Fresh \ drawn
    [] f = "nameAgent" -> h \in code /\ w # 0
    [] f = "later" -> h \in code \cap Member /\ w # 0
    [] f = "act" -> h \in code \cap Member /\ w = 0

First(f, w) ==
  CASE f \in {"passkey", "wallet"} -> "login"
    [] f \in {"social", "direct"} -> "look"
    [] f = "later" -> "reverse"
    [] f \in {"treasury", "agent"} -> IF w = 0 THEN "build" ELSE "pick"
    [] OTHER -> "build"

Begin(t) ==
  /\ ~Active(t) /\ begun < MaxBegins
  /\ \E f \in Flows, h \in Account, w \in Wish :
       /\ Starts(f, h, w)
       /\ calm => \A u \in Tab : Active(u) => req[u].home # h
       /\ Set(t, [Idle EXCEPT !.flow = f, !.home = h, !.wish = w,
                              !.pc = First(f, w),
                              !.deploy = f \in {"treasury", "agent"},
                              !.label = IF f = "nameAgent" THEN w ELSE 0])
       /\ drawn' = IF f = "agent" THEN drawn \cup {h} ELSE drawn
  /\ begun' = begun + 1
  /\ UNCHANGED <<chain, recorded, calm>>

-----------------------------------------------------------------------------
(* Signing in *)

\* /connect/passkey, /connect/siwe: a session when the account is there,
\* else "bootstrap"; a wallet with a wished name goes on to claim it.
LoginForgets(t) ==   \* mutant: an existing home is not named
  LET r == req[t] IN
  /\ r.pc = "login"
  /\ \E seen \in SeesCode(r.home) :
       Set(t, IF seen THEN Ended(r, "ok", 0)
              ELSE IF r.flow = "wallet"
              THEN [r EXCEPT !.pc = "build", !.deploy = TRUE]
              ELSE [r EXCEPT !.pc = "guard"])
  /\ UNCHANGED <<chain, recorded, drawn, begun, calm>>
Login(t) ==
  LET r == req[t] IN
  /\ r.pc = "login"
  /\ \E seen \in SeesCode(r.home) :
       Set(t, IF seen
              THEN IF r.flow = "wallet" /\ r.wish # 0
                   THEN [r EXCEPT !.pc = "reverse"] ELSE Ended(r, "ok", 0)
              ELSE IF r.flow = "wallet"
              THEN [r EXCEPT !.pc = "build", !.deploy = TRUE]
              ELSE [r EXCEPT !.pc = "guard"])
  /\ UNCHANGED <<chain, recorded, drawn, begun, calm>>

Deploying(r) == [r EXCEPT !.pc = IF r.wish = 0 THEN "build" ELSE "pick",
                          !.deploy = TRUE]

\* connectPasskey: only deploy when the account is not on chain yet
Guard(t) ==
  LET r == req[t] IN
  /\ r.pc = "guard"
  /\ \E seen \in SeesCode(r.home) :
       Set(t, IF seen THEN [r EXCEPT !.pc = "again"] ELSE Deploying(r))
  /\ UNCHANGED <<chain, recorded, drawn, begun, calm>>

\* the second sign-in, after the deployment
Again(t) ==
  LET r == req[t] IN
  /\ r.pc = "again"
  /\ \E seen \in SeesCode(r.home) :
       Set(t, Ended(r, IF seen THEN "ok" ELSE "failed", r.name))
  /\ UNCHANGED <<chain, recorded, drawn, begun, calm>>

\* The custody routes and direct-deploy look at the code first and, when
\* there is some, answer at once with the wished name.
Look(t) ==
  LET r == req[t] IN
  /\ r.pc = "look"
  /\ \E seen \in SeesCode(r.home) :
       Set(t, IF seen THEN [Ended(r, "ok", r.wish) EXCEPT !.short = TRUE]
              ELSE [r EXCEPT !.pc = "build", !.deploy = TRUE,
                             !.label = r.wish])
  /\ UNCHANGED <<chain, recorded, drawn, begun, calm>>

-----------------------------------------------------------------------------
(* Naming *)

\* what comes after a claim: a wallet signs in whether or not it got a name
Claimed(r, ok) ==
  LET name == IF ok THEN r.label ELSE 0 IN
  IF r.flow = "wallet" /\ r.fresh
  THEN [r EXCEPT !.pc = "again", !.name = name]
  ELSE Ended(r, IF ok \/ r.flow = "wallet" THEN "ok" ELSE "failed", name)

\* claimHomeName, connectWalletSiwe: adopt the name the account has
ReverseBlind(t) ==   \* mutant: claims without looking for a name
  /\ req[t].pc = "reverse"
  /\ Set(t, [req[t] EXCEPT !.pc = "pick"])
  /\ UNCHANGED <<chain, recorded, drawn, begun, calm>>
Reverse(t) ==
  LET r == req[t] IN
  /\ r.pc = "reverse"
  /\ \E l \in SeesName(r.home) :
       Set(t, IF l = 0 THEN [r EXCEPT !.pc = "pick"] ELSE Ended(r, "ok", l))
  /\ UNCHANGED <<chain, recorded, drawn, begun, calm>>

Pick(t) ==
  LET r == req[t] IN
  /\ r.pc = "pick"
  /\ \/ \E l \in Free(r.wish) :
          Set(t, [r EXCEPT !.pc = "build", !.label = l])
     \/ /\ \A l \in r.wish..NLabel : owner[l] # NoHome
        /\ Set(t, Claimed(r, FALSE))
  /\ UNCHANGED <<chain, recorded, drawn, begun, calm>>

-----------------------------------------------------------------------------
(* Operations *)

\* after an error executeCall builds and signs again, the others report it
Failed(r) ==
  IF r.deploy \/ r.flow = "nameAgent" THEN Ended(r, "failed", 0)
  ELSE IF r.tries + 1 < Attempts
  THEN [r EXCEPT !.pc = "build", !.tries = r.tries + 1]
  ELSE Claimed(r, FALSE)

\* after an ok answer
SucceededTwice(r) ==   \* mutant: executeCall goes round again after an ok
  IF ~r.deploy /\ r.tries + 1 < Attempts
  THEN [r EXCEPT !.pc = "build", !.tries = r.tries + 1]
  ELSE Ended(r, "ok", r.label)
Succeeded(r) ==
  IF ~r.deploy THEN Claimed(r, TRUE)
  ELSE CASE r.flow = "passkey" -> [r EXCEPT !.pc = "again", !.name = r.label]
         [] r.flow = "wallet" ->
              [r EXCEPT !.pc = IF r.wish = 0 THEN "again" ELSE "pick",
                        !.deploy = FALSE, !.fresh = TRUE]
         [] r.flow \in {"treasury", "agent"} -> [r EXCEPT !.pc = "record"]
         [] OTHER -> Ended(r, "ok", r.label)

BuildRegisters(t) ==   \* mutant: the relay registers before it deploys
  LET r == req[t] IN
  /\ r.pc = "build" /\ r.flow # "direct"
  /\ Set(t, [r EXCEPT !.pc = "submit", !.nonce = nonce[r.home], !.sends = 0])
  /\ owner' = IF r.label = 0 THEN owner ELSE [owner EXCEPT ![r.label] = r.home]
  /\ UNCHANGED <<code, nonce, approved, recorded, drawn, begun, calm>>
Build(t) ==
  LET r == req[t] IN
  /\ r.pc = "build" /\ r.flow # "direct"
  /\ \/ \E n \in SeesNonce(r.home) :
          Set(t, IF r.fresh /\ n = 0 THEN Failed(r)   \* the minNonce gate
                 ELSE [r EXCEPT !.pc = "submit", !.nonce = n, !.sends = 0])
     \/ ~calm /\ Set(t, Failed(r))
  /\ UNCHANGED <<chain, recorded, drawn, begun, calm>>

\* direct-deploy: a transaction of the relayer itself, reported ok whether
\* or not it reverted
DirectDeploy(t) ==
  /\ req[t].pc = "build" /\ req[t].flow = "direct"
  /\ \/ code' = code \cup {req[t].home}
     \/ ~calm /\ UNCHANGED code
  /\ Set(t, Ended(req[t], "ok", 0))
  /\ UNCHANGED <<nonce, owner, approved, recorded, drawn, begun, calm>>

Acceptable(r) ==
  /\ r.nonce = nonce[r.home]
  /\ r.deploy <=> r.home \notin code

\* AA20: the account is not there, or not yet on the replica that is asked
Missing(r) == ~r.deploy /\ (r.home \notin code \/ ~calm)

\* submit-call-userop sends the same signed operation again after AA20
ResendForever(t) ==   \* mutant: no budget
  /\ req[t].pc = "submit" /\ Missing(req[t]) /\ req[t].flow # "nameAgent"
  /\ UNCHANGED vars
Resend(t) ==
  LET r == req[t] IN
  /\ r.pc = "submit" /\ Missing(r) /\ r.flow # "nameAgent"
  /\ r.sends + 1 < Resends
  /\ Set(t, [r EXCEPT !.sends = r.sends + 1])
  /\ UNCHANGED <<chain, recorded, drawn, begun, calm>>

Refused(t) ==
  LET r == req[t] IN
  /\ r.pc = "submit"
  /\ ~Acceptable(r) \/ Missing(r)
  /\ Missing(r) /\ r.flow # "nameAgent" => r.sends + 1 >= Resends
  /\ Set(t, Failed([r EXCEPT !.refused = TRUE]))
  /\ UNCHANGED <<chain, recorded, drawn, begun, calm>>

\* register, setPrimary and the grants are one batch: all or nothing
BatchHolds(r) ==
  r.label # 0 => owner[r.label] = NoHome /\ NameOf(r.home) = {}

Register(r) ==
  owner' = IF r.label # 0 /\ BatchHolds(r)
           THEN [owner EXCEPT ![r.label] = r.home] ELSE owner

\* the deployment of a managed agent approves its stewardship grant
Approve(r, held) ==
  approved' = IF held /\ r.flow \in {"treasury", "agent"} /\ r.deploy
              THEN approved \cup {r.home} ELSE approved

AnswerAlways(r, held) == Succeeded(r)   \* mutant: receipt taken for success
AnswerFor(r, held) == IF held THEN Succeeded(r) ELSE Failed(r)

Land(t) ==
  LET r == req[t]
      held == BatchHolds(r)
      s == [r EXCEPT !.hits = IF held /\ ~r.deploy THEN r.hits + 1 ELSE r.hits] IN
  /\ r.pc = "submit" /\ Acceptable(r)
  /\ code' = code \cup {r.home}
  /\ nonce' = [nonce EXCEPT ![r.home] = @ + 1]
  /\ Register(r)
  /\ Approve(r, held)
  /\ \/ Set(t, AnswerFor(s, held))
     \/ ~calm /\ Set(t, Failed([s EXCEPT !.lost = s.lost + 1]))
  /\ UNCHANGED <<recorded, drawn, begun, calm>>

\* recordRelationship: tried again once; a failure is a warning
Record(t) ==
  LET r == req[t] IN
  /\ r.pc = "record"
  /\ \/ recorded' = recorded \cup {r.home} /\ Set(t, Ended(r, "ok", r.label))
     \/ ~calm /\ UNCHANGED recorded /\ Set(t, Ended(r, "warned", r.label))
  /\ UNCHANGED <<chain, drawn, begun, calm>>

\* the tab is closed, whatever its flow was doing
Leave(t) ==
  /\ ~calm /\ Active(t) /\ req[t].pc # "submit"
  /\ Set(t, Idle)
  /\ UNCHANGED <<chain, recorded, drawn, begun, calm>>

-----------------------------------------------------------------------------
Init ==
  /\ calm \in BOOLEAN
  /\ code \in SUBSET Before   \* still without a name
  /\ approved = {} /\ recorded = {} /\ drawn = {}
  /\ nonce = [h \in Account |-> IF h \in code THEN 1 ELSE 0]
  /\ owner = [l \in Label |-> NoHome]
  /\ req = [t \in Tab |-> Idle]
  /\ begun = 0

Step(t) ==
  \/ Login(t) \/ Guard(t) \/ Again(t) \/ Look(t) \/ Reverse(t) \/ Pick(t)
  \/ Build(t) \/ DirectDeploy(t) \/ Resend(t) \/ Refused(t) \/ Land(t)
  \/ Record(t)

Next == \E t \in Tab : Begin(t) \/ Step(t) \/ Leave(t)

Spec == Init /\ [][Next]_vars

\* A flow goes on until it answers: every call it awaits returns or fails.
FairSpec == Spec /\ \A t \in Tab : WF_vars(Step(t))

-----------------------------------------------------------------------------
(* Properties *)

\* Every variable keeps its shape.
TypeOK ==
  /\ code \subseteq Account /\ approved \subseteq Account
  /\ recorded \subseteq Account /\ drawn \subseteq Fresh
  /\ nonce \in [Account -> Nat]
  /\ owner \in [Label -> Account \cup {NoHome}]
  /\ req \in [Tab -> Request]
  /\ begun \in 0..MaxBegins /\ calm \in BOOLEAN

\* A registered name belongs to an account that has code: "register and
\* deploy are now atomic: ... no orphan possible".
NoOrphanName == \A l \in Label : owner[l] # NoHome => owner[l] \in code

\* A request that is told it has a name has it, unless the answer came from
\* the alreadyDeployed shortcut, which looks at the code only.
NamesToldAreOwned ==
  \A t \in Tab : LET r == req[t] IN
    r.said \in {"ok", "warned"} /\ r.name # 0 /\ ~r.short
      => owner[r.name] = r.home

\* However often executeCall rebuilds and signs again, a call takes effect
\* at most once more than answers were lost, and once it is answered ok it
\* has taken effect.
EffectsAccounted ==
  \A t \in Tab : LET r == req[t] IN
    /\ r.hits <= r.lost + 1
    /\ r.flow = "act" /\ r.said = "ok" => r.hits = r.lost + 1

\* An agent is recorded in the vault only when it exists and the grant that
\* is recorded with it was approved by its own deployment.
RecordedIsApproved == recorded \subseteq (code \cap approved)

\* In a calm world no flow submits an operation the EntryPoint refuses
\* (AA10, AA20, AA25) or claims a second name for an account.  Two flows
\* never look: a treasury's salt is fixed, so a second one is refused, and
\* name-agent claims whatever name the account has.
NoDoomedOperation ==
  calm => \A t \in Tab :
    /\ req[t].refused => req[t].flow = "treasury"
    /\ req[t].pc = "submit" /\ NameOf(req[t].home) # {} /\ req[t].label # 0
         => req[t].flow \in {"treasury", "nameAgent"}

\* A wallet that asked for a name and signed in without one was beaten to
\* the label it picked, or every label was taken.
NamelessOnlyIfTaken ==
  calm => \A t \in Tab : LET r == req[t] IN
    r.flow = "wallet" /\ r.said = "ok" /\ r.wish # 0 /\ r.name = 0
      => \/ r.label # 0 /\ owner[r.label] # NoHome
         \/ \A l \in r.wish..NLabel : owner[l] # NoHome

\* Every flow ends, whatever lags or is lost.
Finishes == \A t \in Tab : Active(t) ~> ~Active(t)
=============================================================================
