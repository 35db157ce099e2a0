------------------------------- MODULE SignIn -------------------------------
(***************************************************************************)
(* The tickets a sign-in goes through, and the index of who signed in as   *)
(* what.  The broker (apps/impact/server) keeps one record per step in the *)
(* AUTH_CODES KV: the state of a social login, the nonce of a wallet or    *)
(* passkey login, the enrollment grant of a relying app, and the codes the *)
(* first and the last of these are traded for.  A record is read, deleted  *)
(* and judged, in that order, by requests that overlap.  impact-a2a        *)
(* records instead what was used (bridge envelopes, SIWE messages), after  *)
(* it judged; impact-mcp counts (delegation tokens).                       *)
(*                                                                         *)
(* External: the identity providers, signatures and accounts on the chain; *)
(* KV answers with the last write.  The account derived from a social      *)
(* login is always the same: its rotation is read (kv-indexer.ts 81), but  *)
(* nothing calls bumpRotation (89), so it is 0 everywhere.                 *)
(***************************************************************************)
EXTENDS Integers, Sequences, FiniteSets

CONSTANTS
  App,         \* the audiences: the home and the relying apps
  Home,        \* the home's own audience
  Agent,       \* accounts a credential may come to stand for
  Credential,  \* (iss, sub) of a social login, or a wallet or passkey
  HomeOf,      \* credential -> the account derived from it
  NoAgent, NoCredential,   \* where there is none
  Freshness,   \* BRIDGE_FRESHNESS_MS
  SiweKeep,    \* how long the nonce of a SIWE message is kept (600 s)
  Limit,       \* usageLimit of a delegation token
  Worlds,      \* sets of kinds of ticket a sign-in may begin with
  MaxTickets,  \* bound: tickets ever made
  MaxTime,     \* bound: the clock
  Slot,        \* requests that can be in flight at once
  MaxBegins    \* bound: requests ever started

ASSUME SignInConstants ==
  /\ Home \in App /\ HomeOf \in [Credential -> Agent]
  /\ NoAgent \notin Agent /\ NoCredential \notin Credential
  /\ Freshness \in Nat /\ SiweKeep \in Nat /\ Limit \in Nat
  /\ MaxTickets \in Nat \ {0} /\ MaxTime \in Nat /\ MaxBegins \in Nat

Taken == {"state", "code", "nonce", "grant", "authcode"}
Marked == {"envelope", "siwe"}
Kind == Taken \cup Marked \cup {"token"}

Id == 1..MaxTickets
Time == 0..MaxTime

VARIABLES
  minted,   \* tickets 1..minted exist
  ticket,   \* id -> what it is and whom it is bound to
  live,     \* ids whose record is in AUTH_CODES
  until,    \* id -> when its nonce record lapses; -1 if there is none
  usage,    \* id -> token_usage.usage
  facet,    \* credential -> the agents linked to it, oldest first
  req,      \* slot -> its request
  clock,
  begun,    \* requests started
  alone,    \* no two requests for one credential at the same time
  world,    \* the kinds of ticket this behaviour begins with
  used      \* id -> uses let through (history)

vars == <<minted, ticket, live, until, usage, facet, req, clock, begun, alone,
          world, used>>

Ticket == [kind : Kind, app : App,
           link : Agent \cup {NoAgent},   \* link_token: the agent to link to
           ts : -Freshness..MaxTime + Freshness,   \* made, by its envelope
           root : Id]   \* the ticket its sign-in began with (history)
Request ==
  [id : Id,
   app : App,   \* who presents it; the delegate, where it is a grant
   cred : Credential \cup {NoCredential},
   pc : {"get", "delete", "seen", "judge", "links", "append", "mint", "record",
         "done"},
   found : BOOLEAN,
   agent : Agent \cup {NoAgent},   \* who the session will be for
   links : Seq(Agent),             \* the facet list it read
   said : {"nothing", "ok"},
   at : Time,        \* the clock it read before it looked for its nonce
   late : BOOLEAN]   \* begun after its ticket had been used (history)

Active(t) == req[t].pc # "done"
Of(t) == ticket[req[t].id]
Set(t, r) == req' = [req EXCEPT ![t] = r]
Goto(t, pc) == Set(t, [req[t] EXCEPT !.pc = pc])
Ended(r) == [r EXCEPT !.pc = "done", !.said = "ok", !.links = <<>>,
                      !.agent = NoAgent, !.found = FALSE, !.at = 0]
Idle == [id |-> CHOOSE i \in Id : TRUE, app |-> Home, cred |-> NoCredential,
         pc |-> "done", found |-> FALSE, agent |-> NoAgent, links |-> <<>>,
         said |-> "nothing", at |-> 0, late |-> FALSE]
Refused(t) == Set(t, Idle)
Used(t) == used' = [used EXCEPT ![req[t].id] = @ + 1]
Succeeds(t) == Set(t, Ended(req[t])) /\ Used(t)

-----------------------------------------------------------------------------
(* Making tickets *)

Stored(k, i) == IF k \in Taken THEN live \cup {i} ELSE live

New(k, app, link, ts, root) ==
  /\ minted < MaxTickets
  /\ minted' = minted + 1
  /\ ticket' = [ticket EXCEPT ![minted'] =
       [kind |-> k, app |-> app, link |-> link, root |-> root,
        ts |-> IF k = "envelope" THEN ts ELSE 0]]
  /\ live' = Stored(k, minted')
First(k, app, link, ts) == k \in world /\ New(k, app, link, ts, minted + 1)

\* /oidc/<provider>/start, for a login or to link the login to an agent
StartSocial ==
  \E app \in App, link \in Agent \cup {NoAgent} :
     First("state", app, link, clock)

\* /connect/nonce, /connect/passkey-challenge
IssueNonce == \E app \in App : First("nonce", app, NoAgent, clock)

\* /oidc/authorize-grant, of a registered client, bound to its redirect, its
\* PKCE challenge and the delegate the registry has for it
AuthorizeGrant == \E app \in App : First("grant", app, NoAgent, clock)

\* signBridgeCall, by a clock up to Freshness away; a SIWE message; a
\* delegation token
SignEnvelope ==
  \E d \in -Freshness..Freshness :
     First("envelope", Home, NoAgent, clock + d)
SignSiwe == First("siwe", Home, NoAgent, clock)
MintToken == First("token", Home, NoAgent, clock)

Make ==
  /\ \/ StartSocial \/ IssueNonce \/ AuthorizeGrant
     \/ SignEnvelope \/ SignSiwe \/ MintToken
  /\ UNCHANGED <<until, usage, facet, req, clock, begun, alone, world,
                 used>>

-----------------------------------------------------------------------------
(* Presenting them: any app, any number of times *)

\* |now - ts| > BRIDGE_FRESHNESS_MS is refused
Fresh(ts) == clock - ts \in -Freshness..Freshness
KeepOnce == Freshness    \* mutant: for one window only
Keep == 2 * Freshness    \* how long the nonce of an envelope is kept
Kept(k) == IF k = "siwe" THEN SiweKeep ELSE Keep
Known(i) == until[i] >= clock

\* a SIWE message is looked up at once, and after SiweKeep it is a new one:
\* nothing in the handler tells how old it is
Late(i) ==
  /\ ticket[i].kind # "token" /\ used[i] > 0
  /\ ticket[i].kind = "siwe" => Known(i)

Present(t) ==
  /\ ~Active(t) /\ begun < MaxBegins
  /\ \E i \in 1..minted, app \in App, c \in Credential \cup {NoCredential} :
       /\ ticket[i].kind \in {"grant", "code", "authcode"} \/ app = Home
       /\ ticket[i].kind \in {"state", "nonce"} <=> c # NoCredential
       /\ alone /\ c # NoCredential =>
            \A u \in Slot : Active(u) => req[u].cred # c
       /\ Set(t, [id |-> i, app |-> app, cred |-> c,
                  pc |-> IF ticket[i].kind = "siwe" THEN "seen" ELSE "get",
                  found |-> FALSE, agent |-> NoAgent, links |-> <<>>,
                  said |-> "nothing",
                  at |-> IF ticket[i].kind = "siwe" THEN clock ELSE 0,
                  late |-> Late(i)])
  /\ begun' = begun + 1
  /\ UNCHANGED <<minted, ticket, live, until, usage, facet, clock, alone,
                 world, used>>

\* the first look: at the record, or at the clock
Get(t) ==
  LET i == req[t].id   k == Of(t).kind IN
  /\ req[t].pc = "get"
  /\ \/ k \in Taken
          /\ IF k = "nonce" /\ i \notin live THEN Refused(t)
             ELSE Set(t, [req[t] EXCEPT !.pc = "delete", !.found = i \in live])
     \/ k = "envelope"
          /\ IF Fresh(Of(t).ts)
             THEN Set(t, [req[t] EXCEPT !.pc = "seen", !.at = clock])
             ELSE Refused(t)
     \/ k = "token" /\ Goto(t, "record")
  /\ UNCHANGED <<minted, ticket, live, until, usage, facet, clock, begun,
                 alone, world, used>>

\* the nonce store is asked; if the clock moved since it was read, the record
\* may have lapsed meanwhile, and then nobody can tell that it was used
Seen(t) ==
  LET r == req[t] IN
  /\ r.pc = "seen"
  /\ IF Known(r.id) THEN Refused(t)
     ELSE Set(t, [r EXCEPT !.pc = "judge", !.at = 0,
                           !.late = @ /\ r.at = clock])
  /\ UNCHANGED <<minted, ticket, live, until, usage, facet, clock, begun,
                 alone, world, used>>

\* delete it, whatever comes of it
Delete(t) ==
  /\ req[t].pc = "delete"
  /\ live' = live \ {req[t].id}
  /\ IF req[t].found THEN Goto(t, "judge") ELSE Refused(t)
  /\ UNCHANGED <<minted, ticket, until, usage, facet, clock, begun, alone,
                 world, used>>

-----------------------------------------------------------------------------
(* Judging a request, and where it goes *)

\* The agent a social login stands for: at the home the one impact-a2a
\* derives, if it can be asked; else the oldest linked one, if any.
Oldest(c) == IF facet[c] = <<>> THEN NoAgent ELSE facet[c][1]
Callback(t) ==
  LET r == req[t]
      Stands(a, pc) == Set(t, [r EXCEPT !.agent = a, !.pc = pc]) IN
  /\ Of(t).kind = "state"
  /\ \/ Of(t).link # NoAgent /\ Stands(Of(t).link, "links")
     \/ Of(t).link = NoAgent /\ Of(t).app = Home
          /\ Stands(HomeOf[r.cred], "links")
     \/ /\ Of(t).link = NoAgent
        /\ IF Oldest(r.cred) = NoAgent THEN Refused(t)   \* bootstrap
           ELSE Stands(Oldest(r.cred), "mint")
  /\ UNCHANGED used

\* a wallet or a passkey proves itself: its own account, or a named agent
\* that has it for a custodian
Prove(t) ==
  /\ Of(t).kind = "nonce"
  /\ \E a \in Agent : Set(t, [req[t] EXCEPT !.agent = a, !.pc = "links"])
  /\ UNCHANGED used

\* /oidc/grant: the delegation is to the registered delegate, and is signed
Grant(t) ==
  /\ Of(t).kind = "grant"
  /\ IF req[t].app = Of(t).app THEN Goto(t, "mint") ELSE Refused(t)
  /\ UNCHANGED used

\* /token, with a login code (the audience) or an authorization code (the
\* client, the redirect and the verifier)
ExchangeAny(t) ==   \* mutant: the client is not compared
  Of(t).kind \in {"code", "authcode"} /\ Succeeds(t)
Exchange(t) ==
  /\ Of(t).kind \in {"code", "authcode"}
  /\ IF req[t].app = Of(t).app THEN Succeeds(t)
     ELSE Refused(t) /\ UNCHANGED used

\* the signature of an envelope, or of a message, by its account on the chain
Verify(t) ==
  Of(t).kind \in Marked /\ Goto(t, "record") /\ UNCHANGED used

Judge(t) ==
  /\ req[t].pc = "judge"
  /\ \/ Callback(t) \/ Prove(t) \/ Grant(t) \/ Exchange(t) \/ Verify(t)
     \/ Refused(t) /\ UNCHANGED used
  /\ UNCHANGED <<minted, ticket, live, until, usage, facet, clock, begun, alone,
                 world>>

-----------------------------------------------------------------------------
(* What a judged request leaves behind *)

\* appendLink: read the list, and write it back with the agent at its end
ReadLinks(t) ==
  /\ req[t].pc = "links"
  /\ Set(t, [req[t] EXCEPT !.pc = "append", !.links = facet[req[t].cred]])
  /\ UNCHANGED <<minted, ticket, live, until, usage, facet, clock, begun,
                 alone, world, used>>

LinkedFirst(r) == <<r.agent>> \o r.links   \* mutant: at its front
Linked(r) == Append(r.links, r.agent)
Has(r) == \E k \in DOMAIN r.links : r.links[k] = r.agent

\* a login goes on to its code, a link to an agent and a proof end here
Append_(t) ==
  LET r == req[t] IN
  /\ r.pc = "append"
  /\ facet' = IF Has(r) THEN facet ELSE [facet EXCEPT ![r.cred] = Linked(r)]
  /\ IF Of(t).kind = "state" /\ Of(t).link = NoAgent
     THEN Set(t, [r EXCEPT !.pc = "mint", !.links = <<>>]) /\ UNCHANGED used
     ELSE Succeeds(t)
  /\ UNCHANGED <<minted, ticket, live, until, usage, clock, begun, alone,
                 world>>

\* the code it is traded for
MintCode(t) ==
  /\ req[t].pc = "mint"
  /\ New(IF Of(t).kind = "state" THEN "code" ELSE "authcode", Of(t).app,
         NoAgent, clock, Of(t).root)
  /\ Succeeds(t)
  /\ UNCHANGED <<until, usage, facet, clock, begun, alone,
                 world>>

\* the nonce is recorded after the verification; a token counts and asks
Record(t) ==
  LET i == req[t].id IN
  /\ req[t].pc = "record"
  /\ IF Of(t).kind = "token"
     THEN /\ usage' = [usage EXCEPT ![i] = @ + 1] /\ UNCHANGED until
          /\ IF usage[i] + 1 <= Limit THEN Succeeds(t)
             ELSE Refused(t) /\ UNCHANGED used
     ELSE /\ until' = [until EXCEPT ![i] = clock + Kept(Of(t).kind)]
          /\ UNCHANGED usage /\ Succeeds(t)
  /\ UNCHANGED <<minted, ticket, live, facet, clock, begun, alone,
                 world>>

-----------------------------------------------------------------------------
(* A request dies or its call fails; a KV record lapses; time passes *)

Die(t) ==
  /\ Active(t) /\ Set(t, Idle)
  /\ UNCHANGED <<minted, ticket, live, until, usage, facet, clock, begun,
                 alone, world, used>>

Lapse ==
  /\ \E i \in live : live' = live \ {i}
  /\ UNCHANGED <<minted, ticket, until, usage, facet, req, clock, begun,
                 alone, world, used>>

Tick ==
  /\ \E i \in 1..minted : ticket[i].kind \in Marked   \* nothing else tells
  /\ clock < MaxTime /\ clock' = clock + 1
  /\ UNCHANGED <<minted, ticket, live, until, usage, facet, req, begun, alone,
                 world, used>>

Init ==
  /\ minted = 0
  /\ ticket = [i \in Id |-> [kind |-> "token", app |-> Home,
                             link |-> NoAgent, ts |-> 0, root |-> i]]
  /\ live = {} /\ until = [i \in Id |-> -1] /\ usage = [i \in Id |-> 0]
  /\ facet = [c \in Credential |-> <<>>]
  /\ req = [t \in Slot |-> Idle]
  /\ clock = 0 /\ begun = 0 /\ alone \in BOOLEAN /\ world \in Worlds
  /\ used = [i \in Id |-> 0]

Next ==
  \/ \E t \in Slot : \/ Present(t) \/ Get(t) \/ Seen(t) \/ Delete(t)
                     \/ Judge(t) \/ ReadLinks(t) \/ Append_(t) \/ MintCode(t)
                     \/ Record(t) \/ Die(t)
  \/ Make \/ Lapse \/ Tick

Spec == Init /\ [][Next]_vars

-----------------------------------------------------------------------------
(* Properties *)

\* Every variable keeps its shape; only tickets that exist have a record.
TypeOK ==
  /\ minted \in 0..MaxTickets /\ ticket \in [Id -> Ticket]
  /\ live \subseteq {i \in 1..minted : ticket[i].kind \in Taken}
  /\ until \in [Id -> {-1} \cup Nat] /\ usage \in [Id -> Nat]
  /\ facet \in [Credential -> Seq(Agent)]
  /\ req \in [Slot -> Request] /\ clock \in Time
  /\ begun \in 0..MaxBegins /\ alone \in BOOLEAN /\ world \in Worlds
  /\ used \in [Id -> Nat]

\* "Single-use": once a ticket has been used, no request that presents it
\* afterwards is let through, however the requests overlap - where a SIWE
\* message is presented while its nonce is kept, and the clock does not move
\* between the two looks of a request.  A delegation token is used at most
\* Limit times.
NoLateUse ==
  /\ \A t \in Slot : req[t].late => req[t].said # "ok"
  /\ \A i \in Id : ticket[i].kind = "token" => used[i] <= Limit

\* Over the whole chain of requests of a sign-in, what it ends in, a session
\* or an id_token, is given to the audience it was begun for.
BoundToApp ==
  \A t \in Slot :
    req[t].said = "ok" /\ Of(t).kind \in {"code", "authcode"}
      => req[t].app = ticket[Of(t).root].app

\* "Append-only": with one request at a time for a credential, its list of
\* agents only grows at its end, so who it stands for never changes.
FacetsOnlyGrow ==
  [][alone => \A c \in Credential :
       /\ Len(facet[c]) <= Len(facet'[c])
       /\ SubSeq(facet'[c], 1, Len(facet[c])) = facet[c]]_vars
=============================================================================
