---------------------------- MODULE ContentSigners ----------------------------
(***************************************************************************)
(* Who may sign content, in apps/demo-bible-mcp (TRUST_MODE=delegated).    *)
(* The custodian of an issuer's account signs a leaf that lets one cloud   *)
(* key sign in its name; the ceremony stores the leaf; every isolate       *)
(* builds its trust context from the stored leaves once, and keeps it, a   *)
(* failure included, for as long as it lives; credentials are signed from  *)
(* a fresh look instead.                                                   *)
(*                                                                         *)
(* External: what a name resolves to, which leaves an account's ERC-1271   *)
(* accepts, and the owner's edits of the table.                            *)
(***************************************************************************)
EXTENDS Calls

CONSTANTS
  Name,       \* issuer names with a key in CONTENT_SIGNER_KEYS
  Sa, Key,    \* smart accounts; cloud keys
  LiveKey,    \* name -> the key it is provisioned with
  NoSa, NoKey,
  MaxChanges  \* bound: moves of the world outside

ASSUME SignerConstants ==
  /\ Name # {} /\ Isolate # {}
  /\ NoSa \notin Sa /\ NoKey \notin Key
  /\ LiveKey \in [Name -> Key]
  /\ MaxChanges \in Nat

Leaf == [sa : Sa, key : Key]
NoLeaf == [sa |-> NoSa, key |-> NoKey]

VARIABLES
  sa,       \* name -> the account it resolves to
  ok,       \* leaves whose account accepts its signature on them
  ever,     \* leaves some account has ever accepted (history)
  row,      \* content_signers: name -> leaf
  trust,    \* isolate -> its cached trust context
  changes

vars == <<sa, ok, ever, row, trust, req, begun, changes>>
world == <<sa, ok, ever, changes>>

Trust ==
  [st : {"new", "building", "ready", "failed"},
   todo : SUBSET Name,             \* issuers still to be looked at
   at : SUBSET Name,               \* the issuer whose leaf was read
   got : Leaf \cup {NoLeaf},       \* that leaf
   leaf : [Name -> Leaf \cup {NoLeaf}],
   corpora : {"new", "ready", "failed"},
   fault : BOOLEAN,                \* a call failed while it was built (history)
   usable : SUBSET Name]           \* issuers in order since then (history)
Fresh ==
  [st |-> "new", todo |-> {}, at |-> {}, got |-> NoLeaf,
   leaf |-> [n \in Name |-> NoLeaf], corpora |-> "new",
   fault |-> FALSE, usable |-> {}]

Call ==
  [op : {"read", "sign", "store"}, name : Name, iso : Isolate,
   leaf : Leaf \cup {NoLeaf},      \* given to store; used by the others
   saw : Sa \cup {NoSa},           \* what the name resolved to
   pc : {"trust", "corpora", "check", "resolve", "judge", "row", "write",
         "done"},
   said : {"nothing", "verified", "unverified", "signed", "stored",
           "refused", "failed"},
   sas : SUBSET Sa,                \* the name's accounts since it began
   auth : SUBSET Leaf,             \* leaves accepted since it began
   stored : SUBSET (Leaf \cup {NoLeaf})]   \* rows since it began (history)

Usable(n, s, w) == w[n] = [sa |-> s[n], key |-> LiveKey[n]]

\* what the calls and builds under way live through
Witnessed ==
  /\ req' = [t \in Slot |->
       IF Active(t)
       THEN [req[t] EXCEPT !.sas = @ \cup {sa'[req[t].name]},
                           !.auth = @ \cup ok',
                           !.stored = @ \cup {row'[req[t].name]}]
       ELSE req[t]]
  /\ trust' = [i \in Isolate |->
       [trust[i] EXCEPT !.usable = {n \in @ : Usable(n, sa', row')}]]

-----------------------------------------------------------------------------
(* The world outside *)

Moves == changes < MaxChanges /\ changes' = changes + 1

Authorise ==   \* a custodian signs a leaf
  /\ Moves
  /\ \E l \in Leaf \ ok : ok' = ok \cup {l} /\ ever' = ever \cup {l}
  /\ UNCHANGED <<sa, row, begun>> /\ Witnessed

Disown ==      \* the account's custody changes: it no longer accepts it
  /\ Moves /\ \E l \in ok : ok' = ok \ {l}
  /\ UNCHANGED <<sa, ever, row, begun>> /\ Witnessed

Repoint ==
  /\ Moves
  /\ \E n \in Name, s \in Sa : s # sa[n] /\ sa' = [sa EXCEPT ![n] = s]
  /\ UNCHANGED <<ok, ever, row, begun>> /\ Witnessed

Drop ==        \* the owner deletes the stored leaf
  /\ Moves
  /\ \E n \in Name : row[n] # NoLeaf /\ row' = [row EXCEPT ![n] = NoLeaf]
  /\ UNCHANGED <<sa, ok, ever, begun>> /\ Witnessed

Recycle(i) ==  \* the platform replaces an isolate
  /\ trust[i].st # "new" /\ Moves
  /\ trust' = [trust EXCEPT ![i] = Fresh]
  /\ req' = [t \in Slot |-> IF Active(t) /\ req[t].iso = i
                            THEN Ended(req[t], "failed") ELSE req[t]]
  /\ UNCHANGED <<sa, ok, ever, row, begun>>

-----------------------------------------------------------------------------
(* Building the trust context of an isolate *)

\* what is cached when no issuer is left to look at
SettledReady(c) ==   \* mutant: served though no issuer is configured
  IF c.todo # {} \/ c.at # {} THEN c ELSE [c EXCEPT !.st = "ready"]
Settled(c) ==
  IF c.todo # {} \/ c.at # {} THEN c
  ELSE [c EXCEPT !.st = IF \E n \in Name : c.leaf[n] # NoLeaf
                        THEN "ready" ELSE "failed"]
SkipFatal(c) == [c EXCEPT !.st = "failed"]      \* mutant: a skip is fatal
Skip(c) == Settled([c EXCEPT !.at = {}, !.got = NoLeaf])

\* the stored leaf of the next issuer: a failing read fails the whole build
ReadRow(i) ==
  LET c == trust[i] IN
  /\ c.st = "building" /\ c.at = {}
  /\ \/ \E n \in c.todo :
          trust' = [trust EXCEPT ![i] =
            IF row[n] = NoLeaf THEN Skip([c EXCEPT !.todo = @ \ {n}])
            ELSE [c EXCEPT !.todo = @ \ {n}, !.at = {n}, !.got = row[n]]]
     \/ trust' = [trust EXCEPT ![i].st = "failed", ![i].fault = TRUE]
  /\ UNCHANGED <<world, row, req, begun>>

\* resolveDelegatedSigner: name, account and key must fit the leaf; that the
\* account accepts the leaf is not asked here.  A failing call skips the issuer
Delegated(n, l) == l = [sa |-> sa[n], key |-> LiveKey[n]]
AcceptIssuer(i) ==
  LET c == trust[i] IN
  /\ c.st = "building"
  /\ \E n \in c.at :
       \/ trust' = [trust EXCEPT ![i] =
            IF Delegated(n, c.got) THEN Skip([c EXCEPT !.leaf[n] = c.got])
            ELSE Skip(c)]
       \/ trust' = [trust EXCEPT ![i] = Skip([c EXCEPT !.fault = TRUE])]
  /\ UNCHANGED <<world, row, req, begun>>

-----------------------------------------------------------------------------
(* Calls *)

Begin(t) ==
  /\ ~Active(t) /\ begun < MaxBegins /\ begun' = begun + 1
  /\ \E op \in {"read", "sign", "store"}, n \in Name, i \in Isolate,
        l \in Leaf \cup {NoLeaf} :
       /\ op = "store" <=> l # NoLeaf
       /\ Set(t, [op |-> op, name |-> n, iso |-> i, leaf |-> l, saw |-> NoSa,
                  pc |-> IF op = "read" THEN "trust" ELSE "resolve",
                  said |-> "nothing",
                  sas |-> {sa[n]}, auth |-> ok, stored |-> {row[n]}])
  /\ UNCHANGED <<world, row, trust>>

\* resolveTrust: the first caller starts the build, the others await it; an
\* edition whose issuer was skipped is not served
TrustReady(t) ==
  LET r == req[t]   c == trust[r.iso] IN
  /\ r.pc = "trust"
  /\ \/ /\ c.st = "new"
        /\ trust' = [trust EXCEPT ![r.iso] =
             [c EXCEPT !.st = "building", !.todo = Name,
                       !.usable = {n \in Name : Usable(n, sa, row)}]]
        /\ UNCHANGED req
     \/ /\ c.st = "failed" /\ Fails(t) /\ UNCHANGED trust
     \/ /\ c.st = "ready" /\ UNCHANGED trust
        /\ Set(t, IF c.leaf[r.name] = NoLeaf THEN Ended(r, "refused")
                  ELSE [r EXCEPT !.pc = "corpora", !.leaf = c.leaf[r.name]])
  /\ UNCHANGED <<world, row, begun>>

\* getCorpora: every descriptor signed with the cached signer, once
CorporaReady(t) ==
  LET r == req[t]   c == trust[r.iso] IN
  /\ r.pc = "corpora"
  /\ \E built \in (IF c.corpora = "new" THEN {"ready", "failed"}
                   ELSE {c.corpora}) :
       /\ trust' = [trust EXCEPT ![r.iso].corpora = built]
       /\ IF built = "failed" THEN Fails(t)
          ELSE Set(t, [r EXCEPT !.pc = "check"])
  /\ UNCHANGED <<world, row, begun>>

\* verifyDelegatedAuthority: the issuer's account is asked now; what it does
\* not confirm, or cannot be asked, is not verified
ConfirmedByLeaf(l) == l # NoLeaf   \* mutant: the leaf's fields only
Confirmed(l) == l \in ok
Check(t) ==
  LET r == req[t] IN
  /\ r.pc = "check"
  /\ \/ Confirmed(r.leaf) /\ Set(t, Ended(r, "verified"))
     \/ Set(t, Ended(r, "unverified"))
  /\ UNCHANGED <<world, row, trust, begun>>

\* the ceremony and the credential signer begin with the name
Resolve(t) ==
  LET r == req[t] IN
  /\ r.pc = "resolve"
  /\ \/ Set(t, IF r.op = "sign" THEN [r EXCEPT !.saw = sa[r.name], !.pc = "row"]
               ELSE IF r.leaf.sa = sa[r.name] THEN [r EXCEPT !.pc = "judge"]
               ELSE Ended(r, "refused"))
     \/ Fails(t)
  /\ UNCHANGED <<world, row, trust, begun>>

\* contentSignerForIssuer: the stored leaf must be for the account and key
Signer(r, l) == l # NoLeaf /\ l.sa = r.saw /\ l.key = LiveKey[r.name]
SignCredential(t) ==
  LET r == req[t]   l == row[r.name] IN
  /\ r.pc = "row"
  /\ \/ Set(t, IF Signer(r, l) THEN [Ended(r, "signed") EXCEPT !.leaf = l]
               ELSE Ended(r, "refused"))
     \/ Fails(t)
  /\ UNCHANGED <<world, row, trust, begun>>

\* verifyContentSignerLeaf, ERC-1271
Signed(r) == r.leaf \in ok
Judge(t) ==
  LET r == req[t] IN
  /\ r.pc = "judge"
  /\ \/ Set(t, IF Signed(r) THEN [r EXCEPT !.pc = "write"]
               ELSE Ended(r, "refused"))
     \/ Set(t, Ended(r, "refused"))
  /\ UNCHANGED <<world, row, trust, begun>>

\* INSERT ... ON CONFLICT DO UPDATE: the last writer's leaf stands
StoreSigner(t) ==
  LET r == req[t] IN
  /\ r.pc = "write"
  /\ \/ /\ row' = [row EXCEPT ![r.name] = r.leaf]
        /\ req' = [u \in Slot |->
             IF u = t THEN Ended(r, "stored")
             ELSE IF Active(u) /\ req[u].name = r.name
             THEN [req[u] EXCEPT !.stored = @ \cup {r.leaf}] ELSE req[u]]
        /\ trust' = [i \in Isolate |->
             [trust[i] EXCEPT !.usable = {n \in @ : Usable(n, sa, row')}]]
     \/ Fails(t) /\ UNCHANGED <<row, trust>>
  /\ UNCHANGED <<world, begun>>

-----------------------------------------------------------------------------
Idle ==
  [op |-> "read", name |-> CHOOSE n \in Name : TRUE,
   iso |-> CHOOSE i \in Isolate : TRUE, leaf |-> NoLeaf, saw |-> NoSa,
   pc |-> "done", said |-> "nothing", sas |-> {}, auth |-> {}, stored |-> {}]

Init ==
  /\ sa \in [Name -> Sa] /\ ok = {} /\ ever = {}
  /\ row = [n \in Name |-> NoLeaf]
  /\ trust = [i \in Isolate |-> Fresh] /\ req = [t \in Slot |-> Idle]
  /\ begun = 0 /\ changes = 0

Next ==
  \/ Authorise \/ Disown \/ Repoint \/ Drop
  \/ \E i \in Isolate : Recycle(i) \/ ReadRow(i) \/ AcceptIssuer(i)
  \/ \E t \in Slot :
       \/ Begin(t) \/ TrustReady(t) \/ CorporaReady(t) \/ Check(t)
       \/ Resolve(t) \/ SignCredential(t) \/ Judge(t) \/ StoreSigner(t)

Spec == Init /\ [][Next]_vars

-----------------------------------------------------------------------------
(* Properties *)

Said(t, what) == ~Active(t) /\ req[t].said = what

\* Values have the shapes the code gives them, and a context that serves
\* holds a signer.
TypeOK ==
  /\ sa \in [Name -> Sa] /\ ok \subseteq ever
  /\ ever \subseteq Leaf
  /\ row \in [Name -> Leaf \cup {NoLeaf}]
  /\ trust \in [Isolate -> Trust] /\ req \in [Slot -> Call]
  /\ begun \in 0..MaxBegins /\ changes \in 0..MaxChanges
  /\ \A i \in Isolate : trust[i].st = "ready" =>
       \E n \in Name : trust[i].leaf[n] # NoLeaf

\* However old the cached signer, and though nobody asked the account when
\* the context was built: a descriptor is reported verified only under a
\* leaf its issuer's account accepted at a moment since the request began.
VerifiedIsAuthorised ==
  \A t \in Slot : Said(t, "verified") => req[t].leaf \in req[t].auth

\* The credential signer never asks the account.  What it signs is under a
\* leaf stored for the name while the request ran, whose account was then the
\* name's, for the key the name is provisioned with - and that the account
\* accepted once, while the leaf was being stored: nobody stores a leaf of his
\* own making, but a leaf disowned since goes on signing.
SignedUnderName ==
  \A t \in Slot : Said(t, "signed") =>
    /\ req[t].leaf \in req[t].stored /\ req[t].leaf.sa \in req[t].sas
    /\ req[t].leaf.key = LiveKey[req[t].name]
    /\ req[t].leaf \in ever

\* The ceremony has no other gate than this: a leaf is stored only if, while
\* it ran, the name pointed to the account and the account accepted the leaf.
StoredIsAuthorised ==
  \A t \in Slot : Said(t, "stored") =>
    req[t].leaf \in req[t].auth /\ req[t].leaf.sa \in req[t].sas

\* What each of the three lanes may rely on: a descriptor is vouched for, and
\* a leaf is stored, only if the account accepted the leaf while the request
\* ran; a credential is signed only under a leaf accepted some time before
\* (lib/trust.ts, trust-context.ts:376-403 and 342-372).
Authorised == VerifiedIsAuthorised /\ SignedUnderName /\ StoredIsAuthorised

\* trust-context.ts, "RESILIENT": an issuer that is not configured is skipped
\* and takes none down that is: with no call failing, a build during which
\* some issuer was in order throughout leaves a context that serves.
Resilient ==
  \A i \in Isolate :
    trust[i].st = "failed" => trust[i].fault \/ trust[i].usable = {}
=============================================================================
