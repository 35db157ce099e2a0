---------------------------- MODULE CorpusTrust_proofs ----------------------------
(***************************************************************************)
(* What the corpus may be trusted for, proved for any names, verses,       *)
(* isolates and calls: first under which leaves content is vouched for,    *)
(* stored and signed (ContentSigners), then that what is cited is the text *)
(* that was verified (Citations).                                          *)
(*                                                                         *)
(* Both arguments are the same.  A call reads the world in several steps,  *)
(* and keeps the history of what the world was since it began.  What one   *)
(* step has found is in that history ever after, because histories only    *)
(* grow; so the invariants say, step by step, what a call has found, and   *)
(* that its history includes the world of now.                             *)
(***************************************************************************)
EXTENDS ContentSigners, Citations, TLAPS

(***************************************************************************)
(*                             ContentSigners                              *)
(***************************************************************************)

SignerShapes ==
  /\ sa \in [Name -> Sa] /\ ok \subseteq Leaf
  /\ row \in [Name -> Leaf \cup {NoLeaf}]
  /\ trust \in [Isolate -> Trust] /\ req \in [Slot -> Call]
  /\ begun \in 0..MaxBegins /\ changes \in 0..MaxChanges

\* What a call has found out when it comes to pc, and what it said at its end.
CallKnown(r) ==
  /\ r.pc # "done" => r.said = "nothing"
  /\ r.pc \in {"judge", "write"} => r.leaf.sa \in r.sas
  /\ r.pc = "write" => r.leaf \in r.auth
  /\ r.pc = "row" => r.saw \in r.sas
  /\ r.said \in {"verified", "stored"} => r.leaf \in r.auth
  /\ r.said \in {"signed", "stored"} => r.leaf.sa \in r.sas
  /\ r.said = "signed" => r.leaf \in r.stored /\ r.leaf.key = LiveKey[r.name]

\* The history of a call under way includes the world of now.
CallNow(r) ==
  r.pc # "done" =>
    sa[r.name] \in r.sas /\ ok \subseteq r.auth /\ row[r.name] \in r.stored

\* A build: an issuer in order throughout is still to be looked at, or is
\* looked at with a leaf that will do, or is taken in - unless a call failed.
BuildKnown(c) ==
  /\ \A n \in c.usable : Usable(n, sa, row)
  /\ \A n, m \in c.at : n = m
  /\ c.st = "building" /\ ~c.fault =>
       \A n \in c.usable :
         \/ n \in c.todo \/ c.leaf[n] # NoLeaf
         \/ n \in c.at /\ c.got = [sa |-> sa[n], key |-> LiveKey[n]]
  /\ c.st = "failed" => c.fault \/ c.usable = {}
  /\ c.st = "ready" => \E n \in Name : c.leaf[n] # NoLeaf

\* The inductive invariant of ContentSigners.
SignersInv ==
  /\ SignerShapes
  /\ \A t \in Slot : CallKnown(req[t]) /\ CallNow(req[t])
  /\ \A i \in Isolate : BuildKnown(trust[i])

-----------------------------------------------------------------------------
LEMMA SignerFacts ==
  /\ MaxBegins \in Nat /\ MaxChanges \in Nat
  /\ \A n \in Name : LiveKey[n] \in Key
  /\ NoLeaf \notin Leaf
  /\ \A l \in Leaf \cup {NoLeaf} : l.sa \in Sa => l \in Leaf
BY SignerConstants, CallsConstants DEF Leaf, NoLeaf

\* What every call, and every build, has.
LEMMA Of ==
  ASSUME SignersInv
  PROVE  /\ \A t \in Slot : req[t] \in Call /\ CallKnown(req[t]) /\ CallNow(req[t])
         /\ \A t \in Slot : req[t].name \in Name /\ req[t].iso \in Isolate
                               /\ req[t].leaf \in Leaf \cup {NoLeaf}
         /\ \A i \in Isolate : trust[i] \in Trust /\ BuildKnown(trust[i])
         /\ \A n \in Name : sa[n] \in Sa /\ row[n] \in Leaf \cup {NoLeaf}
         /\ sa \in [Name -> Sa] /\ ok \subseteq Leaf
         /\ row \in [Name -> Leaf \cup {NoLeaf}]
         /\ trust \in [Isolate -> Trust] /\ req \in [Slot -> Call]
         /\ begun \in 0..MaxBegins /\ changes \in 0..MaxChanges
BY DEF SignersInv, SignerShapes, Call

\* The pieces of a step: all calls, all builds.
LEMMA Pieces ==
  ASSUME SignersInv,
         sa' \in [Name -> Sa], ok' \subseteq Leaf,
         row' \in [Name -> Leaf \cup {NoLeaf}],
         begun' \in 0..MaxBegins, changes' \in 0..MaxChanges,
         trust' \in [Isolate -> Trust], req' \in [Slot -> Call],
         \A t \in Slot : (CallKnown(req[t]) /\ CallNow(req[t]))',
         \A i \in Isolate : BuildKnown(trust[i])'
  PROVE  SignersInv'
BY DEF SignersInv, SignerShapes

\* A step of one call, and perhaps of the build it waits for.
LEMMA CallAndBuild ==
  ASSUME SignersInv, NEW t \in Slot, NEW s \in Call, Set(t, s),
         UNCHANGED <<world, row>>, begun' \in 0..MaxBegins,
         trust' \in [Isolate -> Trust],
         \A i \in Isolate : BuildKnown(trust'[i]),
         CallKnown(s), CallNow(s)
  PROVE  SignersInv'
<1>1. /\ req' \in [Slot -> Call]
      /\ \A u \in Slot : req'[u] = IF u = t THEN s ELSE req[u]
  BY Of DEF Set
<1>2. /\ UNCHANGED <<sa, ok, changes, row>> BY DEF world
<1>3. ASSUME NEW u \in Slot PROVE CallKnown(req'[u]) /\ CallNow(req'[u])
  BY <1>1, Of
<1>4. ASSUME NEW u \in Slot PROVE (CallKnown(req[u]) /\ CallNow(req[u]))'
  BY <1>2, <1>3 DEF CallKnown, CallNow
<1>5. ASSUME NEW i \in Isolate PROVE BuildKnown(trust[i])'
  BY <1>2 DEF BuildKnown, Usable
<1>. QED BY <1>1, <1>2, <1>4, <1>5, Of, Pieces

\* A step of one call that leaves the builds alone.
LEMMA OneCall ==
  ASSUME SignersInv, NEW t \in Slot, NEW s \in Call, Set(t, s),
         UNCHANGED <<world, row, trust>>, begun' \in 0..MaxBegins,
         CallKnown(s), CallNow(s)
  PROVE  SignersInv'
<1>1. /\ trust' \in [Isolate -> Trust]
      /\ \A i \in Isolate : BuildKnown(trust'[i])
  BY Of
<1>. QED BY <1>1, CallAndBuild

\* A step of one build.
LEMMA OneBuild ==
  ASSUME SignersInv, NEW i \in Isolate, NEW c \in Trust,
         trust' = [trust EXCEPT ![i] = c], UNCHANGED <<world, row, req, begun>>,
         BuildKnown(c)
  PROVE  SignersInv'
<1>1. /\ trust' \in [Isolate -> Trust]
      /\ \A j \in Isolate : trust'[j] = IF j = i THEN c ELSE trust[j]
  BY Of
<1>2. /\ UNCHANGED <<sa, ok, changes, row, req, begun>> BY DEF world
<1>3. ASSUME NEW t \in Slot PROVE (CallKnown(req[t]) /\ CallNow(req[t]))'
  BY <1>2, Of DEF CallKnown, CallNow
<1>4. ASSUME NEW j \in Isolate PROVE BuildKnown(trust'[j]) BY <1>1, Of
<1>5. ASSUME NEW j \in Isolate PROVE BuildKnown(trust[j])'
  BY <1>2, <1>4 DEF BuildKnown, Usable
<1>. QED BY <1>1, <1>2, <1>3, <1>5, Of, Pieces

-----------------------------------------------------------------------------
(* The world outside *)

\* What becomes of a call that lives through a change.
Living(r, x, ls, y) ==
  [r EXCEPT !.sas = @ \cup {x}, !.auth = @ \cup ls, !.stored = @ \cup {y}]

LEMMA CallWitnesses ==
  ASSUME NEW r \in Call, NEW x \in Sa, NEW ls \in SUBSET Leaf,
         NEW y \in Leaf \cup {NoLeaf}, CallKnown(r)
  PROVE  LET s == Living(r, x, ls, y) IN
         /\ s \in Call /\ CallKnown(s)
         /\ s.pc = r.pc /\ s.name = r.name
         /\ x \in s.sas /\ ls \subseteq s.auth /\ y \in s.stored
<1>1. PICK p : p = Living(r, x, ls, y) OBVIOUS
<1>2. p \in Call BY <1>1 DEF Call, Living
<1>3. /\ p.sas = r.sas \cup {x} /\ p.auth = r.auth \cup ls
      /\ p.stored = r.stored \cup {y}
      /\ p.pc = r.pc /\ p.name = r.name /\ p.leaf = r.leaf /\ p.saw = r.saw
      /\ p.said = r.said
  BY <1>1 DEF Call, Living
<1>4. CallKnown(p) BY <1>3 DEF CallKnown
<1>. QED BY <1>1, <1>2, <1>3, <1>4

\* What becomes of a build: fewer issuers were in order throughout.
LEMMA BuildWitnesses ==
  ASSUME SignersInv, NEW i \in Isolate,
         sa' \in [Name -> Sa], row' \in [Name -> Leaf \cup {NoLeaf}],
         sa' = sa \/ row' = row,
         trust'[i] = [trust[i] EXCEPT !.usable = {n \in @ : Usable(n, sa', row')}]
  PROVE  trust'[i] \in Trust /\ BuildKnown(trust[i])'
<1>. DEFINE c == trust[i]
<1>1. c \in Trust /\ BuildKnown(c) BY Of
<1>2. PICK d : d = trust'[i] OBVIOUS
<1>3. d \in Trust BY <1>1, <1>2 DEF Trust
<1>4. /\ d.usable = {n \in c.usable : Usable(n, sa', row')}
      /\ d.st = c.st /\ d.todo = c.todo /\ d.at = c.at /\ d.got = c.got
      /\ d.leaf = c.leaf /\ d.fault = c.fault
  BY <1>1, <1>2 DEF Trust
<1>5. c.usable \subseteq Name BY <1>1 DEF Trust
<1>6. \A n \in d.usable : sa'[n] = sa[n]
  <2>. SUFFICES ASSUME NEW n \in d.usable PROVE sa'[n] = sa[n] OBVIOUS
  <2>1. n \in Name /\ Usable(n, sa, row) /\ Usable(n, sa', row')
    BY <1>1, <1>4, <1>5 DEF BuildKnown
  <2>2. CASE row' = row
    <3>1. row[n].sa = sa[n] /\ row[n].sa = sa'[n] BY <2>1, <2>2 DEF Usable
    <3>. QED BY <3>1
  <2>. QED BY <2>2
<1>7. BuildKnown(d)'
  BY <1>1, <1>4, <1>6 DEF BuildKnown
<1>. QED BY <1>2, <1>3, <1>7 DEF BuildKnown

LEMMA WitnessedStep ==
  ASSUME SignersInv, Witnessed, Moves, begun' = begun,
         sa' \in [Name -> Sa], ok' \subseteq Leaf,
         row' \in [Name -> Leaf \cup {NoLeaf}],
         sa' = sa \/ row' = row
  PROVE  SignersInv'
<1>1. ASSUME NEW t \in Slot
      PROVE  req'[t] \in Call /\ (CallKnown(req[t]) /\ CallNow(req[t]))'
  <2>. DEFINE r == req[t]
  <2>1. r \in Call /\ CallKnown(r) /\ r.name \in Name BY Of
  <2>2. CASE ~Active(t)
    <3>1. req'[t] = r BY <2>2 DEF Witnessed
    <3>. QED BY <2>1, <2>2, <3>1 DEF CallKnown, CallNow, Active
  <2>3. CASE Active(t)
    <3>1. req'[t] = Living(r, sa'[r.name], ok', row'[r.name])
      BY <2>3 DEF Witnessed, Living
    <3>2. PICK x \in Sa : x = sa'[r.name] BY <2>1
    <3>3. PICK ls \in SUBSET Leaf : ls = ok' OBVIOUS
    <3>4. PICK y \in Leaf \cup {NoLeaf} : y = row'[r.name] BY <2>1
    <3>5. PICK s : s = Living(r, x, ls, y) OBVIOUS
    <3>6. /\ s \in Call /\ CallKnown(s) /\ s.name = r.name
          /\ x \in s.sas /\ ls \subseteq s.auth /\ y \in s.stored
      BY <2>1, <3>5, CallWitnesses
    <3>7. req'[t] = s BY <3>1, <3>2, <3>3, <3>4, <3>5
    <3>8. /\ s \in Call /\ CallKnown(s) /\ s.name = r.name
          /\ sa'[r.name] \in s.sas /\ ok' \subseteq s.auth
          /\ row'[r.name] \in s.stored
      BY <3>2, <3>3, <3>4, <3>6
    <3>9. CallKnown(s)' BY <3>8 DEF CallKnown
    <3>10. CallNow(s)' BY <3>8 DEF CallNow
    <3>. QED BY <3>7, <3>8, <3>9, <3>10 DEF CallKnown, CallNow
  <2>. QED BY <2>2, <2>3
<1>2. req' \in [Slot -> Call] BY <1>1 DEF Witnessed
<1>3. ASSUME NEW i \in Isolate
      PROVE  trust'[i] \in Trust /\ BuildKnown(trust[i])'
  BY BuildWitnesses DEF Witnessed
<1>4. trust' \in [Isolate -> Trust] BY <1>3 DEF Witnessed
<1>5. begun' \in 0..MaxBegins /\ changes' \in 0..MaxChanges
  BY Of, SignerFacts DEF Moves
<1>. QED BY <1>1, <1>2, <1>3, <1>4, <1>5, Pieces

LEMMA WorldSteps ==
  SignersInv /\ (Authorise \/ Disown \/ Repoint \/ Drop) => SignersInv'
<1>. SUFFICES ASSUME SignersInv, Authorise \/ Disown \/ Repoint \/ Drop
              PROVE  SignersInv'
  OBVIOUS
<1>1. CASE Authorise
  <2>1. ok' \subseteq Leaf BY <1>1, Of DEF Authorise
  <2>. QED BY <1>1, <2>1, Of, WitnessedStep DEF Authorise
<1>2. CASE Disown
  <2>1. ok' \subseteq Leaf BY <1>2, Of DEF Disown
  <2>. QED BY <1>2, <2>1, Of, WitnessedStep DEF Disown
<1>3. CASE Repoint
  <2>1. sa' \in [Name -> Sa] BY <1>3, Of DEF Repoint
  <2>. QED BY <1>3, <2>1, Of, WitnessedStep DEF Repoint
<1>4. CASE Drop
  <2>1. row' \in [Name -> Leaf \cup {NoLeaf}] BY <1>4, Of DEF Drop
  <2>. QED BY <1>4, <2>1, Of, WitnessedStep DEF Drop
<1>. QED BY <1>1, <1>2, <1>3, <1>4

-----------------------------------------------------------------------------
(* The end of a call *)

Word == {"verified", "unverified", "signed", "stored", "refused", "failed"}

LEMMA WordType ==
  ASSUME NEW r \in Call, NEW w \in Word PROVE [r EXCEPT !.said = w] \in Call
BY DEF Call, Word

LEMMA CallEnds ==
  ASSUME NEW r \in Call, NEW w \in Word
  PROVE  LET s == Ended(r, w) IN
         /\ s \in Call /\ s.pc = "done" /\ s.said = w /\ s.name = r.name
         /\ s.leaf = r.leaf /\ s.sas = r.sas /\ s.auth = r.auth
         /\ s.stored = r.stored /\ s.saw = r.saw
<1>1. PICK p \in Call : p = [r EXCEPT !.pc = "done"] BY DEF Call
<1>2. PICK s \in Call : s = [p EXCEPT !.said = w] BY <1>1, WordType
<1>3. /\ s.pc = "done" /\ s.said = w /\ s.name = r.name
      /\ s.leaf = r.leaf /\ s.sas = r.sas /\ s.auth = r.auth
      /\ s.stored = r.stored /\ s.saw = r.saw
  BY <1>1, <1>2 DEF Call
<1>4. Ended(r, w) = s BY <1>1, <1>2 DEF Ended
<1>. QED BY <1>2, <1>3, <1>4

LEMMA EndedKnown ==
  ASSUME NEW r \in Call, NEW w \in Word,
         w \in {"verified", "stored"} => r.leaf \in r.auth,
         w = "stored" => r.leaf.sa \in r.sas,
         w # "signed"
  PROVE  Ended(r, w) \in Call /\ CallKnown(Ended(r, w)) /\ CallNow(Ended(r, w))
<1>1. PICK s : s = Ended(r, w) OBVIOUS
<1>2. /\ s \in Call /\ s.pc = "done" /\ s.said = w
      /\ s.leaf = r.leaf /\ s.sas = r.sas /\ s.auth = r.auth
  BY <1>1, CallEnds
<1>3. CallKnown(s) /\ CallNow(s) BY <1>2 DEF CallKnown, CallNow
<1>. QED BY <1>1, <1>2, <1>3

LEMMA GivesUp ==
  ASSUME SignersInv, NEW t \in Slot, NEW w \in {"unverified", "refused", "failed"},
         Set(t, Ended(req[t], w)), UNCHANGED <<world, row, trust, begun>>
  PROVE  SignersInv'
<1>1. w \in Word /\ w \notin {"verified", "signed", "stored"} BY DEF Word
<1>2. PICK s : s = Ended(req[t], w) OBVIOUS
<1>3. s \in Call /\ CallKnown(s) /\ CallNow(s) BY <1>1, <1>2, EndedKnown, Of
<1>. QED BY <1>2, <1>3, OneCall, Of

-----------------------------------------------------------------------------
(* Isolates: replaced, and building their trust context *)

LEMMA FreshIs ==
  Fresh \in Trust /\ Fresh.st = "new" /\ Fresh.usable = {} /\ Fresh.at = {}
BY DEF Fresh, Trust

LEMMA FreshKnown == BuildKnown(Fresh)
BY FreshIs DEF BuildKnown

LEMMA RecycleStep ==
  ASSUME NEW i \in Isolate PROVE SignersInv /\ Recycle(i) => SignersInv'
<1>. SUFFICES ASSUME SignersInv, Recycle(i) PROVE SignersInv' OBVIOUS
<1>1. /\ trust' = [trust EXCEPT ![i] = Fresh]
      /\ UNCHANGED <<sa, ok, row, begun>> /\ Moves
  BY DEF Recycle
<1>2. ASSUME NEW t \in Slot
      PROVE  req'[t] \in Call /\ CallKnown(req'[t]) /\ CallNow(req'[t])
  <2>1. CASE req'[t] = req[t] BY <2>1, Of
  <2>2. CASE req'[t] = Ended(req[t], "failed")
    <3>1. "failed" \in Word BY DEF Word
    <3>. QED BY <2>2, <3>1, EndedKnown, Of
  <2>. QED BY <2>1, <2>2 DEF Recycle
<1>3. req' \in [Slot -> Call] BY <1>2 DEF Recycle
<1>4. ASSUME NEW t \in Slot PROVE (CallKnown(req[t]) /\ CallNow(req[t]))'
  BY <1>1, <1>2 DEF CallKnown, CallNow
<1>5. ASSUME NEW j \in Isolate PROVE BuildKnown(trust'[j])
  BY <1>1, FreshKnown, Of
<1>6. ASSUME NEW j \in Isolate PROVE BuildKnown(trust[j])'
  BY <1>1, <1>5 DEF BuildKnown, Usable
<1>7. trust' \in [Isolate -> Trust] BY <1>1, FreshIs, Of
<1>8. begun' \in 0..MaxBegins /\ changes' \in 0..MaxChanges
  BY <1>1, Of, SignerFacts DEF Moves
<1>. QED BY <1>1, <1>3, <1>4, <1>6, <1>7, <1>8, Of, Pieces

\* A build goes on, and settles when no issuer is left: then, unless a call
\* failed, no issuer was in order throughout if none was taken in.
LEMMA SkipIs ==
  ASSUME NEW c \in Trust, c.st = "building",
         \A n \in c.usable : Usable(n, sa, row),
         ~c.fault => \A n \in c.usable : n \in c.todo \/ c.leaf[n] # NoLeaf
  PROVE  Skip(c) \in Trust /\ BuildKnown(Skip(c))
<1>1. PICK p \in Trust : p = [c EXCEPT !.at = {}] BY DEF Trust
<1>2. PICK d \in Trust : d = [p EXCEPT !.got = NoLeaf] BY <1>1 DEF Trust
<1>3. /\ d.at = {} /\ d.st = "building" /\ d.usable = c.usable
      /\ d.todo = c.todo /\ d.leaf = c.leaf /\ d.fault = c.fault
  BY <1>1, <1>2 DEF Trust
<1>4. Skip(c) = Settled(d) BY <1>1, <1>2 DEF Skip
<1>5. CASE d.todo # {}
  <2>1. Settled(d) = d BY <1>5 DEF Settled
  <2>. QED BY <1>3, <1>4, <2>1 DEF BuildKnown
<1>6. CASE d.todo = {} /\ \E n \in Name : d.leaf[n] # NoLeaf
  <2>1. Settled(d) = [d EXCEPT !.st = "ready"] BY <1>3, <1>6 DEF Settled
  <2>2. PICK s \in Trust : s = [d EXCEPT !.st = "ready"] BY DEF Trust
  <2>3. /\ s.st = "ready" /\ s.usable = c.usable /\ s.at = {}
        /\ s.leaf = d.leaf
    BY <1>3, <2>2 DEF Trust
  <2>. QED BY <1>4, <1>6, <2>1, <2>2, <2>3 DEF BuildKnown
<1>7. CASE d.todo = {} /\ ~\E n \in Name : d.leaf[n] # NoLeaf
  <2>1. Settled(d) = [d EXCEPT !.st = "failed"] BY <1>3, <1>7 DEF Settled
  <2>2. PICK s \in Trust : s = [d EXCEPT !.st = "failed"] BY DEF Trust
  <2>3. /\ s.st = "failed" /\ s.usable = c.usable /\ s.at = {}
        /\ s.fault = c.fault
    BY <1>3, <2>2 DEF Trust
  <2>4. c.usable \subseteq Name BY DEF Trust
  <2>5. c.fault \/ c.usable = {} BY <1>3, <1>7, <2>4
  <2>. QED BY <1>4, <2>1, <2>2, <2>3, <2>5 DEF BuildKnown
<1>. QED BY <1>5, <1>6, <1>7

LEMMA ReadRowStep ==
  ASSUME NEW i \in Isolate PROVE SignersInv /\ ReadRow(i) => SignersInv'
<1>. SUFFICES ASSUME SignersInv, ReadRow(i) PROVE SignersInv' OBVIOUS
<1>. DEFINE c == trust[i]
<1>1. /\ c \in Trust /\ BuildKnown(c) /\ c.st = "building" /\ c.at = {}
      /\ UNCHANGED <<world, row, req, begun>>
  BY Of DEF ReadRow
<1>2. CASE trust' = [trust EXCEPT ![i].st = "failed", ![i].fault = TRUE]
  <2>1. PICK p \in Trust : p = [c EXCEPT !.st = "failed"] BY <1>1 DEF Trust
  <2>2. PICK d \in Trust : d = [p EXCEPT !.fault = TRUE] BY <2>1 DEF Trust
  <2>3. d.st = "failed" /\ d.fault = TRUE /\ d.usable = c.usable /\ d.at = c.at
    BY <1>1, <2>1, <2>2 DEF Trust
  <2>4. BuildKnown(d) BY <1>1, <2>3 DEF BuildKnown
  <2>5. trust' = [trust EXCEPT ![i] = d] BY <1>2, <2>1, <2>2, Of
  <2>. QED BY <1>1, <2>2, <2>4, <2>5, OneBuild
<1>3. ASSUME NEW n \in c.todo, row[n] = NoLeaf,
             trust' = [trust EXCEPT ![i] = Skip([c EXCEPT !.todo = @ \ {n}])]
      PROVE  SignersInv'
  <2>1. PICK d \in Trust : d = [c EXCEPT !.todo = @ \ {n}] BY <1>1 DEF Trust
  <2>2. /\ d.st = "building" /\ d.usable = c.usable /\ d.todo = c.todo \ {n}
        /\ d.leaf = c.leaf /\ d.fault = c.fault
    BY <1>1, <2>1 DEF Trust
  <2>3. n \notin c.usable
    <3>1. n \in Name BY <1>1 DEF Trust
    <3>2. ~Usable(n, sa, row)
      <4>1. [sa |-> sa[n], key |-> LiveKey[n]] \in Leaf
        BY <3>1, Of, SignerFacts DEF Leaf
      <4>. QED BY <1>3, <4>1, SignerFacts DEF Usable
    <3>. QED BY <1>1, <3>2 DEF BuildKnown
  <2>4. \A m \in d.usable : Usable(m, sa, row) BY <1>1, <2>2 DEF BuildKnown
  <2>5. ~d.fault => \A m \in d.usable : m \in d.todo \/ d.leaf[m] # NoLeaf
    BY <1>1, <2>2, <2>3 DEF BuildKnown
  <2>6. Skip(d) \in Trust /\ BuildKnown(Skip(d)) BY <2>2, <2>4, <2>5, SkipIs
  <2>. QED BY <1>1, <1>3, <2>1, <2>6, OneBuild
<1>4. ASSUME NEW n \in c.todo,
             trust' = [trust EXCEPT ![i] =
               [c EXCEPT !.todo = @ \ {n}, !.at = {n}, !.got = row[n]]]
      PROVE  SignersInv'
  <2>1. n \in Name /\ row[n] \in Leaf \cup {NoLeaf} BY <1>1, Of DEF Trust
  <2>2. PICK p \in Trust : p = [c EXCEPT !.todo = @ \ {n}] BY <1>1 DEF Trust
  <2>3. PICK q \in Trust : q = [p EXCEPT !.at = {n}] BY <2>1, <2>2 DEF Trust
  <2>4. PICK d \in Trust : d = [q EXCEPT !.got = row[n]] BY <2>1, <2>3 DEF Trust
  <2>5. /\ d.st = "building" /\ d.usable = c.usable /\ d.todo = c.todo \ {n}
        /\ d.at = {n} /\ d.got = row[n] /\ d.leaf = c.leaf /\ d.fault = c.fault
    BY <1>1, <2>2, <2>3, <2>4 DEF Trust
  <2>6. BuildKnown(d) BY <1>1, <2>5 DEF BuildKnown, Usable
  <2>7. trust' = [trust EXCEPT ![i] = d] BY <1>4, <2>2, <2>3, <2>4
  <2>. QED BY <1>1, <2>4, <2>6, <2>7, OneBuild
<1>. QED BY <1>2, <1>3, <1>4 DEF ReadRow

LEMMA AcceptIssuerStep ==
  ASSUME NEW i \in Isolate PROVE SignersInv /\ AcceptIssuer(i) => SignersInv'
<1>. SUFFICES ASSUME SignersInv, AcceptIssuer(i) PROVE SignersInv' OBVIOUS
<1>. DEFINE c == trust[i]
<1>1. /\ c \in Trust /\ BuildKnown(c) /\ c.st = "building"
      /\ UNCHANGED <<world, row, req, begun>>
  BY Of DEF AcceptIssuer
<1>2. PICK n \in c.at :
        \/ trust' = [trust EXCEPT ![i] =
             IF Delegated(n, c.got) THEN Skip([c EXCEPT !.leaf[n] = c.got])
             ELSE Skip(c)]
        \/ trust' = [trust EXCEPT ![i] = Skip([c EXCEPT !.fault = TRUE])]
  BY DEF AcceptIssuer
<1>3. /\ n \in Name /\ c.at \subseteq {n} /\ c.got \in Leaf \cup {NoLeaf}
      /\ c.leaf \in [Name -> Leaf \cup {NoLeaf}] /\ c.usable \subseteq Name
  BY <1>1, <1>2 DEF Trust, BuildKnown
<1>4. CASE trust' = [trust EXCEPT ![i] = Skip([c EXCEPT !.fault = TRUE])]
  <2>1. PICK d \in Trust : d = [c EXCEPT !.fault = TRUE] BY <1>1 DEF Trust
  <2>2. d.st = "building" /\ d.usable = c.usable /\ d.fault = TRUE
    BY <1>1, <2>1 DEF Trust
  <2>3. \A m \in d.usable : Usable(m, sa, row) BY <1>1, <2>2 DEF BuildKnown
  <2>4. Skip(d) \in Trust /\ BuildKnown(Skip(d)) BY <2>2, <2>3, SkipIs
  <2>. QED BY <1>1, <1>4, <2>1, <2>4, OneBuild
<1>5. CASE Delegated(n, c.got)
           /\ trust' = [trust EXCEPT ![i] = Skip([c EXCEPT !.leaf[n] = c.got])]
  <2>1. c.got # NoLeaf
    <3>1. c.got \in Leaf BY <1>3, <1>5, Of, SignerFacts DEF Delegated, Leaf
    <3>. QED BY <3>1, SignerFacts
  <2>2. PICK f \in [Name -> Leaf \cup {NoLeaf}] : f = [c.leaf EXCEPT ![n] = c.got]
    BY <1>3
  <2>3. PICK d \in Trust : d = [c EXCEPT !.leaf = f] BY <1>1, <2>2 DEF Trust
  <2>4. d = [c EXCEPT !.leaf[n] = c.got] BY <1>1, <2>2, <2>3 DEF Trust
  <2>5. /\ d.st = "building" /\ d.usable = c.usable /\ d.todo = c.todo
        /\ d.leaf = f /\ d.fault = c.fault
    BY <1>1, <2>3 DEF Trust
  <2>6. \A m \in d.usable : Usable(m, sa, row) BY <1>1, <2>5 DEF BuildKnown
  <2>7. ASSUME ~d.fault, NEW m \in d.usable
        PROVE  m \in d.todo \/ d.leaf[m] # NoLeaf
    <3>1. m \in Name /\ (m = n => f[m] = c.got) /\ (m # n => f[m] = c.leaf[m])
      BY <1>3, <2>2, <2>5
    <3>2. m \in c.todo \/ c.leaf[m] # NoLeaf \/ m = n
      BY <1>1, <1>3, <2>5, <2>7 DEF BuildKnown
    <3>. QED BY <2>1, <2>5, <3>1, <3>2
  <2>8. Skip(d) \in Trust /\ BuildKnown(Skip(d)) BY <2>5, <2>6, <2>7, SkipIs
  <2>. QED BY <1>1, <1>5, <2>4, <2>8, OneBuild
<1>6. CASE ~Delegated(n, c.got) /\ trust' = [trust EXCEPT ![i] = Skip(c)]
  <2>1. \A m \in c.usable : Usable(m, sa, row) BY <1>1 DEF BuildKnown
  <2>2. ~c.fault => \A m \in c.usable : m \in c.todo \/ c.leaf[m] # NoLeaf
    BY <1>1, <1>3, <1>6 DEF BuildKnown, Delegated
  <2>3. Skip(c) \in Trust /\ BuildKnown(Skip(c)) BY <1>1, <2>1, <2>2, SkipIs
  <2>. QED BY <1>1, <1>6, <2>3, OneBuild
<1>. QED BY <1>2, <1>4, <1>5, <1>6

-----------------------------------------------------------------------------
(* Calls *)

LEMMA CallBegins ==
  ASSUME NEW t \in Slot PROVE SignersInv /\ Begin(t) => SignersInv'
<1>. SUFFICES ASSUME SignersInv, Begin(t) PROVE SignersInv' OBVIOUS
<1>1. PICK op \in {"read", "sign", "store"}, n \in Name, i \in Isolate,
          l \in Leaf \cup {NoLeaf} :
        /\ op = "store" <=> l # NoLeaf
        /\ Set(t, [op |-> op, name |-> n, iso |-> i, leaf |-> l, saw |-> NoSa,
                   pc |-> IF op = "read" THEN "trust" ELSE "resolve",
                   said |-> "nothing",
                   sas |-> {sa[n]}, auth |-> ok, stored |-> {row[n]}])
  BY DEF Begin
<1>. DEFINE s == [op |-> op, name |-> n, iso |-> i, leaf |-> l, saw |-> NoSa,
                  pc |-> IF op = "read" THEN "trust" ELSE "resolve",
                  said |-> "nothing",
                  sas |-> {sa[n]}, auth |-> ok, stored |-> {row[n]}]
<1>2. s \in Call
  <2>1. {sa[n]} \in SUBSET Sa /\ ok \in SUBSET Leaf
        /\ {row[n]} \in SUBSET (Leaf \cup {NoLeaf})
    BY Of
  <2>. QED BY <2>1 DEF Call
<1>3. CallKnown(s) /\ CallNow(s) BY DEF CallKnown, CallNow
<1>4. Set(t, s) BY <1>1
<1>. HIDE DEF s
<1>5. begun' \in 0..MaxBegins BY Of, SignerFacts DEF Begin
<1>. QED BY <1>2, <1>3, <1>4, <1>5, OneCall DEF Begin

LEMMA TrustReadyStep ==
  ASSUME NEW t \in Slot PROVE SignersInv /\ TrustReady(t) => SignersInv'
<1>. SUFFICES ASSUME SignersInv, TrustReady(t) PROVE SignersInv' OBVIOUS
<1>. DEFINE r == req[t]   i == r.iso   c == trust[i]
<1>1. /\ r \in Call /\ CallKnown(r) /\ CallNow(r) /\ r.name \in Name
      /\ i \in Isolate /\ c \in Trust /\ BuildKnown(c)
      /\ r.pc = "trust" /\ UNCHANGED <<world, row, begun>>
  BY Of DEF TrustReady
<1>2. CASE c.st = "new" /\ UNCHANGED req
           /\ trust' = [trust EXCEPT ![i] =
                [c EXCEPT !.st = "building", !.todo = Name,
                          !.usable = {n \in Name : Usable(n, sa, row)}]]
  <2>1. PICK p \in Trust : p = [c EXCEPT !.st = "building"] BY <1>1 DEF Trust
  <2>2. PICK q \in Trust : q = [p EXCEPT !.todo = Name] BY <2>1 DEF Trust
  <2>3. PICK us \in SUBSET Name : us = {n \in Name : Usable(n, sa, row)} OBVIOUS
  <2>4. PICK d \in Trust : d = [q EXCEPT !.usable = us] BY <2>2, <2>3 DEF Trust
  <2>5. d.st = "building" /\ d.todo = Name /\ d.usable = us /\ d.at = c.at
    BY <1>1, <2>1, <2>2, <2>4 DEF Trust
  <2>6. BuildKnown(d) BY <1>1, <2>3, <2>5 DEF BuildKnown
  <2>7. trust' = [trust EXCEPT ![i] = d] BY <1>2, <2>1, <2>2, <2>3, <2>4
  <2>. QED BY <1>1, <1>2, <2>4, <2>6, <2>7, OneBuild
<1>3. CASE UNCHANGED trust /\ Set(t, Ended(r, "failed"))
  BY <1>1, <1>3, GivesUp
<1>4. CASE UNCHANGED trust /\ Set(t, Ended(r, "refused"))
  BY <1>1, <1>4, GivesUp
<1>5. CASE UNCHANGED trust /\ Set(t, [r EXCEPT !.pc = "corpora", !.leaf = c.leaf[r.name]])
  <2>1. PICK l \in Leaf \cup {NoLeaf} : l = c.leaf[r.name] BY <1>1 DEF Trust
  <2>2. PICK p \in Call : p = [r EXCEPT !.pc = "corpora"] BY <1>1 DEF Call
  <2>3. PICK s \in Call : s = [p EXCEPT !.leaf = l] BY <2>1, <2>2 DEF Call
  <2>4. /\ s.pc = "corpora" /\ s.said = r.said /\ s.name = r.name
        /\ s.sas = r.sas /\ s.auth = r.auth /\ s.stored = r.stored
    BY <1>1, <2>2, <2>3 DEF Call
  <2>5. CallKnown(s) /\ CallNow(s) BY <1>1, <2>4 DEF CallKnown, CallNow
  <2>6. Set(t, s) BY <1>5, <2>1, <2>2, <2>3
  <2>. QED BY <1>1, <1>5, <2>3, <2>5, <2>6, OneCall, Of
<1>. QED BY <1>2, <1>3, <1>4, <1>5 DEF TrustReady, Fails

LEMMA CorporaReadyStep ==
  ASSUME NEW t \in Slot PROVE SignersInv /\ CorporaReady(t) => SignersInv'
<1>. SUFFICES ASSUME SignersInv, CorporaReady(t) PROVE SignersInv' OBVIOUS
<1>. DEFINE r == req[t]   i == r.iso   c == trust[i]
<1>1. /\ r \in Call /\ CallKnown(r) /\ CallNow(r)
      /\ i \in Isolate /\ c \in Trust /\ BuildKnown(c)
      /\ r.pc = "corpora" /\ UNCHANGED <<world, row, begun>>
  BY Of DEF CorporaReady
<1>2. PICK b \in {"new", "ready", "failed"} :
        /\ trust' = [trust EXCEPT ![i].corpora = b]
        /\ IF b = "failed" THEN Fails(t) ELSE Set(t, [r EXCEPT !.pc = "check"])
  <2>1. c.corpora \in {"new", "ready", "failed"} BY <1>1 DEF Trust
  <2>. QED BY <2>1 DEF CorporaReady
<1>3. PICK d \in Trust : d = [c EXCEPT !.corpora = b] BY <1>1 DEF Trust
<1>4. /\ d.st = c.st /\ d.todo = c.todo /\ d.at = c.at /\ d.got = c.got
      /\ d.leaf = c.leaf /\ d.fault = c.fault /\ d.usable = c.usable
  BY <1>1, <1>3 DEF Trust
<1>5. BuildKnown(d) BY <1>1, <1>4 DEF BuildKnown
<1>6. /\ trust' \in [Isolate -> Trust]
      /\ \A j \in Isolate : BuildKnown(trust'[j])
  <2>1. trust' = [trust EXCEPT ![i] = d] BY <1>2, <1>3
  <2>2. \A j \in Isolate : trust'[j] = IF j = i THEN d ELSE trust[j] BY <2>1, Of
  <2>3. trust' \in [Isolate -> Trust] BY <1>1, <1>3, <2>1, Of
  <2>. QED BY <1>5, <2>2, <2>3, Of
<1>7. PICK s \in Call : Set(t, s) /\ CallKnown(s) /\ CallNow(s)
  <2>1. CASE b = "failed"
    <3>1. "failed" \in Word BY DEF Word
    <3>2. Set(t, Ended(r, "failed")) BY <1>2, <2>1 DEF Fails
    <3>. QED BY <1>1, <3>1, <3>2, EndedKnown
  <2>2. CASE b # "failed"
    <3>1. PICK s \in Call : s = [r EXCEPT !.pc = "check"] BY <1>1 DEF Call
    <3>2. /\ s.pc = "check" /\ s.said = r.said /\ s.name = r.name
          /\ s.sas = r.sas /\ s.auth = r.auth /\ s.stored = r.stored
      BY <1>1, <3>1 DEF Call
    <3>3. CallKnown(s) /\ CallNow(s) BY <1>1, <3>2 DEF CallKnown, CallNow
    <3>. QED BY <1>2, <2>2, <3>1, <3>3
  <2>. QED BY <2>1, <2>2
<1>. QED BY <1>1, <1>6, <1>7, CallAndBuild, Of

LEMMA CheckStep ==
  ASSUME NEW t \in Slot PROVE SignersInv /\ Check(t) => SignersInv'
<1>. SUFFICES ASSUME SignersInv, Check(t) PROVE SignersInv' OBVIOUS
<1>. DEFINE r == req[t]
<1>1. /\ r \in Call /\ CallNow(r) /\ r.pc = "check"
      /\ UNCHANGED <<world, row, trust, begun>>
  BY Of DEF Check
<1>2. CASE Confirmed(r.leaf) /\ Set(t, Ended(r, "verified"))
  <2>1. r.leaf \in r.auth BY <1>1, <1>2 DEF Confirmed, CallNow
  <2>2. "verified" \in Word BY DEF Word
  <2>3. PICK s \in Call : s = Ended(r, "verified") /\ CallKnown(s) /\ CallNow(s)
    BY <1>1, <2>1, <2>2, EndedKnown
  <2>. QED BY <1>1, <1>2, <2>3, OneCall, Of
<1>3. CASE Set(t, Ended(r, "unverified")) BY <1>1, <1>3, GivesUp
<1>. QED BY <1>2, <1>3 DEF Check

LEMMA ResolveStep ==
  ASSUME NEW t \in Slot PROVE SignersInv /\ Resolve(t) => SignersInv'
<1>. SUFFICES ASSUME SignersInv, Resolve(t) PROVE SignersInv' OBVIOUS
<1>. DEFINE r == req[t]
<1>1. /\ r \in Call /\ CallKnown(r) /\ CallNow(r) /\ r.name \in Name
      /\ r.pc = "resolve" /\ sa[r.name] \in Sa
      /\ UNCHANGED <<world, row, trust, begun>>
  BY Of DEF Resolve
<1>2. CASE Set(t, [r EXCEPT !.saw = sa[r.name], !.pc = "row"])
  <2>1. PICK p \in Call : p = [r EXCEPT !.saw = sa[r.name]] BY <1>1 DEF Call
  <2>2. PICK s \in Call : s = [p EXCEPT !.pc = "row"]
    <3>. HIDE <1>2
    <3>1. [p EXCEPT !.pc = "row"] \in Call BY <2>1 DEF Call
    <3>. QED BY <3>1
  <2>3. /\ s.pc = "row" /\ s.saw = sa[r.name] /\ s.said = r.said
        /\ s.name = r.name /\ s.sas = r.sas /\ s.auth = r.auth
        /\ s.stored = r.stored
    BY <1>1, <2>1, <2>2 DEF Call
  <2>4. CallKnown(s) /\ CallNow(s) BY <1>1, <2>3 DEF CallKnown, CallNow
  <2>5. Set(t, s) BY <1>2, <2>1, <2>2
  <2>. QED BY <1>1, <2>2, <2>4, <2>5, OneCall, Of
<1>3. CASE r.leaf.sa = sa[r.name] /\ Set(t, [r EXCEPT !.pc = "judge"])
  <2>1. PICK s \in Call : s = [r EXCEPT !.pc = "judge"] BY <1>1 DEF Call
  <2>2. /\ s.pc = "judge" /\ s.leaf = r.leaf /\ s.said = r.said
        /\ s.name = r.name /\ s.sas = r.sas /\ s.auth = r.auth
        /\ s.stored = r.stored
    BY <1>1, <2>1 DEF Call
  <2>3. CallKnown(s) /\ CallNow(s) BY <1>1, <1>3, <2>2 DEF CallKnown, CallNow
  <2>. QED BY <1>1, <1>3, <2>1, <2>3, OneCall, Of
<1>4. CASE Set(t, Ended(r, "refused")) BY <1>1, <1>4, GivesUp
<1>5. CASE Fails(t) BY <1>1, <1>5, GivesUp DEF Fails
<1>. QED BY <1>2, <1>3, <1>4, <1>5 DEF Resolve

LEMMA SignCredentialStep ==
  ASSUME NEW t \in Slot PROVE SignersInv /\ SignCredential(t) => SignersInv'
<1>. SUFFICES ASSUME SignersInv, SignCredential(t) PROVE SignersInv' OBVIOUS
<1>. DEFINE r == req[t]   l == row[r.name]
<1>1. /\ r \in Call /\ CallKnown(r) /\ CallNow(r) /\ r.name \in Name
      /\ l \in Leaf \cup {NoLeaf} /\ r.pc = "row"
      /\ UNCHANGED <<world, row, trust, begun>>
  BY Of DEF SignCredential
<1>2. CASE Signer(r, l) /\ Set(t, [Ended(r, "signed") EXCEPT !.leaf = l])
  <2>0. "signed" \in Word BY DEF Word
  <2>1. PICK p \in Call : p = Ended(r, "signed") BY <1>1, <2>0, CallEnds
  <2>2. PICK s \in Call : s = [p EXCEPT !.leaf = l] BY <1>1, <2>1 DEF Call
  <2>3. /\ p.pc = "done" /\ p.said = "signed" /\ p.name = r.name
        /\ p.sas = r.sas /\ p.stored = r.stored
    BY <1>1, <2>0, <2>1, CallEnds
  <2>4. /\ s.pc = "done" /\ s.said = "signed" /\ s.name = r.name /\ s.leaf = l
        /\ s.sas = r.sas /\ s.stored = r.stored
    BY <2>1, <2>2, <2>3 DEF Call
  <2>5. l \in r.stored /\ l.sa \in r.sas /\ l.key = LiveKey[r.name]
    BY <1>1, <1>2 DEF Signer, CallKnown, CallNow
  <2>6. CallKnown(s) /\ CallNow(s) BY <2>4, <2>5 DEF CallKnown, CallNow
  <2>7. Set(t, s) BY <1>2, <2>1, <2>2
  <2>. QED BY <1>1, <2>2, <2>6, <2>7, OneCall, Of
<1>3. CASE Set(t, Ended(r, "refused")) BY <1>1, <1>3, GivesUp
<1>4. CASE Fails(t) BY <1>1, <1>4, GivesUp DEF Fails
<1>. QED BY <1>2, <1>3, <1>4 DEF SignCredential

LEMMA JudgeStep ==
  ASSUME NEW t \in Slot PROVE SignersInv /\ Judge(t) => SignersInv'
<1>. SUFFICES ASSUME SignersInv, Judge(t) PROVE SignersInv' OBVIOUS
<1>. DEFINE r == req[t]
<1>1. /\ r \in Call /\ CallKnown(r) /\ CallNow(r) /\ r.pc = "judge"
      /\ UNCHANGED <<world, row, trust, begun>>
  BY Of DEF Judge
<1>2. CASE Signed(r) /\ Set(t, [r EXCEPT !.pc = "write"])
  <2>1. PICK s \in Call : s = [r EXCEPT !.pc = "write"] BY <1>1 DEF Call
  <2>2. /\ s.pc = "write" /\ s.leaf = r.leaf /\ s.said = r.said
        /\ s.name = r.name /\ s.sas = r.sas /\ s.auth = r.auth
        /\ s.stored = r.stored
    BY <1>1, <2>1 DEF Call
  <2>3. r.leaf \in r.auth /\ r.leaf.sa \in r.sas
    BY <1>1, <1>2 DEF Signed, CallKnown, CallNow
  <2>4. CallKnown(s) /\ CallNow(s) BY <1>1, <2>2, <2>3 DEF CallKnown, CallNow
  <2>. QED BY <1>1, <1>2, <2>1, <2>4, OneCall, Of
<1>3. CASE Set(t, Ended(r, "refused")) BY <1>1, <1>3, GivesUp
<1>. QED BY <1>2, <1>3 DEF Judge

LEMMA StoreSignerStep ==
  ASSUME NEW t \in Slot PROVE SignersInv /\ StoreSigner(t) => SignersInv'
<1>. SUFFICES ASSUME SignersInv, StoreSigner(t) PROVE SignersInv' OBVIOUS
<1>. DEFINE r == req[t]
<1>1. /\ r \in Call /\ CallKnown(r) /\ CallNow(r) /\ r.name \in Name
      /\ r.leaf \in Leaf \cup {NoLeaf} /\ r.pc = "write"
      /\ UNCHANGED <<world, begun>>
  BY Of DEF StoreSigner
<1>2. CASE Fails(t) /\ UNCHANGED <<row, trust>> BY <1>1, <1>2, GivesUp DEF Fails
<1>3. CASE /\ row' = [row EXCEPT ![r.name] = r.leaf]
           /\ req' = [u \in Slot |->
                IF u = t THEN Ended(r, "stored")
                ELSE IF Active(u) /\ req[u].name = r.name
                THEN [req[u] EXCEPT !.stored = @ \cup {r.leaf}] ELSE req[u]]
           /\ trust' = [i \in Isolate |->
                [trust[i] EXCEPT !.usable = {n \in @ : Usable(n, sa, row')}]]
  <2>1. UNCHANGED <<sa, ok, changes>> BY <1>1 DEF world
  <2>2. /\ row' \in [Name -> Leaf \cup {NoLeaf}] /\ row'[r.name] = r.leaf
        /\ \A n \in Name : n # r.name => row'[n] = row[n]
    BY <1>1, <1>3, Of
  <2>3. ASSUME NEW u \in Slot
        PROVE  req'[u] \in Call /\ (CallKnown(req[u]) /\ CallNow(req[u]))'
    <3>. DEFINE v == req[u]
    <3>1. v \in Call /\ CallKnown(v) /\ CallNow(v) /\ v.name \in Name BY Of
    <3>2. CASE u = t
      <4>1. "stored" \in Word BY DEF Word
      <4>2. PICK s \in Call : s = Ended(r, "stored") /\ CallKnown(s) /\ CallNow(s)
        BY <1>1, <4>1, EndedKnown DEF CallKnown
      <4>3. s.pc = "done" BY <1>1, <4>1, <4>2, CallEnds
      <4>4. req'[u] = s BY <1>3, <3>2, <4>2
      <4>. QED BY <4>2, <4>3, <4>4 DEF CallKnown, CallNow
    <3>3. CASE u # t /\ Active(u) /\ v.name = r.name
      <4>1. PICK s \in Call : s = [v EXCEPT !.stored = @ \cup {r.leaf}]
        BY <1>1, <3>1 DEF Call
      <4>2. /\ s.stored = v.stored \cup {r.leaf} /\ s.pc = v.pc
            /\ s.said = v.said /\ s.leaf = v.leaf /\ s.saw = v.saw
            /\ s.sas = v.sas /\ s.auth = v.auth /\ s.name = v.name
        BY <3>1, <4>1 DEF Call
      <4>3. CallKnown(s) BY <3>1, <4>2 DEF CallKnown
      <4>4. CallNow(s)' BY <2>1, <2>2, <3>1, <3>3, <4>2 DEF CallNow
      <4>5. req'[u] = s BY <1>3, <3>3, <4>1
      <4>. QED BY <4>3, <4>4, <4>5 DEF CallKnown, CallNow
    <3>4. CASE u # t /\ ~(Active(u) /\ v.name = r.name)
      <4>1. req'[u] = v BY <1>3, <3>4
      <4>. QED BY <2>1, <2>2, <3>1, <3>4, <4>1 DEF CallKnown, CallNow, Active
    <3>. QED BY <3>2, <3>3, <3>4
  <2>4. req' \in [Slot -> Call] BY <1>3, <2>3
  <2>5. ASSUME NEW i \in Isolate
        PROVE  trust'[i] \in Trust /\ BuildKnown(trust[i])'
    BY <1>3, <2>1, <2>2, Of, BuildWitnesses
  <2>6. trust' \in [Isolate -> Trust] BY <1>3, <2>5
  <2>. QED BY <1>1, <2>1, <2>2, <2>3, <2>4, <2>5, <2>6, Of, Pieces
<1>. QED BY <1>2, <1>3 DEF StoreSigner

-----------------------------------------------------------------------------
(* The theorems *)

LEMMA SignersInvInit == Init => SignersInv
<1>. SUFFICES ASSUME Init PROVE SignersInv OBVIOUS
<1>1. Idle \in Call
  <2>1. (CHOOSE n \in Name : TRUE) \in Name BY SignerConstants
  <2>2. (CHOOSE i \in Isolate : TRUE) \in Isolate BY SignerConstants
  <2>. QED BY <2>1, <2>2 DEF Idle, Call
<1>2. Idle.pc = "done" /\ Idle.said = "nothing" BY DEF Idle
<1>3. CallKnown(Idle) /\ CallNow(Idle) BY <1>2 DEF CallKnown, CallNow
<1>4. SignerShapes BY <1>1, FreshIs, SignerFacts DEF Init, SignerShapes
<1>. QED BY <1>3, <1>4, FreshKnown DEF Init, SignersInv

LEMMA SignersInvNext == SignersInv /\ [Next]_vars => SignersInv'
<1>. SUFFICES ASSUME SignersInv, [Next]_vars PROVE SignersInv' OBVIOUS
<1>1. CASE UNCHANGED vars
  <2>1. ASSUME NEW t \in Slot PROVE (CallKnown(req[t]) /\ CallNow(req[t]))'
    BY <1>1, Of DEF vars, CallKnown, CallNow
  <2>2. ASSUME NEW i \in Isolate PROVE BuildKnown(trust[i])'
    BY <1>1, Of DEF vars, BuildKnown, Usable
  <2>. QED BY <1>1, <2>1, <2>2, Of, Pieces DEF vars
<1>2. CASE Authorise \/ Disown \/ Repoint \/ Drop BY <1>2, WorldSteps
<1>3. ASSUME NEW i \in Isolate, Recycle(i) \/ ReadRow(i) \/ AcceptIssuer(i)
      PROVE  SignersInv'
  BY <1>3, RecycleStep, ReadRowStep, AcceptIssuerStep
<1>4. ASSUME NEW t \in Slot,
             \/ Begin(t) \/ TrustReady(t) \/ CorporaReady(t) \/ Check(t)
             \/ Resolve(t) \/ SignCredential(t) \/ Judge(t) \/ StoreSigner(t)
      PROVE  SignersInv'
  BY <1>4, CallBegins, TrustReadyStep, CorporaReadyStep, CheckStep, ResolveStep,
     SignCredentialStep, JudgeStep, StoreSignerStep
<1>. QED BY <1>1, <1>2, <1>3, <1>4 DEF Next

\* Whatever calls, builds and moves of the world interleave, calls know what they
\* have found and builds what became of their issuers (trust-context.ts).
THEOREM SignersInvariant == Spec => []SignersInv
BY SignersInvInit, SignersInvNext, PTL DEF Spec

\* The credential signer does not ask the account, so what it may rely on is
\* older than the call: every stored leaf was accepted once, by the history
\* of the call that stored it.  Argued step by step on top of SignersInv.
EverKnown(r, ls) ==
  r.auth \subseteq ls /\ (r.said = "signed" => r.leaf \in ls)
EverInv ==
  /\ ok \subseteq ever /\ ever \subseteq Leaf
  /\ \A n \in Name : row[n] \in ever \cup {NoLeaf}
  /\ \A t \in Slot : EverKnown(req[t], ever)

LEMMA EverPieces ==
  ASSUME NEW ls, ls \subseteq Leaf, ever' = ls, ok' \subseteq ls,
         \A n \in Name : row'[n] \in ls \cup {NoLeaf},
         \A t \in Slot : EverKnown(req'[t], ls)
  PROVE  EverInv'
BY DEF EverInv, EverKnown

\* A step of one call that leaves the world and the rows alone.
LEMMA EverOneCall ==
  ASSUME SignersInv, EverInv, NEW t \in Slot, NEW s, Set(t, s),
         UNCHANGED <<world, row>>, EverKnown(s, ever)
  PROVE  EverInv'
<1>1. \A u \in Slot : req'[u] = IF u = t THEN s ELSE req[u] BY Of DEF Set
<1>2. UNCHANGED <<ok, ever, row>> BY DEF world
<1>3. \A u \in Slot : EverKnown(req'[u], ever) BY <1>1 DEF EverInv
<1>. QED BY <1>2, <1>3, EverPieces DEF EverInv

LEMMA EverEnded ==
  ASSUME SignersInv, EverInv, NEW t \in Slot, NEW w \in Word \ {"signed"}
  PROVE  EverKnown(Ended(req[t], w), ever)
<1>1. PICK s : s = Ended(req[t], w) OBVIOUS
<1>2. s.said = w /\ s.auth = req[t].auth BY <1>1, CallEnds, Of
<1>3. EverKnown(s, ever) BY <1>2 DEF EverKnown, EverInv
<1>. QED BY <1>1, <1>3

LEMMA EverEnds ==
  ASSUME SignersInv, EverInv, NEW t \in Slot, NEW w \in Word \ {"signed"},
         Set(t, Ended(req[t], w)), UNCHANGED <<world, row>>
  PROVE  EverInv'
<1>1. PICK s : s = Ended(req[t], w) /\ EverKnown(s, ever) BY EverEnded
<1>2. Set(t, s) BY <1>1
<1>. QED BY <1>1, <1>2, EverOneCall

\* A call that goes on has said nothing yet.
LEMMA EverOn ==
  ASSUME SignersInv, EverInv, NEW t \in Slot, NEW s, Set(t, s),
         UNCHANGED <<world, row>>,
         s.said = req[t].said, s.auth = req[t].auth, Active(t)
  PROVE  EverInv'
<1>1. req[t].said = "nothing" BY Of DEF CallKnown, Active
<1>2. EverKnown(s, ever) BY <1>1 DEF EverKnown, EverInv
<1>. QED BY <1>2, EverOneCall

LEMMA EverWorld ==
  SignersInv /\ EverInv /\ (Authorise \/ Disown \/ Repoint \/ Drop) => EverInv'
<1>. SUFFICES ASSUME SignersInv, EverInv, Authorise \/ Disown \/ Repoint \/ Drop
              PROVE  EverInv'
  OBVIOUS
<1>1. /\ ever \subseteq ever' /\ ever' \subseteq Leaf /\ ok' \subseteq ever'
      /\ \A n \in Name : row'[n] \in ever' \cup {NoLeaf}
  BY Of DEF EverInv, Authorise, Disown, Repoint, Drop
<1>2. Witnessed BY DEF Authorise, Disown, Repoint, Drop
<1>3. PICK now : now = ever' OBVIOUS
<1>4. ASSUME NEW t \in Slot PROVE EverKnown(req'[t], now)
  <2>. DEFINE r == req[t]
  <2>1. r \in Call /\ EverKnown(r, ever) BY Of DEF EverInv
  <2>2. CASE req'[t] = r BY <1>1, <1>3, <2>1, <2>2 DEF EverKnown
  <2>3. CASE req'[t] = Living(r, sa'[r.name], ok', row'[r.name])
    <3>1. PICK s : s = req'[t] OBVIOUS
    <3>2. s.auth = r.auth \cup ok' /\ s.said = r.said /\ s.leaf = r.leaf
      BY <2>1, <2>3, <3>1 DEF Living, Call
    <3>3. EverKnown(s, now) BY <1>1, <1>3, <2>1, <3>2 DEF EverKnown
    <3>. QED BY <3>1, <3>3
  <2>. QED BY <1>2, <2>2, <2>3 DEF Witnessed, Living
<1>. QED BY <1>1, <1>3, <1>4, EverPieces

LEMMA EverBuild ==
  ASSUME NEW i \in Isolate
  PROVE  SignersInv /\ EverInv /\ (Recycle(i) \/ ReadRow(i) \/ AcceptIssuer(i))
           => EverInv'
<1>. SUFFICES ASSUME SignersInv, EverInv,
                     Recycle(i) \/ ReadRow(i) \/ AcceptIssuer(i)
              PROVE  EverInv'
  OBVIOUS
<1>1. UNCHANGED <<ok, ever, row>>
  BY DEF Recycle, ReadRow, AcceptIssuer, world
<1>2. ASSUME NEW t \in Slot PROVE EverKnown(req'[t], ever)
  <2>1. CASE req'[t] = req[t] BY <2>1 DEF EverInv
  <2>2. CASE req'[t] = Ended(req[t], "failed")
    <3>1. "failed" \in Word \ {"signed"} BY DEF Word
    <3>. QED BY <2>2, <3>1, EverEnded
  <2>. QED BY <2>1, <2>2 DEF Recycle, ReadRow, AcceptIssuer
<1>. QED BY <1>1, <1>2, EverPieces DEF EverInv

LEMMA EverBegin ==
  ASSUME NEW t \in Slot PROVE SignersInv /\ EverInv /\ Begin(t) => EverInv'
<1>. SUFFICES ASSUME SignersInv, EverInv, Begin(t) PROVE EverInv' OBVIOUS
<1>1. PICK s : Set(t, s) /\ s.said = "nothing" /\ s.auth = ok BY DEF Begin
<1>2. EverKnown(s, ever) BY <1>1 DEF EverKnown, EverInv
<1>. QED BY <1>1, <1>2, EverOneCall DEF Begin

LEMMA EverReading ==
  ASSUME NEW t \in Slot
  PROVE  SignersInv /\ EverInv /\ (TrustReady(t) \/ CorporaReady(t) \/ Check(t))
           => EverInv'
<1>. SUFFICES ASSUME SignersInv, EverInv,
                     TrustReady(t) \/ CorporaReady(t) \/ Check(t)
              PROVE  EverInv'
  OBVIOUS
<1>. DEFINE r == req[t]
<1>1. r \in Call /\ UNCHANGED <<world, row>>
  BY Of DEF TrustReady, CorporaReady, Check
<1>2. {"verified", "unverified", "refused", "failed"} \subseteq Word \ {"signed"}
  BY DEF Word
<1>3. CASE TrustReady(t)
  <2>1. CASE UNCHANGED req
    BY <1>1, <2>1, EverPieces DEF EverInv, world
  <2>2. CASE Fails(t) BY <1>1, <1>2, <2>2, EverEnds DEF Fails
  <2>3. CASE Set(t, Ended(r, "refused")) BY <1>1, <1>2, <2>3, EverEnds
  <2>4. CASE Set(t, [r EXCEPT !.pc = "corpora", !.leaf = trust[r.iso].leaf[r.name]])
    <3>1. PICK s : s = [r EXCEPT !.pc = "corpora",
                                 !.leaf = trust[r.iso].leaf[r.name]]
      OBVIOUS
    <3>2. s.said = r.said /\ s.auth = r.auth BY <1>1, <3>1 DEF Call
    <3>3. Set(t, s) /\ Active(t) BY <1>3, <2>4, <3>1 DEF TrustReady, Active
    <3>. QED BY <1>1, <3>2, <3>3, EverOn
  <2>. QED BY <1>3, <2>1, <2>2, <2>3, <2>4 DEF TrustReady
<1>4. CASE CorporaReady(t)
  <2>1. CASE Fails(t) BY <1>1, <1>2, <2>1, EverEnds DEF Fails
  <2>2. CASE Set(t, [r EXCEPT !.pc = "check"])
    <3>1. PICK s : s = [r EXCEPT !.pc = "check"] OBVIOUS
    <3>2. s.said = r.said /\ s.auth = r.auth BY <1>1, <3>1 DEF Call
    <3>3. Set(t, s) /\ Active(t) BY <1>4, <2>2, <3>1 DEF CorporaReady, Active
    <3>. QED BY <1>1, <3>2, <3>3, EverOn
  <2>. QED BY <1>4, <2>1, <2>2 DEF CorporaReady
<1>5. CASE Check(t) BY <1>1, <1>2, <1>5, EverEnds DEF Check
<1>. QED BY <1>3, <1>4, <1>5

LEMMA EverResolve ==
  ASSUME NEW t \in Slot PROVE SignersInv /\ EverInv /\ Resolve(t) => EverInv'
<1>. SUFFICES ASSUME SignersInv, EverInv, Resolve(t) PROVE EverInv' OBVIOUS
<1>. DEFINE r == req[t]
<1>1. r \in Call /\ UNCHANGED <<world, row>> /\ Active(t)
  BY Of DEF Resolve, Active
<1>2. {"refused", "failed"} \subseteq Word \ {"signed"} BY DEF Word
<1>3. CASE Set(t, [r EXCEPT !.saw = sa[r.name], !.pc = "row"])
  <2>1. PICK s : s = [r EXCEPT !.saw = sa[r.name], !.pc = "row"] OBVIOUS
  <2>2. s.said = r.said /\ s.auth = r.auth BY <1>1, <2>1 DEF Call
  <2>3. Set(t, s) BY <1>3, <2>1
  <2>. QED BY <1>1, <2>2, <2>3, EverOn
<1>4. CASE Set(t, [r EXCEPT !.pc = "judge"])
  <2>1. PICK s : s = [r EXCEPT !.pc = "judge"] OBVIOUS
  <2>2. s.said = r.said /\ s.auth = r.auth BY <1>1, <2>1 DEF Call
  <2>3. Set(t, s) BY <1>4, <2>1
  <2>. QED BY <1>1, <2>2, <2>3, EverOn
<1>5. CASE Set(t, Ended(r, "refused")) BY <1>1, <1>2, <1>5, EverEnds
<1>6. CASE Fails(t) BY <1>1, <1>2, <1>6, EverEnds DEF Fails
<1>. QED BY <1>3, <1>4, <1>5, <1>6 DEF Resolve

LEMMA EverSign ==
  ASSUME NEW t \in Slot
  PROVE  SignersInv /\ EverInv /\ SignCredential(t) => EverInv'
<1>. SUFFICES ASSUME SignersInv, EverInv, SignCredential(t) PROVE EverInv' OBVIOUS
<1>. DEFINE r == req[t]   l == row[r.name]
<1>1. r \in Call /\ r.name \in Name /\ UNCHANGED <<world, row>>
  BY Of DEF SignCredential
<1>2. {"signed", "refused", "failed"} \subseteq Word BY DEF Word
<1>3. CASE Signer(r, l) /\ Set(t, [Ended(r, "signed") EXCEPT !.leaf = l])
  <2>1. l \in ever BY <1>1, <1>3 DEF EverInv, Signer
  <2>2. PICK p : p = Ended(r, "signed") OBVIOUS
  <2>3. p \in Call /\ p.said = "signed" /\ p.auth = r.auth
    BY <1>1, <1>2, <2>2, CallEnds
  <2>4. PICK s : s = [p EXCEPT !.leaf = l] OBVIOUS
  <2>5. s.leaf = l /\ s.auth = r.auth BY <2>3, <2>4 DEF Call
  <2>6. EverKnown(s, ever) BY <2>1, <2>5 DEF EverKnown, EverInv
  <2>7. Set(t, s) BY <1>3, <2>2, <2>4
  <2>. QED BY <1>1, <2>6, <2>7, EverOneCall
<1>4. CASE Set(t, Ended(r, "refused")) BY <1>1, <1>2, <1>4, EverEnds
<1>5. CASE Fails(t) BY <1>1, <1>2, <1>5, EverEnds DEF Fails
<1>. QED BY <1>3, <1>4, <1>5 DEF SignCredential

LEMMA EverJudge ==
  ASSUME NEW t \in Slot PROVE SignersInv /\ EverInv /\ Judge(t) => EverInv'
<1>. SUFFICES ASSUME SignersInv, EverInv, Judge(t) PROVE EverInv' OBVIOUS
<1>. DEFINE r == req[t]
<1>1. r \in Call /\ UNCHANGED <<world, row>> /\ Active(t)
  BY Of DEF Judge, Active
<1>2. "refused" \in Word \ {"signed"} BY DEF Word
<1>3. CASE Set(t, [r EXCEPT !.pc = "write"])
  <2>1. PICK s : s = [r EXCEPT !.pc = "write"] OBVIOUS
  <2>2. s.said = r.said /\ s.auth = r.auth BY <1>1, <2>1 DEF Call
  <2>3. Set(t, s) BY <1>3, <2>1
  <2>. QED BY <1>1, <2>2, <2>3, EverOn
<1>4. CASE Set(t, Ended(r, "refused")) BY <1>1, <1>2, <1>4, EverEnds
<1>. QED BY <1>3, <1>4 DEF Judge

LEMMA EverStore ==
  ASSUME NEW t \in Slot PROVE SignersInv /\ EverInv /\ StoreSigner(t) => EverInv'
<1>. SUFFICES ASSUME SignersInv, EverInv, StoreSigner(t) PROVE EverInv' OBVIOUS
<1>. DEFINE r == req[t]
<1>1. r \in Call /\ r.name \in Name /\ UNCHANGED <<ok, ever>> /\ r.leaf \in r.auth
  BY Of DEF StoreSigner, world, CallKnown
<1>2. {"stored", "failed"} \subseteq Word \ {"signed"} BY DEF Word
<1>3. CASE Fails(t) /\ UNCHANGED row
  BY <1>2, <1>3, EverEnds DEF Fails, StoreSigner
<1>4. CASE /\ row' = [row EXCEPT ![r.name] = r.leaf]
           /\ req' = [u \in Slot |->
                IF u = t THEN Ended(r, "stored")
                ELSE IF Active(u) /\ req[u].name = r.name
                THEN [req[u] EXCEPT !.stored = @ \cup {r.leaf}] ELSE req[u]]
  <2>1. r.leaf \in ever BY <1>1 DEF EverInv, EverKnown
  <2>2. \A n \in Name : row'[n] \in ever \cup {NoLeaf}
    BY <1>1, <1>4, <2>1, Of DEF EverInv
  <2>3. ASSUME NEW u \in Slot PROVE EverKnown(req'[u], ever)
    <3>1. req[u] \in Call /\ EverKnown(req[u], ever) BY Of DEF EverInv
    <3>2. CASE u = t
      <4>1. req'[u] = Ended(r, "stored") BY <1>4, <3>2
      <4>. QED BY <1>2, <4>1, EverEnded
    <3>3. CASE u # t /\ req'[u] = req[u] BY <3>1, <3>3
    <3>4. CASE u # t /\ req'[u] = [req[u] EXCEPT !.stored = @ \cup {r.leaf}]
      <4>1. PICK s : s = req'[u] OBVIOUS
      <4>2. s.auth = req[u].auth /\ s.said = req[u].said /\ s.leaf = req[u].leaf
        BY <3>1, <3>4, <4>1 DEF Call
      <4>3. EverKnown(s, ever) BY <3>1, <4>2 DEF EverKnown
      <4>. QED BY <4>1, <4>3
    <3>. QED BY <1>4, <3>2, <3>3, <3>4
  <2>. QED BY <1>1, <2>2, <2>3, EverPieces DEF EverInv
<1>. QED BY <1>3, <1>4 DEF StoreSigner

LEMMA EverInvNext == SignersInv /\ EverInv /\ [Next]_vars => EverInv'
<1>. SUFFICES ASSUME SignersInv, EverInv, [Next]_vars PROVE EverInv' OBVIOUS
<1>1. CASE UNCHANGED vars BY <1>1, EverPieces DEF vars, EverInv
<1>2. CASE Authorise \/ Disown \/ Repoint \/ Drop BY <1>2, EverWorld
<1>3. ASSUME NEW i \in Isolate, Recycle(i) \/ ReadRow(i) \/ AcceptIssuer(i)
      PROVE  EverInv'
  BY <1>3, EverBuild
<1>4. ASSUME NEW t \in Slot,
             \/ Begin(t) \/ TrustReady(t) \/ CorporaReady(t) \/ Check(t)
             \/ Resolve(t) \/ SignCredential(t) \/ Judge(t) \/ StoreSigner(t)
      PROVE  EverInv'
  BY <1>4, EverBegin, EverReading, EverResolve, EverSign, EverJudge, EverStore
<1>. QED BY <1>1, <1>2, <1>3, <1>4 DEF Next

LEMMA EverAlways == Spec => []EverInv
<1>1. Init => EverInv
  <2>1. Idle.auth = {} /\ Idle.said = "nothing" BY DEF Idle
  <2>. QED BY <2>1 DEF Init, EverInv, EverKnown
<1>. QED BY <1>1, EverInvNext, SignersInvariant, PTL DEF Spec

\* Every state is well typed, and a context that serves holds a signer
\* (trust-context.ts:241-248).
THEOREM SignersTypeCorrect == Spec => []TypeOK
<1>1. SignersInv /\ EverInv => TypeOK
  BY DEF SignersInv, SignerShapes, BuildKnown, EverInv, TypeOK
<1>. QED BY <1>1, SignersInvariant, EverAlways, PTL

\* What is verified or stored was accepted by the account while the request ran;
\* what is signed is under a leaf stored and fitting while it ran, and accepted
\* once, before it was stored (lib/trust.ts, trust-context.ts:342-403).
THEOREM AuthorisedWhileItRan == Spec => []Authorised
<1>1. SignersInv /\ EverInv => Authorised
  BY DEF SignersInv, CallKnown, EverInv, EverKnown, Authorised,
     VerifiedIsAuthorised, SignedUnderName, StoredIsAuthorised, Said
<1>. QED BY <1>1, SignersInvariant, EverAlways, PTL

\* An issuer in order throughout a build is enough for a context that serves, if no
\* call fails: no other issuer takes it down (trust-context.ts:204-248).
THEOREM OneIssuerSuffices == Spec => []Resilient
<1>1. SignersInv => Resilient BY DEF SignersInv, BuildKnown, Resilient
<1>. QED BY <1>1, SignersInvariant, PTL

(***************************************************************************)
(*                                Citations                                *)
(***************************************************************************)

CitationShapes ==
  /\ built \in Version /\ imported \in Version /\ meta \in Version
  /\ anchor \in Version \cup {None} /\ setting \in Settings
  /\ stage \in {"deleted", "filling", "whole"}
  /\ tree \in [Isolate -> Tree] /\ req \in [Slot -> Request]
  /\ begun \in 0..MaxBegins

\* Where versions only go forward, D1 is never ahead of the publisher, nor
\* what an isolate read of it of D1.
Ordered ==
  setting.forward =>
    imported <= built /\ \A i \in Isolate : tree[i].rows <= imported

\* What is known of the candidates of a request: a public verse included
\* under the root was vouched for, a licensed one is the sample's.
CandidatesKnown(r) ==
  LET b == r.cand["bsb"]   l == r.cand["lbsb"] IN
  /\ b.src = "d1" /\ b.included => Vouched(r, b.commit)
  /\ b.ok => b.included
  /\ l.src \in {"none", "sample"} /\ (l.src = "sample" => l.commit = SampleVersion)

\* What the steps of a request have established when it comes to pc.
StepsKnown(r) ==
  /\ r.pc # "done" => r.said = "nothing"
  /\ r.pc \in {"texttree", "text", "sign", "judge"} => r.ed \in Offered(r)
  /\ r.pc \in {"tree", "find", "anchor", "pick", "texttree", "text"}
       => ~r.quoted /\ r.text = None
  /\ r.pc = "text" => r.ed = "bsb"
  /\ r.pc = "sign" /\ r.quoted => r.text = r.cand[r.ed].commit
  /\ r.pc \in {"start", "end", "rows"} => r.op = "range" /\ Vouched(r, r.root)
  /\ r.pc \in {"find", "pick", "texttree", "text", "sign", "judge"}
       => r.op # "range"
  /\ r.pc = "recheck" => r.op = "verify"

\* What a request said: the three promises, request by request.
RangeKnown(r) ==
  /\ Vouched(r, r.text)
  /\ setting.forward => r.start = r.text /\ r.end = r.text
SaidKnown(r) ==
  /\ r.said = "cited" /\ r.quoted => r.text = r.cand[r.ed].commit
  /\ r.said = "validated" =>
       LET c == r.cand["bsb"] IN
       /\ r.ed = "bsb" /\ r.text \in {None, c.commit}
       /\ c.src = "d1" => Vouched(r, c.commit)
  /\ r.op = "range" /\ r.said = "verified" => RangeKnown(r)

RequestKnown(r) == CandidatesKnown(r) /\ StepsKnown(r) /\ SaidKnown(r)

\* How a request stands to the setting it runs in: it was there for the anchor
\* of now; a range has the tree it began with, which, where versions only go
\* forward, is not newer than what it looked its ends up in.
InWorld(r) ==
  /\ r.pc \notin {"recheck", "done"} => anchor \in r.anchors
  /\ r.op = "range" /\ r.pc \in {"anchor", "start", "end", "rows"} =>
       tree[r.iso].st = "ready"
  /\ setting.forward /\ r.pc \in {"end", "rows"} =>
       tree[r.iso].rows <= r.start /\ r.start <= imported
  /\ setting.forward /\ r.pc = "rows" =>
       tree[r.iso].rows <= r.end /\ r.end <= imported

\* The inductive invariant of Citations.
CitationsInv ==
  /\ CitationShapes /\ Ordered
  /\ \A t \in Slot : RequestKnown(req[t]) /\ InWorld(req[t])

-----------------------------------------------------------------------------
LEMMA VersionFacts ==
  /\ MaxVersion \in Nat /\ MaxBegins \in Nat /\ SampleVersion \in Version
  /\ \A v : v \in Version <=> v \in Nat /\ 1 <= v /\ v <= MaxVersion
  /\ None \notin Version /\ Edited \notin Version /\ None = 0 /\ Edited # None
  /\ \A w \in Settings : w.forward \in BOOLEAN /\ w.ops \subseteq Op
BY CitationConstants, CallsConstants DEF Version, None, Edited

\* A step that gives one slot another request, well-known and in its setting.
LEMMA OneRequest ==
  ASSUME CitationsInv, NEW t \in Slot, NEW s \in Request,
         Set(t, s), UNCHANGED published, UNCHANGED tree,
         begun' \in 0..MaxBegins, RequestKnown(s), InWorld(s)
  PROVE  CitationsInv'
<1>1. req' \in [Slot -> Request] /\ \A u \in Slot : req'[u] = IF u = t THEN s ELSE req[u]
  BY DEF CitationsInv, CitationShapes, Set
<1>2. CitationShapes' /\ Ordered'
  BY <1>1 DEF CitationsInv, CitationShapes, Ordered, published
<1>3. ASSUME NEW u \in Slot PROVE RequestKnown(req'[u]) /\ InWorld(req'[u])
  BY <1>1 DEF CitationsInv
<1>4. ASSUME NEW u \in Slot PROVE (RequestKnown(req[u]) /\ InWorld(req[u]))'
  BY <1>3 DEF RequestKnown, CandidatesKnown, StepsKnown, SaidKnown, RangeKnown,
     InWorld, Vouched, Offered, published
<1>. QED BY <1>2, <1>4 DEF CitationsInv

\* The publisher and the loading of trees leave requests alone.
LEMMA SameRequests ==
  ASSUME CitationsInv, CitationShapes', Ordered', UNCHANGED <<anchor, setting, req>>,
         setting.forward => imported <= imported',
         \A i \in Isolate : tree[i].st = "ready" => tree'[i] = tree[i]
  PROVE  CitationsInv'
<1>1. ASSUME NEW t \in Slot PROVE RequestKnown(req[t])'
  BY DEF CitationsInv, RequestKnown, CandidatesKnown, StepsKnown, SaidKnown,
     RangeKnown, Vouched, Offered
<1>2. ASSUME NEW t \in Slot PROVE InWorld(req[t])'
  <2>. DEFINE r == req[t]
  <2>1. r \in Request /\ RequestKnown(r) /\ InWorld(r) /\ r' = r
    BY DEF CitationsInv, CitationShapes
  <2>2. r.iso \in Isolate /\ r.start \in Nat /\ r.end \in Nat
    BY <2>1, VersionFacts DEF Request
  <2>3. imported \in Nat /\ imported' \in Nat
    BY VersionFacts DEF CitationsInv, CitationShapes
  <2>4. r.pc \in {"end", "rows"} => r.op = "range"
    BY <2>1 DEF RequestKnown, StepsKnown
  <2>5. r.op = "range" /\ r.pc \in {"anchor", "start", "end", "rows"} =>
          tree'[r.iso] = tree[r.iso] /\ tree'[r.iso].st = "ready"
    BY <2>1, <2>2 DEF InWorld
  <2>6. setting.forward /\ r.pc \in {"end", "rows"} =>
          tree'[r.iso].rows <= r.start /\ r.start <= imported'
    BY <2>1, <2>2, <2>3, <2>4, <2>5 DEF InWorld
  <2>7. setting.forward /\ r.pc = "rows" =>
          tree'[r.iso].rows <= r.end /\ r.end <= imported'
    BY <2>1, <2>2, <2>3, <2>4, <2>5 DEF InWorld
  <2>8. r.pc \notin {"recheck", "done"} => anchor' \in r.anchors
    BY <2>1 DEF InWorld
  <2>9. setting' = setting
    OBVIOUS
  <2>. HIDE DEF r
  <2>10. req'[t] = r /\ InWorld(req[t])' <=> InWorld(r)'
    BY <2>1 DEF r
  <2>. QED BY <2>1, <2>5, <2>6, <2>7, <2>8, <2>9 DEF InWorld, r
<1>. QED BY <1>1, <1>2 DEF CitationsInv

-----------------------------------------------------------------------------
(* The publisher, and the trees *)

LEMMA BuildStep == CitationsInv /\ Build => CitationsInv'
<1>. SUFFICES ASSUME CitationsInv, Build PROVE CitationsInv' OBVIOUS
<1>1. built \in Nat /\ imported \in Nat /\ imported' = imported /\ built' \in Nat
  BY VersionFacts DEF CitationsInv, CitationShapes, Build
<1>2. CitationShapes' BY VersionFacts DEF CitationsInv, CitationShapes, Build
<1>3. Ordered' BY <1>1 DEF CitationsInv, Ordered, Build
<1>. QED BY <1>1, <1>2, <1>3, SameRequests DEF Build

LEMMA ImportStep == CitationsInv /\ Import => CitationsInv'
<1>. SUFFICES ASSUME CitationsInv, Import PROVE CitationsInv' OBVIOUS
<1>1. /\ built \in Nat /\ imported \in Nat /\ imported' \in {imported, built}
      /\ setting.forward => imported <= built
      /\ UNCHANGED <<built, anchor, setting, tree, req, begun>>
  BY VersionFacts DEF CitationsInv, CitationShapes, Ordered,
     Import, ImportDeletes, ImportMeta, ImportVerses
<1>2. CitationShapes'
  BY DEF CitationsInv, CitationShapes, Import, ImportDeletes, ImportMeta, ImportVerses
<1>3. \A i \in Isolate : tree[i].rows \in Nat
  BY VersionFacts DEF CitationsInv, CitationShapes, Tree
<1>4. Ordered' BY <1>1, <1>3 DEF CitationsInv, Ordered
<1>. QED BY <1>1, <1>2, <1>4, SameRequests

LEMMA AnchorStep == CitationsInv /\ Anchor => CitationsInv'
<1>. SUFFICES ASSUME CitationsInv, Anchor PROVE CitationsInv' OBVIOUS
<1>1. built \in Version BY DEF CitationsInv, CitationShapes
<1>2. ASSUME NEW t \in Slot
      PROVE  /\ req'[t] \in Request /\ RequestKnown(req'[t])
             /\ req'[t].pc \notin {"recheck", "done"} => built \in req'[t].anchors
             /\ req'[t].pc = req[t].pc /\ req'[t].op = req[t].op
             /\ req'[t].iso = req[t].iso /\ req'[t].start = req[t].start
             /\ req'[t].end = req[t].end
  <2>. DEFINE r == req[t]
  <2>1. r \in Request /\ RequestKnown(r) BY DEF CitationsInv, CitationShapes
  <2>2. CASE ~Active(t) BY <2>1, <2>2 DEF Anchor, Active
  <2>3. CASE Active(t)
    <3>1. req'[t] = [r EXCEPT !.anchors = @ \cup {built}] BY <2>3 DEF Anchor
    <3>2. PICK s \in Request : s = [r EXCEPT !.anchors = @ \cup {built}]
      BY <1>1, <2>1 DEF Request
    <3>3. /\ s.anchors = r.anchors \cup {built}
          /\ s.pc = r.pc /\ s.op = r.op /\ s.iso = r.iso
          /\ s.start = r.start /\ s.end = r.end
          /\ s.cand = r.cand /\ s.ed = r.ed /\ s.text = r.text
          /\ s.quoted = r.quoted /\ s.root = r.root /\ s.said = r.said
      BY <2>1, <3>2 DEF Request
    <3>4. CandidatesKnown(s)
      BY <2>1, <3>3 DEF RequestKnown, CandidatesKnown, Vouched
    <3>5. StepsKnown(s)
      BY <2>1, <3>3 DEF RequestKnown, StepsKnown, Vouched, Offered
    <3>6. SaidKnown(s)
      BY <2>1, <3>3 DEF RequestKnown, SaidKnown, RangeKnown, Vouched
    <3>. QED BY <3>1, <3>2, <3>3, <3>4, <3>5, <3>6 DEF RequestKnown
  <2>. QED BY <2>2, <2>3
<1>3. req' \in [Slot -> Request] BY <1>2 DEF Anchor
<1>4. CitationShapes' BY <1>1, <1>3 DEF CitationsInv, CitationShapes, Anchor
<1>5. Ordered' BY DEF CitationsInv, Ordered, Anchor
<1>6. ASSUME NEW t \in Slot PROVE RequestKnown(req[t])'
  BY <1>2 DEF RequestKnown, CandidatesKnown, StepsKnown, SaidKnown, RangeKnown,
     Vouched, Offered, Anchor
<1>7. ASSUME NEW t \in Slot PROVE InWorld(req[t])'
  <2>1. InWorld(req[t]) BY DEF CitationsInv
  <2>2. anchor' = built /\ tree' = tree /\ imported' = imported /\ setting' = setting
    BY DEF Anchor
  <2>. QED BY <1>2, <2>1, <2>2 DEF InWorld
<1>. QED BY <1>4, <1>5, <1>6, <1>7 DEF CitationsInv

\* Loading gives an isolate that was not ready another tree.
LEMMA OneTree ==
  ASSUME CitationsInv, NEW i \in Isolate, NEW c \in Tree,
         tree' = [tree EXCEPT ![i] = c], tree[i].st # "ready",
         UNCHANGED <<published, req, begun>>,
         setting.forward => c.rows <= imported
  PROVE  CitationsInv'
<1>1. CitationShapes' BY DEF CitationsInv, CitationShapes, published
<1>2. Ordered' BY DEF CitationsInv, CitationShapes, Ordered, published
<1>3. imported \in Nat /\ imported <= imported'
  BY VersionFacts DEF CitationsInv, CitationShapes, published
<1>4. \A j \in Isolate : tree[j].st = "ready" => tree'[j] = tree[j]
  BY DEF CitationsInv, CitationShapes
<1>. QED BY <1>1, <1>2, <1>3, <1>4, SameRequests DEF published

LEMMA NoTreeIs ==
  ASSUME NEW st \in {"new", "meta", "rows", "ready", "failed"}
  PROVE  NoTree(st) \in Tree /\ NoTree(st).rows = None
BY DEF NoTree, Tree

LEMMA LoadStep == ASSUME NEW i \in Isolate PROVE CitationsInv /\ Load(i) => CitationsInv'
<1>. SUFFICES ASSUME CitationsInv, Load(i) PROVE CitationsInv' OBVIOUS
<1>. DEFINE c == tree[i]
<1>1. /\ c \in Tree /\ (setting.forward => c.rows <= imported)
      /\ imported \in Version /\ meta \in Version /\ imported \in Nat
      /\ imported <= imported /\ None <= imported
      /\ tree \in [Isolate -> Tree]
  BY VersionFacts DEF CitationsInv, CitationShapes, Ordered
<1>2. UNCHANGED <<published, req, begun>> /\ c.st # "ready"
  BY DEF Load, LoadMeta, LoadRows
<1>3. CASE tree' = [tree EXCEPT ![i].st = "rows", ![i].root = meta]
  <2>1. PICK d \in Tree : d = [c EXCEPT !.st = "rows", !.root = meta]
    BY <1>1 DEF Tree
  <2>2. d.rows = c.rows BY <1>1, <2>1 DEF Tree
  <2>3. tree' = [tree EXCEPT ![i] = d] BY <1>1, <1>3, <2>1
  <2>. QED BY <1>1, <1>2, <2>2, <2>3, OneTree
<1>4. CASE tree' = [tree EXCEPT ![i] = NoTree("failed")]
  BY <1>1, <1>2, <1>4, NoTreeIs, OneTree
<1>5. CASE tree' = [tree EXCEPT ![i].st = "ready",
                      ![i].rows = IF stage = "whole" THEN imported ELSE None]
  <2>0. PICK v \in Version \cup {None} :
          v = (IF stage = "whole" THEN imported ELSE None) /\ v <= imported
    BY <1>1
  <2>1. PICK d \in Tree : d = [c EXCEPT !.st = "ready", !.rows = v]
    BY <1>1 DEF Tree
  <2>2. d.rows = v BY <1>1, <2>1 DEF Tree
  <2>3. tree' = [tree EXCEPT ![i] = d] BY <1>1, <1>5, <2>0, <2>1
  <2>. QED BY <1>1, <1>2, <2>0, <2>2, <2>3, OneTree
<1>. QED BY <1>3, <1>4, <1>5 DEF Load, LoadMeta, LoadRows

-----------------------------------------------------------------------------
(* Steps of requests.  What changes is written as a record update; that the *)
(* result is a request, and its fields, come first.                         *)

\* What every request under way has.
LEMMA Under ==
  ASSUME CitationsInv, NEW t \in Slot
  PROVE  /\ req[t] \in Request /\ RequestKnown(req[t]) /\ InWorld(req[t])
         /\ CandidatesKnown(req[t]) /\ StepsKnown(req[t]) /\ SaidKnown(req[t])
         /\ begun \in 0..MaxBegins /\ Verses \subseteq Version
         /\ Verses \subseteq {imported} /\ imported \in Version
         /\ req[t].iso \in Isolate /\ tree[req[t].iso] \in Tree
BY DEF CitationsInv, CitationShapes, RequestKnown, Request, Verses, corpus

\* The end of a request, whatever it says.
Answer == {"cited", "validated", "gated", "rejected", "verified", "unverified",
         "failed"}

LEMMA SaysIs ==
  ASSUME NEW p \in Request, NEW w \in Answer \cup {"nothing"}
  PROVE  [p EXCEPT !.said = w] \in Request
BY DEF Request, Answer

LEMMA EndedIs ==
  ASSUME NEW r \in Request, NEW w \in Answer
  PROVE  /\ Ended(r, w) \in Request
         /\ Ended(r, w).pc = "done" /\ Ended(r, w).said = w
         /\ Ended(r, w).op = r.op /\ Ended(r, w).cand = r.cand
         /\ Ended(r, w).ed = r.ed /\ Ended(r, w).text = r.text
         /\ Ended(r, w).quoted = r.quoted /\ Ended(r, w).root = r.root
         /\ Ended(r, w).start = r.start /\ Ended(r, w).end = r.end
         /\ Ended(r, w).anchors = r.anchors
<1>0. [r EXCEPT !.pc = "done"] \in Request
  <2>. HIDE DEF Answer
  <2>. QED BY DEF Request
<1>1. PICK p \in Request : p = [r EXCEPT !.pc = "done"] BY <1>0
<1>2. PICK s \in Request : s = [p EXCEPT !.said = w] BY <1>1, SaysIs
<1>3. /\ s.pc = "done" /\ s.said = w /\ s.op = r.op /\ s.cand = r.cand
      /\ s.ed = r.ed /\ s.text = r.text /\ s.quoted = r.quoted
      /\ s.root = r.root /\ s.start = r.start /\ s.end = r.end
      /\ s.anchors = r.anchors
  BY <1>1, <1>2 DEF Request
<1>4. Ended(r, w) = s BY <1>1, <1>2 DEF Ended
<1>. QED BY <1>2, <1>3, <1>4

LEMMA EndStep ==
  ASSUME CitationsInv, NEW t \in Slot,
         NEW w \in Answer,
         Set(t, Ended(req[t], w)), UNCHANGED <<published, tree, begun>>,
         SaidKnown(Ended(req[t], w))
  PROVE  CitationsInv'
<1>. DEFINE r == req[t]   s == Ended(r, w)
<1>1. r \in Request /\ RequestKnown(r) BY Under DEF RequestKnown
<1>2. /\ s \in Request /\ s.pc = "done" /\ s.cand = r.cand
      /\ s.anchors = r.anchors
  BY <1>1, EndedIs
<1>. HIDE DEF s
<1>3. CandidatesKnown(s) BY <1>1, <1>2 DEF RequestKnown, CandidatesKnown, Vouched
<1>4. StepsKnown(s) BY <1>2 DEF StepsKnown
<1>5. InWorld(s) BY <1>2 DEF InWorld
<1>. QED BY <1>2, <1>3, <1>4, <1>5, OneRequest, Under DEF RequestKnown, s

LEMMA FailStep ==
  ASSUME CitationsInv, NEW t \in Slot, Fails(t),
         UNCHANGED <<published, tree, begun>>
  PROVE  CitationsInv'
<1>1. req[t] \in Request BY Under
<1>2. SaidKnown(Ended(req[t], "failed")) BY <1>1, EndedIs DEF SaidKnown, Answer
<1>. QED BY <1>2, EndStep DEF Fails, Answer

\* Requests stay requests when a field is given a value of its type.
LEMMA PcType ==
  ASSUME NEW r \in Request,
         NEW pc \in {"find", "anchor", "pick", "texttree", "text", "sign",
                     "judge", "start", "end", "rows", "recheck"}
  PROVE  [r EXCEPT !.pc = pc] \in Request
BY DEF Request

LEMMA OpType ==
  ASSUME NEW r \in Request PROVE [r EXCEPT !.op = "verify"] \in Request
BY DEF Request

LEMMA CandType ==
  ASSUME NEW r \in Request, NEW c \in [Edition -> Candidate]
  PROVE  [r EXCEPT !.cand = c] \in Request
BY DEF Request

LEMMA IsoType ==
  ASSUME NEW r \in Request, NEW i \in Isolate
  PROVE  [r EXCEPT !.iso = i] \in Request
BY DEF Request

LEMMA EdType ==
  ASSUME NEW r \in Request, NEW e \in Edition
  PROVE  [r EXCEPT !.ed = e] \in Request
BY DEF Request

LEMMA TextType ==
  ASSUME NEW r \in Request, NEW v \in Version \cup {None, Edited}
  PROVE  [r EXCEPT !.text = v] \in Request
BY DEF Request

LEMMA QuotedType ==
  ASSUME NEW r \in Request, NEW q \in BOOLEAN
  PROVE  [r EXCEPT !.quoted = q] \in Request
BY DEF Request

LEMMA RangeType ==
  ASSUME NEW r \in Request, NEW v \in Version \cup {None}
  PROVE  /\ [r EXCEPT !.root = v] \in Request
         /\ [r EXCEPT !.start = v] \in Request /\ [r EXCEPT !.end = v] \in Request
BY DEF Request

\* A request that only goes on to another step.
Step == {"find", "anchor", "pick", "text", "sign", "judge"}

LEMMA MovedIs ==
  ASSUME NEW r \in Request, NEW pc \in Step
  PROVE  LET s == [r EXCEPT !.pc = pc] IN
         /\ s \in Request /\ s.pc = pc /\ s.op = r.op /\ s.cand = r.cand
         /\ s.ed = r.ed /\ s.text = r.text /\ s.quoted = r.quoted
         /\ s.root = r.root /\ s.start = r.start /\ s.end = r.end
         /\ s.anchors = r.anchors
         /\ s.iso = r.iso /\ s.said = r.said
BY DEF Request, Step

LEMMA MoveStep ==
  ASSUME CitationsInv, NEW t \in Slot, NEW pc \in Step,
         Set(t, [req[t] EXCEPT !.pc = pc]),
         UNCHANGED <<published, tree, begun>>,
         StepsKnown([req[t] EXCEPT !.pc = pc]), InWorld([req[t] EXCEPT !.pc = pc])
  PROVE  CitationsInv'
<1>. DEFINE r == req[t]   s == [r EXCEPT !.pc = pc]
<1>1. r \in Request /\ CandidatesKnown(r) /\ SaidKnown(r) BY Under
<1>2. /\ s \in Request /\ s.op = r.op /\ s.cand = r.cand /\ s.ed = r.ed
      /\ s.text = r.text /\ s.quoted = r.quoted
      /\ s.start = r.start /\ s.end = r.end
      /\ s.anchors = r.anchors /\ s.said = r.said
  BY <1>1, MovedIs
<1>. HIDE DEF s
<1>3. CandidatesKnown(s) BY <1>1, <1>2 DEF CandidatesKnown, Vouched
<1>4. SaidKnown(s) BY <1>1, <1>2 DEF SaidKnown, RangeKnown, Vouched
<1>. QED BY <1>2, <1>3, <1>4, OneRequest, Under DEF RequestKnown, s

\* The first to ask for a tree starts its load.
LEMMA TreeStarts ==
  ASSUME CitationsInv, NEW i \in Isolate, tree[i].st = "new",
         tree' = [tree EXCEPT ![i].st = "meta"],
         UNCHANGED <<published, req, begun>>
  PROVE  CitationsInv'
<1>1. /\ tree[i] \in Tree /\ (setting.forward => tree[i].rows <= imported)
      /\ tree \in [Isolate -> Tree]
  BY DEF CitationsInv, CitationShapes, Ordered
<1>2. PICK d \in Tree : d = [tree[i] EXCEPT !.st = "meta"] BY <1>1 DEF Tree
<1>3. d.rows = tree[i].rows BY <1>1, <1>2 DEF Tree
<1>4. tree' = [tree EXCEPT ![i] = d] BY <1>1, <1>2
<1>. QED BY <1>1, <1>3, <1>4, OneTree

LEMMA ResolveTreeStep ==
  ASSUME NEW t \in Slot PROVE CitationsInv /\ ResolveTree(t) => CitationsInv'
<1>. SUFFICES ASSUME CitationsInv, ResolveTree(t) PROVE CitationsInv' OBVIOUS
<1>. DEFINE r == req[t]
<1>1. /\ r \in Request /\ StepsKnown(r) /\ InWorld(r) /\ r.iso \in Isolate
      /\ r.pc = "tree" /\ UNCHANGED <<published, begun>>
  BY Under DEF ResolveTree, AwaitTree
<1>2. CASE tree[r.iso].st = "new" /\ UNCHANGED req
           /\ tree' = [tree EXCEPT ![r.iso].st = "meta"]
  BY <1>1, <1>2, TreeStarts
<1>3. CASE TreeSettled(r.iso) /\ UNCHANGED tree /\ r.op # "range"
           /\ Set(t, [r EXCEPT !.pc = "find"])
  <2>1. StepsKnown([r EXCEPT !.pc = "find"])
    BY <1>1, <1>3, MovedIs DEF StepsKnown, Step
  <2>2. InWorld([r EXCEPT !.pc = "find"]) BY <1>1, MovedIs DEF InWorld, Step
  <2>. QED BY <1>1, <1>3, <2>1, <2>2, MoveStep DEF Step
<1>4. CASE UNCHANGED tree /\ Set(t, Ended(r, "failed"))
  BY <1>1, <1>4, FailStep DEF Fails
<1>5. CASE TreeSettled(r.iso) /\ UNCHANGED tree /\ tree[r.iso].st # "failed"
           /\ Set(t, [r EXCEPT !.pc = "anchor"])
  <2>1. StepsKnown([r EXCEPT !.pc = "anchor"])
    BY <1>1, MovedIs DEF StepsKnown, Step
  <2>2. InWorld([r EXCEPT !.pc = "anchor"])
    BY <1>1, <1>5, MovedIs DEF InWorld, Step, TreeSettled
  <2>. QED BY <1>1, <1>5, <2>1, <2>2, MoveStep DEF Step
<1>. QED BY <1>2, <1>3, <1>4, <1>5 DEF ResolveTree, AwaitTree

LEMMA CandidateFacts ==
  /\ NoCandidate \in Candidate /\ NoCandidate.src = "none"
  /\ ~NoCandidate.included /\ ~NoCandidate.ok
  /\ [e \in Edition |-> NoCandidate] \in [Edition -> Candidate]
  /\ FromSample \in Candidate /\ FromSample.src = "sample"
  /\ FromSample.commit = SampleVersion
  /\ ~FromSample.included /\ ~FromSample.ok
  /\ "bsb" \in Edition /\ "lbsb" \in Edition
<1>1. NoCandidate \in Candidate BY DEF NoCandidate, Candidate
<1>2. FromSample \in Candidate
  BY <1>1, VersionFacts DEF FromSample, NoCandidate, Candidate
<1>. QED BY <1>1, <1>2 DEF FromSample, NoCandidate, Candidate, Edition

LEMMA BeginStep ==
  ASSUME NEW t \in Slot PROVE CitationsInv /\ BeginRequest(t) => CitationsInv'
<1>. SUFFICES ASSUME CitationsInv, BeginRequest(t) PROVE CitationsInv' OBVIOUS
<1>0. setting.ops \subseteq {"resolve", "validate", "range"}
  BY VersionFacts DEF CitationsInv, CitationShapes, Op
<1>1. PICK op \in setting.ops, v \in Verse, i \in Isolate,
          asked \in Edition \cup {"any"}, entitled \in BOOLEAN, edited \in BOOLEAN :
        /\ op = "range" => asked = "bsb"
        /\ entitled => op = "resolve"
        /\ edited => op = "validate"
        /\ Set(t, [op |-> op, verse |-> v, asked |-> asked,
                   entitled |-> entitled, edited |-> edited, iso |-> i,
                   pc |-> "tree", cand |-> [e \in Edition |-> NoCandidate],
                   ed |-> "bsb", text |-> None, quoted |-> FALSE,
                   root |-> None, start |-> None, end |-> None,
                   said |-> "nothing", anchors |-> {anchor}])
  BY DEF BeginRequest
<1>. DEFINE s == [op |-> op, verse |-> v, asked |-> asked,
                entitled |-> entitled, edited |-> edited, iso |-> i,
                pc |-> "tree", cand |-> [e \in Edition |-> NoCandidate],
                ed |-> "bsb", text |-> None, quoted |-> FALSE,
                root |-> None, start |-> None, end |-> None,
                said |-> "nothing", anchors |-> {anchor}]
<1>2. s \in Request
  BY <1>0, CandidateFacts DEF CitationsInv, CitationShapes, Request
<1>3. /\ s.pc = "tree" /\ s.said = "nothing" /\ s.quoted = FALSE
      /\ s.text = None /\ s.anchors = {anchor}
      /\ s.cand["bsb"] = NoCandidate /\ s.cand["lbsb"] = NoCandidate
  BY CandidateFacts
<1>4. Set(t, s) BY <1>1
<1>. HIDE DEF s
<1>5. CandidatesKnown(s) BY <1>3, CandidateFacts DEF CandidatesKnown
<1>6. StepsKnown(s) /\ SaidKnown(s) /\ InWorld(s)
  BY <1>3 DEF StepsKnown, SaidKnown, InWorld
<1>7. begun' \in 0..MaxBegins
  BY Under, VersionFacts DEF BeginRequest
<1>. QED BY <1>2, <1>4, <1>5, <1>6, <1>7, OneRequest DEF BeginRequest, RequestKnown

LEMMA FindStep == ASSUME NEW t \in Slot PROVE CitationsInv /\ Find(t) => CitationsInv'
<1>. SUFFICES ASSUME CitationsInv, Find(t) PROVE CitationsInv' OBVIOUS
<1>. DEFINE r == req[t]
            sampled == IF r.verse \in Sample THEN {FromSample} ELSE {NoCandidate}
            D(v) == [FromSample EXCEPT !.src = "d1", !.commit = v]
<1>1. /\ r \in Request /\ StepsKnown(r) /\ InWorld(r) /\ Verses \subseteq Version
      /\ r.pc = "find" /\ UNCHANGED <<published, tree, begun>>
  BY Under DEF Find
<1>2. PICK b \in (IF tree[r.iso].st = "ready"
                THEN {NoCandidate} \cup {D(v) : v \in Verses} ELSE sampled),
           l \in sampled :
        Set(t, [r EXCEPT !.pc = "anchor", !.cand["bsb"] = b, !.cand["lbsb"] = l])
  BY DEF Find
<1>3. ASSUME NEW v \in Verses
      PROVE  D(v) \in Candidate /\ ~D(v).included /\ ~D(v).ok
  <2>1. PICK p \in Candidate : p = [FromSample EXCEPT !.src = "d1"]
    BY CandidateFacts DEF Candidate
  <2>2. PICK q \in Candidate : q = [p EXCEPT !.commit = v]
    BY <1>1, <2>1 DEF Candidate
  <2>3. ~q.included /\ ~q.ok BY <2>1, <2>2, CandidateFacts DEF Candidate
  <2>. QED BY <2>1, <2>2, <2>3
<1>4. /\ b \in Candidate /\ ~b.included /\ ~b.ok
      /\ l \in Candidate /\ l.src \in {"none", "sample"}
      /\ l.src = "sample" => l.commit = SampleVersion
  BY <1>2, <1>3, CandidateFacts
<1>. HIDE DEF D, sampled
<1>5. r.cand \in [Edition -> Candidate] BY <1>1 DEF Request
<1>6. PICK c \in [Edition -> Candidate] :
        c = [r.cand EXCEPT !["bsb"] = b, !["lbsb"] = l]
  BY <1>4, <1>5, CandidateFacts
<1>7. c["bsb"] = b /\ c["lbsb"] = l
  BY <1>5, <1>6 DEF Edition
<1>8. PICK p \in Request : p = [r EXCEPT !.pc = "anchor"] BY <1>1, PcType
<1>9. PICK s \in Request : s = [p EXCEPT !.cand = c] BY <1>6, <1>8, CandType
<1>10. /\ s.pc = "anchor" /\ s.cand = c /\ s.op = r.op /\ s.said = r.said
       /\ s.quoted = r.quoted /\ s.text = r.text /\ s.anchors = r.anchors
  BY <1>1, <1>8, <1>9 DEF Request
<1>11. Set(t, s)
  <2>1. s = [r EXCEPT !.pc = "anchor", !.cand = c] BY <1>8, <1>9
  <2>2. [r EXCEPT !.pc = "anchor", !.cand["bsb"] = b, !.cand["lbsb"] = l]
        = [r EXCEPT !.pc = "anchor", !.cand = c]
    BY <1>1, <1>6 DEF Request
  <2>. QED BY <1>2, <2>1, <2>2
<1>12. CandidatesKnown(s) BY <1>4, <1>7, <1>10 DEF CandidatesKnown
<1>13. StepsKnown(s) BY <1>1, <1>10 DEF StepsKnown
<1>14. SaidKnown(s) BY <1>1, <1>10 DEF StepsKnown, SaidKnown
<1>15. InWorld(s) BY <1>1, <1>10 DEF InWorld, StepsKnown
<1>. QED BY <1>1, <1>11, <1>12, <1>13, <1>14, <1>15, OneRequest, Under DEF RequestKnown

\* The root a proof is held to is vouched for, if the request saw the anchor.
LEMMA RootForVouched ==
  ASSUME CitationsInv, NEW i \in Isolate, NEW r, anchor \in r.anchors
  PROVE  RootFor(i) \in Version \cup {None} /\ Vouched(r, RootFor(i))
BY DEF CitationsInv, CitationShapes, RootFor, Vouched, Tree

LEMMA VerifyStep ==
  ASSUME NEW t \in Slot PROVE CitationsInv /\ VerifyCandidates(t) => CitationsInv'
<1>. SUFFICES ASSUME CitationsInv, VerifyCandidates(t) PROVE CitationsInv' OBVIOUS
<1>. DEFINE r == req[t]
            In(c) == CASE c.src = "d1" -> Included(r.iso, c.commit, RootFor(r.iso))
                       [] c.src = "sample" -> TRUE
                       [] OTHER -> FALSE
            Judged(c, sig) == [c EXCEPT !.included = In(c), !.ok = In(c) /\ sig]
<1>1. /\ r \in Request /\ CandidatesKnown(r) /\ StepsKnown(r) /\ InWorld(r)
      /\ r.iso \in Isolate
      /\ r.pc = "anchor" /\ r.op # "range" /\ UNCHANGED <<published, tree, begun>>
  BY Under DEF VerifyCandidates
<1>2. CASE Fails(t) BY <1>1, <1>2, FailStep
<1>3. ASSUME NEW sig \in [Edition -> BOOLEAN],
             Set(t, [r EXCEPT !.pc = "pick",
                       !.cand = [e \in Edition |-> Judged(@[e], sig[e])]])
      PROVE  CitationsInv'
  <2>1. r.cand \in [Edition -> Candidate] BY <1>1 DEF Request
  <2>2. ASSUME NEW c \in Candidate, NEW g \in BOOLEAN
        PROVE  /\ Judged(c, g) \in Candidate /\ Judged(c, g).src = c.src
               /\ Judged(c, g).commit = c.commit
               /\ Judged(c, g).included <=> In(c)
               /\ Judged(c, g).ok => Judged(c, g).included
    <3>1. PICK i \in BOOLEAN : i = In(c) BY DEF Included
    <3>2. PICK k \in BOOLEAN : k = (i /\ g) OBVIOUS
    <3>3. Judged(c, g) = [c EXCEPT !.included = i, !.ok = k] BY <3>1, <3>2
    <3>4. PICK p \in Candidate : p = [c EXCEPT !.included = i] BY DEF Candidate
    <3>5. PICK q \in Candidate : q = [p EXCEPT !.ok = k] BY <3>4 DEF Candidate
    <3>6. q.src = c.src /\ q.commit = c.commit /\ q.included = i /\ q.ok = k
      BY <3>4, <3>5 DEF Candidate
    <3>7. Judged(c, g) = q BY <3>3, <3>4, <3>5
    <3>. HIDE DEF Judged, In
    <3>. QED BY <3>1, <3>2, <3>5, <3>6, <3>7
  <2>3. PICK c : c = [e \in Edition |-> Judged(r.cand[e], sig[e])] OBVIOUS
  <2>. HIDE DEF Judged
  <2>4. c \in [Edition -> Candidate] BY <2>1, <2>2, <2>3
  <2>5. ASSUME NEW e \in Edition
        PROVE  /\ c[e].src = r.cand[e].src /\ c[e].commit = r.cand[e].commit
               /\ c[e].included <=> In(r.cand[e])
               /\ c[e].ok => c[e].included
    BY <2>1, <2>2, <2>3
  <2>6. Set(t, [r EXCEPT !.pc = "pick", !.cand = c]) BY <1>3, <2>3
  <2>7. PICK p \in Request : p = [r EXCEPT !.pc = "pick"] BY <1>1, PcType
  <2>8. PICK s \in Request : s = [p EXCEPT !.cand = c] BY <2>4, <2>7, CandType
  <2>9. /\ s.pc = "pick" /\ s.cand = c /\ s.op = r.op /\ s.said = r.said
        /\ s.quoted = r.quoted /\ s.text = r.text /\ s.anchors = r.anchors
    BY <1>1, <2>7, <2>8 DEF Request
  <2>10. Set(t, s) BY <2>6, <2>7, <2>8
  <2>11. anchor \in s.anchors BY <1>1, <2>9 DEF InWorld
  <2>12. c["bsb"].src = "d1" /\ c["bsb"].included => Vouched(s, c["bsb"].commit)
    <3>. SUFFICES ASSUME c["bsb"].src = "d1", c["bsb"].included
                  PROVE  Vouched(s, c["bsb"].commit)
      OBVIOUS
    <3>1. c["bsb"].commit = RootFor(r.iso)
      BY <2>5, CandidateFacts DEF Included
    <3>. QED BY <1>1, <2>11, <3>1, RootForVouched
  <2>13. CandidatesKnown(s)
    BY <1>1, <2>5, <2>9, <2>12, CandidateFacts DEF CandidatesKnown
  <2>14. StepsKnown(s) BY <1>1, <2>9 DEF StepsKnown
  <2>15. SaidKnown(s) BY <1>1, <2>9 DEF StepsKnown, SaidKnown
  <2>16. InWorld(s) BY <1>1, <2>9, <2>11 DEF InWorld
  <2>. QED BY <1>1, <2>8, <2>10, <2>13, <2>14, <2>15, <2>16, OneRequest, Under
     DEF RequestKnown
<1>. QED BY <1>2, <1>3 DEF VerifyCandidates

LEMMA PickStep == ASSUME NEW t \in Slot PROVE CitationsInv /\ Pick(t) => CitationsInv'
<1>. SUFFICES ASSUME CitationsInv, Pick(t) PROVE CitationsInv' OBVIOUS
<1>. DEFINE r == req[t]
<1>1. /\ r \in Request /\ CandidatesKnown(r) /\ StepsKnown(r) /\ InWorld(r)
      /\ r.pc = "pick" /\ UNCHANGED <<published, tree, begun>>
  BY Under DEF Pick
<1>2. CASE Offered(r) = {} BY <1>1, <1>2, FailStep DEF Pick
<1>3. CASE Offered(r) # {}
  <2>1. PICK e \in Offered(r) : e = Picked(r)
    BY <1>3 DEF Picked, FirstOf, Verified, Offered, Edition
  <2>2. PICK i \in Isolate :
          Set(t, [r EXCEPT !.iso = i, !.ed = Picked(r), !.pc = "texttree"])
    BY <1>3 DEF Pick
  <2>3. PICK p \in Request : p = [r EXCEPT !.iso = i] BY <1>1, IsoType
  <2>4. PICK q \in Request : q = [p EXCEPT !.ed = e]
    BY <2>1, <2>3, EdType DEF Offered
  <2>5. PICK s \in Request : s = [q EXCEPT !.pc = "texttree"] BY <2>4, PcType
  <2>6. /\ s.pc = "texttree" /\ s.cand = r.cand /\ s.op = r.op /\ s.ed = e
        /\ s.said = r.said /\ s.quoted = r.quoted /\ s.text = r.text
        /\ s.anchors = r.anchors
    BY <1>1, <2>3, <2>4, <2>5 DEF Request
  <2>7. Set(t, s) BY <2>1, <2>2, <2>3, <2>4, <2>5
  <2>8. CandidatesKnown(s) BY <1>1, <2>6 DEF CandidatesKnown, Vouched
  <2>9. StepsKnown(s) BY <1>1, <2>1, <2>6 DEF StepsKnown, Offered
  <2>10. SaidKnown(s) BY <1>1, <2>6 DEF StepsKnown, SaidKnown
  <2>11. InWorld(s) BY <1>1, <2>6 DEF InWorld
  <2>. QED BY <1>1, <2>5, <2>7, <2>8, <2>9, <2>10, <2>11, OneRequest, Under
     DEF RequestKnown
<1>. QED BY <1>2, <1>3

\* The text and the mark of a quotation, which come with the step to sign.
Texted(r, v, q) == [r EXCEPT !.pc = "sign", !.text = v, !.quoted = q]

LEMMA TextedIs ==
  ASSUME NEW r \in Request, NEW v \in Version \cup {None, Edited},
         NEW q \in BOOLEAN
  PROVE  LET s == Texted(r, v, q) IN
         /\ s \in Request /\ s.pc = "sign" /\ s.text = v /\ s.quoted = q
         /\ s.op = r.op /\ s.cand = r.cand /\ s.ed = r.ed
         /\ s.anchors = r.anchors /\ s.said = r.said
<1>1. PICK p \in Request : p = [r EXCEPT !.pc = "sign"] BY PcType
<1>2. PICK w \in Request : w = [p EXCEPT !.text = v] BY <1>1, TextType
<1>3. PICK s \in Request : s = [w EXCEPT !.quoted = q] BY <1>2, QuotedType
<1>4. /\ s.pc = "sign" /\ s.text = v /\ s.quoted = q
      /\ s.op = r.op /\ s.cand = r.cand /\ s.ed = r.ed
      /\ s.anchors = r.anchors /\ s.said = r.said
  BY <1>1, <1>2, <1>3 DEF Request
<1>5. Texted(r, v, q) = s BY <1>1, <1>2, <1>3 DEF Texted
<1>. QED BY <1>3, <1>4, <1>5

LEMMA TextedStep ==
  ASSUME CitationsInv, NEW t \in Slot, NEW v \in Version \cup {None, Edited},
         NEW q \in BOOLEAN, req[t].pc \in {"texttree", "text"},
         Set(t, [req[t] EXCEPT !.pc = "sign", !.text = v, !.quoted = q]),
         q => v = req[t].cand[req[t].ed].commit,
         UNCHANGED <<published, tree, begun>>
  PROVE  CitationsInv'
<1>. DEFINE r == req[t]   s == Texted(r, v, q)
<1>1. r \in Request /\ CandidatesKnown(r) /\ StepsKnown(r) /\ InWorld(r)
  BY Under
<1>2. /\ s \in Request /\ s.pc = "sign" /\ s.text = v /\ s.quoted = q
      /\ s.op = r.op /\ s.cand = r.cand /\ s.ed = r.ed
      /\ s.anchors = r.anchors /\ s.said = r.said
  BY <1>1, TextedIs
<1>3. Set(t, s) BY DEF Texted
<1>. HIDE DEF s
<1>4. CandidatesKnown(s) BY <1>1, <1>2 DEF CandidatesKnown, Vouched
<1>5. StepsKnown(s) BY <1>1, <1>2 DEF StepsKnown, Offered
<1>6. SaidKnown(s) BY <1>1, <1>2 DEF StepsKnown, SaidKnown
<1>7. InWorld(s) BY <1>1, <1>2 DEF InWorld
<1>. QED BY <1>2, <1>3, <1>4, <1>5, <1>6, <1>7, OneRequest, Under DEF RequestKnown

\* To sign without a text.
LEMMA TextlessStep ==
  ASSUME CitationsInv, NEW t \in Slot, req[t].pc \in {"texttree", "text"},
         Set(t, [req[t] EXCEPT !.pc = "sign"]),
         UNCHANGED <<published, tree, begun>>
  PROVE  CitationsInv'
<1>. DEFINE r == req[t]
<1>1. r \in Request /\ StepsKnown(r) /\ InWorld(r) BY Under
<1>2. StepsKnown([r EXCEPT !.pc = "sign"])
  BY <1>1, MovedIs DEF StepsKnown, Step, Offered
<1>3. InWorld([r EXCEPT !.pc = "sign"]) BY <1>1, MovedIs DEF InWorld, Step
<1>. QED BY <1>2, <1>3, MoveStep DEF Step

LEMMA TextTreeStep ==
  ASSUME NEW t \in Slot PROVE CitationsInv /\ TextTree(t) => CitationsInv'
<1>. SUFFICES ASSUME CitationsInv, TextTree(t) PROVE CitationsInv' OBVIOUS
<1>. DEFINE r == req[t]
<1>1. /\ r \in Request /\ CandidatesKnown(r) /\ StepsKnown(r) /\ InWorld(r)
      /\ r.iso \in Isolate
      /\ r.pc = "texttree" /\ UNCHANGED <<published, begun>>
  BY Under DEF TextTree, AwaitTree
<1>2. CASE r.ed = "bsb"
  <2>1. CASE tree[r.iso].st = "new" /\ UNCHANGED req
             /\ tree' = [tree EXCEPT ![r.iso].st = "meta"]
    BY <1>1, <2>1, TreeStarts
  <2>2. CASE UNCHANGED tree /\ Set(t, [r EXCEPT !.pc = "text"])
    <3>1. StepsKnown([r EXCEPT !.pc = "text"])
      BY <1>1, <1>2, MovedIs DEF StepsKnown, Step, Offered
    <3>2. InWorld([r EXCEPT !.pc = "text"]) BY <1>1, MovedIs DEF InWorld, Step
    <3>. QED BY <1>1, <2>2, <3>1, <3>2, MoveStep DEF Step
  <2>3. CASE UNCHANGED tree /\ Set(t, [r EXCEPT !.pc = "sign"])
    BY <1>1, <2>3, TextlessStep
  <2>. QED BY <1>2, <2>1, <2>2, <2>3 DEF TextTree, AwaitTree
<1>3. CASE r.ed # "bsb"
  <2>. DEFINE v == IF r.entitled THEN SampleVersion ELSE None
  <2>1. /\ UNCHANGED <<published, tree, begun>>
        /\ Set(t, [r EXCEPT !.pc = "sign", !.text = v, !.quoted = r.entitled])
    BY <1>3 DEF TextTree
  <2>2. r.entitled \in BOOLEAN BY <1>1 DEF Request
  <2>3. v \in Version \cup {None, Edited} BY VersionFacts
  <2>4. r.ed = "lbsb" BY <1>1, <1>3 DEF Request, Edition
  <2>5. r.cand["lbsb"].src = "sample" BY <1>1, <2>4 DEF StepsKnown, Offered, CandidatesKnown
  <2>6. r.entitled => v = r.cand[r.ed].commit
    BY <1>1, <2>4, <2>5 DEF CandidatesKnown
  <2>. HIDE DEF v
  <2>. QED BY <1>1, <2>1, <2>2, <2>3, <2>6, TextedStep
<1>. QED BY <1>2, <1>3

LEMMA GetTextStep == ASSUME NEW t \in Slot PROVE CitationsInv /\ GetText(t) => CitationsInv'
<1>. SUFFICES ASSUME CitationsInv, GetText(t) PROVE CitationsInv' OBVIOUS
<1>. DEFINE r == req[t]
<1>1. /\ r.pc = "text" /\ UNCHANGED <<published, tree, begun>>
      /\ Verses \subseteq Version
  BY Under DEF GetText
<1>2. CASE Set(t, [r EXCEPT !.pc = "sign"]) BY <1>1, <1>2, TextlessStep
<1>3. ASSUME NEW v \in Verses,
             Set(t, [r EXCEPT !.pc = "sign", !.text = v, !.quoted = Quotes(r, v)])
      PROVE  CitationsInv'
  <2>1. PICK q \in BOOLEAN : q = Quotes(r, v) BY DEF Quotes
  <2>2. q => v = r.cand[r.ed].commit BY <2>1 DEF Quotes
  <2>. QED BY <1>1, <1>3, <2>1, <2>2, TextedStep
<1>. QED BY <1>2, <1>3 DEF GetText

LEMMA SignStep ==
  ASSUME NEW t \in Slot PROVE CitationsInv /\ SignCitation(t) => CitationsInv'
<1>. SUFFICES ASSUME CitationsInv, SignCitation(t) PROVE CitationsInv' OBVIOUS
<1>. DEFINE r == req[t]
            v == IF r.edited THEN Edited ELSE r.text
<1>1. /\ r \in Request /\ CandidatesKnown(r) /\ StepsKnown(r) /\ InWorld(r)
      /\ r.pc = "sign" /\ UNCHANGED <<published, tree, begun>>
  BY Under DEF SignCitation
<1>2. CASE Fails(t) BY <1>1, <1>2, FailStep
<1>3. CASE Set(t, Ended(r, "cited"))
  <2>1. SaidKnown(Ended(r, "cited"))
    BY <1>1, EndedIs DEF SaidKnown, StepsKnown, Answer
  <2>. QED BY <1>1, <1>3, <2>1, EndStep DEF Answer
<1>4. CASE Set(t, [r EXCEPT !.pc = "judge", !.text = v])
  <2>1. v \in Version \cup {None, Edited} BY <1>1 DEF Request
  <2>. HIDE DEF v
  <2>2. PICK p \in Request : p = [r EXCEPT !.pc = "judge"] BY <1>1, PcType
  <2>3. PICK s \in Request : s = [p EXCEPT !.text = v] BY <2>1, <2>2, TextType
  <2>4. /\ s.pc = "judge" /\ s.op = r.op /\ s.cand = r.cand /\ s.ed = r.ed
        /\ s.anchors = r.anchors /\ s.said = r.said
    BY <1>1, <2>2, <2>3 DEF Request
  <2>5. Set(t, s) BY <1>4, <2>2, <2>3
  <2>6. CandidatesKnown(s) BY <1>1, <2>4 DEF CandidatesKnown, Vouched
  <2>7. StepsKnown(s) BY <1>1, <2>4 DEF StepsKnown, Offered
  <2>8. SaidKnown(s) BY <1>1, <2>4 DEF StepsKnown, SaidKnown
  <2>9. InWorld(s) BY <1>1, <2>4 DEF InWorld
  <2>. QED BY <1>1, <2>3, <2>5, <2>6, <2>7, <2>8, <2>9, OneRequest, Under
     DEF RequestKnown
<1>. QED BY <1>2, <1>3, <1>4 DEF SignCitation

\* What the validator validates is what is promised of it.
LEMMA OutcomeIs ==
  ASSUME NEW r \in Request, CandidatesKnown(r), NEW g \in BOOLEAN
  PROVE  /\ Outcome(r, g) \in {"rejected", "gated", "validated"}
         /\ Outcome(r, g) = "validated" =>
              LET c == r.cand["bsb"] IN
              /\ r.ed = "bsb" /\ r.text \in {None, c.commit}
              /\ c.src = "d1" => Vouched(r, c.commit)
<1>. DEFINE e == Bundled(r)   c == r.cand[e]
            sound == /\ c.included /\ g /\ TextMatches(r, c)
                     /\ c.commit = r.cand[r.ed].commit /\ e = r.ed
            gated == e = "lbsb" /\ r.text = None
<1>1. Outcome(r, g) = CASE ~sound \/ (e = "lbsb" /\ ~gated) -> "rejected"
                        [] sound /\ gated -> "gated"
                        [] OTHER -> "validated"
  BY DEF Outcome
<1>2. r.ed \in {"bsb", "lbsb"} BY DEF Request, Edition
<1>3. sound => e = r.ed /\ c.included /\ r.text \in {None, c.commit}
  BY DEF TextMatches
<1>. HIDE DEF sound, gated, e
<1>4. Outcome(r, g) \in {"rejected", "gated", "validated"}
  <2>1. CASE ~sound \/ (e = "lbsb" /\ ~gated) BY <1>1, <2>1
  <2>2. CASE sound /\ ~(e = "lbsb" /\ ~gated) /\ gated BY <1>1, <2>2
  <2>3. CASE sound /\ ~(e = "lbsb" /\ ~gated) /\ ~gated BY <1>1, <2>3
  <2>. QED BY <2>1, <2>2, <2>3
<1>5. Outcome(r, g) = "validated" => sound /\ e # "lbsb"
  <2>1. CASE ~sound \/ (e = "lbsb" /\ ~gated) BY <1>1, <2>1
  <2>2. CASE sound /\ ~(e = "lbsb" /\ ~gated) /\ gated BY <1>1, <2>2
  <2>3. CASE sound /\ ~(e = "lbsb" /\ ~gated) /\ ~gated BY <1>1, <2>3
  <2>. QED BY <2>1, <2>2, <2>3
<1>. QED BY <1>2, <1>3, <1>4, <1>5 DEF CandidatesKnown

LEMMA ValidateStep == ASSUME NEW t \in Slot PROVE CitationsInv /\ Validate(t) => CitationsInv'
<1>. SUFFICES ASSUME CitationsInv, Validate(t) PROVE CitationsInv' OBVIOUS
<1>. DEFINE r == req[t]
<1>1. /\ r \in Request /\ CandidatesKnown(r) /\ StepsKnown(r)
      /\ r.pc = "judge" /\ UNCHANGED <<published, tree, begun>>
  BY Under DEF Validate
<1>2. CASE Fails(t) BY <1>1, <1>2, FailStep
<1>3. ASSUME NEW g \in BOOLEAN, Set(t, Ended(r, Outcome(r, g))) PROVE CitationsInv'
  <2>1. PICK w \in Answer : w = Outcome(r, g) BY <1>1, OutcomeIs DEF Answer
  <2>2. /\ Ended(r, w).said = w /\ Ended(r, w).op = r.op
        /\ Ended(r, w).cand = r.cand /\ Ended(r, w).ed = r.ed
        /\ Ended(r, w).text = r.text /\ Ended(r, w).anchors = r.anchors
    BY <1>1, EndedIs
  <2>3. w \notin {"cited", "verified"} BY <1>1, <2>1, OutcomeIs
  <2>4. SaidKnown(Ended(r, w))
    BY <1>1, <2>1, <2>2, <2>3, OutcomeIs DEF SaidKnown, Vouched
  <2>. QED BY <1>1, <1>3, <2>1, <2>4, EndStep
<1>. QED BY <1>2, <1>3 DEF Validate

-----------------------------------------------------------------------------
(* A range, and a citation that is handed back *)

LEMMA RangeRootStep ==
  ASSUME NEW t \in Slot PROVE CitationsInv /\ RangeRoot(t) => CitationsInv'
<1>. SUFFICES ASSUME CitationsInv, RangeRoot(t) PROVE CitationsInv' OBVIOUS
<1>. DEFINE r == req[t]
<1>1. /\ r \in Request /\ CandidatesKnown(r) /\ StepsKnown(r) /\ InWorld(r)
      /\ r.iso \in Isolate /\ r.pc = "anchor" /\ r.op = "range"
      /\ UNCHANGED <<published, tree, begun>>
  BY Under DEF RangeRoot
<1>2. CASE Fails(t) BY <1>1, <1>2, FailStep
<1>3. CASE Set(t, [r EXCEPT !.pc = "start", !.root = RootFor(r.iso)])
  <2>1. PICK v \in Version \cup {None} : v = RootFor(r.iso) /\ Vouched(r, v)
    BY <1>1, RootForVouched DEF InWorld
  <2>2. PICK p \in Request : p = [r EXCEPT !.pc = "start"] BY <1>1, PcType
  <2>3. PICK s \in Request : s = [p EXCEPT !.root = v] BY <2>2, RangeType
  <2>4. /\ s.pc = "start" /\ s.root = v /\ s.op = r.op /\ s.cand = r.cand
        /\ s.ed = r.ed /\ s.iso = r.iso /\ s.anchors = r.anchors
        /\ s.said = r.said
    BY <1>1, <2>2, <2>3 DEF Request
  <2>5. Set(t, s) BY <1>3, <2>1, <2>2, <2>3
  <2>6. CandidatesKnown(s) BY <1>1, <2>4 DEF CandidatesKnown, Vouched
  <2>7. StepsKnown(s) BY <1>1, <2>1, <2>4 DEF StepsKnown, Vouched
  <2>8. SaidKnown(s) BY <1>1, <2>4 DEF StepsKnown, SaidKnown
  <2>9. InWorld(s) BY <1>1, <2>4 DEF InWorld
  <2>. QED BY <1>1, <2>3, <2>5, <2>6, <2>7, <2>8, <2>9, OneRequest, Under
     DEF RequestKnown
<1>. QED BY <1>2, <1>3 DEF RangeRoot

LEMMA RangeStartStep ==
  ASSUME NEW t \in Slot PROVE CitationsInv /\ RangeStart(t) => CitationsInv'
<1>. SUFFICES ASSUME CitationsInv, RangeStart(t) PROVE CitationsInv' OBVIOUS
<1>. DEFINE r == req[t]
<1>1. /\ r \in Request /\ CandidatesKnown(r) /\ StepsKnown(r) /\ InWorld(r)
      /\ r.iso \in Isolate /\ r.pc = "start" /\ Verses \subseteq Version
      /\ Verses \subseteq {imported} /\ r.op = "range"
      /\ UNCHANGED <<published, tree, begun>>
  BY Under DEF RangeStart, StepsKnown
<1>2. CASE Fails(t) BY <1>1, <1>2, FailStep
<1>3. ASSUME NEW v \in Verses, Set(t, [r EXCEPT !.pc = "end", !.start = v])
      PROVE  CitationsInv'
  <2>1. PICK p \in Request : p = [r EXCEPT !.pc = "end"] BY <1>1, PcType
  <2>2. PICK s \in Request : s = [p EXCEPT !.start = v]
    BY <1>1, <1>3, <2>1, RangeType
  <2>3. /\ s.pc = "end" /\ s.start = v /\ s.root = r.root /\ s.op = r.op
        /\ s.cand = r.cand /\ s.iso = r.iso /\ s.anchors = r.anchors
        /\ s.said = r.said
    BY <1>1, <2>1, <2>2 DEF Request
  <2>4. Set(t, s) BY <1>3, <2>1, <2>2
  <2>5. CandidatesKnown(s) BY <1>1, <2>3 DEF CandidatesKnown, Vouched
  <2>7. StepsKnown(s) BY <1>1, <2>3 DEF StepsKnown, Vouched
  <2>8. SaidKnown(s) BY <1>1, <2>3 DEF StepsKnown, SaidKnown
  <2>9. setting.forward => tree[r.iso].rows <= v /\ v <= imported
    BY <1>1, <1>3, VersionFacts DEF CitationsInv, Ordered
  <2>10. InWorld(s) BY <1>1, <2>3, <2>9 DEF InWorld
  <2>. QED BY <1>1, <2>2, <2>4, <2>5, <2>7, <2>8, <2>10, OneRequest, Under
     DEF RequestKnown
<1>. QED BY <1>2, <1>3 DEF RangeStart

LEMMA RangeEndStep ==
  ASSUME NEW t \in Slot PROVE CitationsInv /\ RangeEnd(t) => CitationsInv'
<1>. SUFFICES ASSUME CitationsInv, RangeEnd(t) PROVE CitationsInv' OBVIOUS
<1>. DEFINE r == req[t]
<1>1. /\ r \in Request /\ CandidatesKnown(r) /\ StepsKnown(r) /\ InWorld(r)
      /\ r.iso \in Isolate /\ r.pc = "end" /\ Verses \subseteq Version
      /\ Verses \subseteq {imported} /\ r.op = "range"
      /\ UNCHANGED <<published, tree, begun>>
  BY Under DEF RangeEnd, StepsKnown
<1>2. CASE Fails(t) BY <1>1, <1>2, FailStep
<1>3. ASSUME NEW v \in Verses, Set(t, [r EXCEPT !.pc = "rows", !.end = v])
      PROVE  CitationsInv'
  <2>1. PICK p \in Request : p = [r EXCEPT !.pc = "rows"] BY <1>1, PcType
  <2>2. PICK s \in Request : s = [p EXCEPT !.end = v]
    BY <1>1, <1>3, <2>1, RangeType
  <2>3. /\ s.pc = "rows" /\ s.end = v /\ s.root = r.root /\ s.op = r.op
        /\ s.start = r.start
        /\ s.cand = r.cand /\ s.iso = r.iso /\ s.anchors = r.anchors
        /\ s.said = r.said
    BY <1>1, <2>1, <2>2 DEF Request
  <2>4. Set(t, s) BY <1>3, <2>1, <2>2
  <2>5. CandidatesKnown(s) BY <1>1, <2>3 DEF CandidatesKnown, Vouched
  <2>7. StepsKnown(s) BY <1>1, <2>3 DEF StepsKnown, Vouched
  <2>8. SaidKnown(s) BY <1>1, <2>3 DEF StepsKnown, SaidKnown
  <2>9. setting.forward => tree[r.iso].rows <= v /\ v <= imported
    BY <1>1, <1>3, VersionFacts DEF CitationsInv, Ordered
  <2>10. InWorld(s) BY <1>1, <2>3, <2>9 DEF InWorld
  <2>. QED BY <1>1, <2>2, <2>4, <2>5, <2>7, <2>8, <2>10, OneRequest, Under
     DEF RequestKnown
<1>. QED BY <1>2, <1>3 DEF RangeEnd

LEMMA RangeRowsStep ==
  ASSUME NEW t \in Slot PROVE CitationsInv /\ RangeRows(t) => CitationsInv'
<1>. SUFFICES ASSUME CitationsInv, RangeRows(t) PROVE CitationsInv' OBVIOUS
<1>. DEFINE r == req[t]
<1>1. /\ r \in Request /\ CandidatesKnown(r) /\ StepsKnown(r) /\ InWorld(r)
      /\ r.iso \in Isolate /\ tree[r.iso] \in Tree
      /\ r.pc = "rows" /\ r.op = "range" /\ Verses \subseteq Version
      /\ Verses \subseteq {imported}
      /\ UNCHANGED <<published, tree, begun>>
  BY Under DEF RangeRows, StepsKnown
<1>2. CASE Fails(t) BY <1>1, <1>2, FailStep
<1>3. ASSUME NEW v \in Verses, NEW w \in {"verified", "unverified"},
             w = "verified" => Included(r.iso, v, r.root),
             Set(t, [Ended(r, w) EXCEPT !.text = v])
      PROVE  CitationsInv'
  <2>0. w \in Answer BY <1>3 DEF Answer
  <2>1. PICK p \in Request : p = Ended(r, w) BY <1>1, <2>0, EndedIs
  <2>2. PICK s \in Request : s = [p EXCEPT !.text = v]
    BY <1>1, <1>3, <2>1, TextType
  <2>3. /\ p.pc = "done" /\ p.said = w /\ p.op = r.op /\ p.cand = r.cand
        /\ p.start = r.start /\ p.end = r.end /\ p.anchors = r.anchors
    BY <1>1, <2>0, <2>1, EndedIs
  <2>4. /\ s.pc = "done" /\ s.said = w /\ s.op = "range" /\ s.cand = r.cand
        /\ s.start = r.start /\ s.end = r.end /\ s.anchors = r.anchors
        /\ s.text = v
    BY <1>1, <2>1, <2>2, <2>3 DEF Request
  <2>5. Set(t, s) BY <1>3, <2>1, <2>2
  <2>6. CandidatesKnown(s) BY <1>1, <2>4 DEF CandidatesKnown, Vouched
  <2>7. StepsKnown(s) BY <2>4 DEF StepsKnown
  <2>8. ASSUME w = "verified" PROVE RangeKnown(s)
    <3>1. v = tree[r.iso].rows /\ v = r.root /\ v = imported
      BY <1>1, <1>3, <2>8 DEF Included
    <3>2. v \in Nat /\ r.start \in Nat /\ r.end \in Nat
      BY <1>1, <1>3, VersionFacts DEF Request
    <3>3. setting.forward => v <= r.start /\ r.start <= v /\ v <= r.end /\ r.end <= v
      BY <1>1, <3>1 DEF InWorld
    <3>4. setting.forward => r.start = v /\ r.end = v BY <3>2, <3>3
    <3>5. Vouched(s, v) BY <1>1, <2>4, <3>1 DEF StepsKnown, Vouched
    <3>. QED BY <2>4, <3>4, <3>5 DEF RangeKnown
  <2>9. SaidKnown(s) BY <1>3, <2>4, <2>8 DEF SaidKnown
  <2>10. InWorld(s) BY <2>4 DEF InWorld
  <2>. QED BY <1>1, <2>2, <2>5, <2>6, <2>7, <2>9, <2>10, OneRequest, Under
     DEF RequestKnown
<1>. QED BY <1>2, <1>3 DEF RangeRows

LEMMA PresentStep == ASSUME NEW t \in Slot PROVE CitationsInv /\ Present(t) => CitationsInv'
<1>. SUFFICES ASSUME CitationsInv, Present(t) PROVE CitationsInv' OBVIOUS
<1>. DEFINE r == req[t]
<1>1. /\ r \in Request /\ CandidatesKnown(r)
      /\ Set(t, [r EXCEPT !.op = "verify", !.pc = "recheck", !.said = "nothing"])
      /\ UNCHANGED <<published, tree>>
  BY Under DEF Present
<1>2. PICK p \in Request : p = [r EXCEPT !.op = "verify"] BY <1>1, OpType
<1>3. PICK q \in Request : q = [p EXCEPT !.pc = "recheck"] BY <1>2, PcType
<1>4. [q EXCEPT !.said = "nothing"] \in Request BY <1>3, SaysIs
<1>5. PICK s \in Request : s = [q EXCEPT !.said = "nothing"] BY <1>4
<1>6. /\ s.pc = "recheck" /\ s.op = "verify" /\ s.said = "nothing"
      /\ s.cand = r.cand /\ s.anchors = r.anchors
  BY <1>1, <1>2, <1>3, <1>5 DEF Request
<1>7. Set(t, s) BY <1>1, <1>2, <1>3, <1>5
<1>8. CandidatesKnown(s) BY <1>1, <1>6 DEF CandidatesKnown, Vouched
<1>9. StepsKnown(s) BY <1>6 DEF StepsKnown
<1>10. SaidKnown(s) /\ InWorld(s) BY <1>6 DEF SaidKnown, InWorld
<1>11. begun' \in 0..MaxBegins BY Under, VersionFacts DEF Present
<1>. QED BY <1>1, <1>5, <1>7, <1>8, <1>9, <1>10, <1>11, OneRequest DEF RequestKnown

LEMMA RecheckStep == ASSUME NEW t \in Slot PROVE CitationsInv /\ Recheck(t) => CitationsInv'
<1>. SUFFICES ASSUME CitationsInv, Recheck(t) PROVE CitationsInv' OBVIOUS
<1>. DEFINE r == req[t]
<1>1. /\ r \in Request /\ StepsKnown(r) /\ r.pc = "recheck"
      /\ UNCHANGED <<published, tree, begun>>
  BY Under DEF Recheck
<1>2. PICK w \in {"verified", "unverified"} : Set(t, Ended(r, w)) BY DEF Recheck
<1>3. w \in Answer /\ w # "cited" /\ w # "validated" BY <1>2 DEF Answer
<1>4. SaidKnown(Ended(r, w)) BY <1>1, <1>3, EndedIs DEF SaidKnown, StepsKnown
<1>. QED BY <1>1, <1>2, <1>3, <1>4, EndStep

-----------------------------------------------------------------------------
(* The theorems *)

LEMMA CitationsInvInit == CitationsInit => CitationsInv
<1>. SUFFICES ASSUME CitationsInit PROVE CitationsInv OBVIOUS
<1>1. IdleRequest \in Request
  <2>1. (CHOOSE v \in Verse : TRUE) \in Verse BY CitationConstants
  <2>2. (CHOOSE i \in Isolate : TRUE) \in Isolate BY CitationConstants
  <2>. QED BY <2>1, <2>2, CandidateFacts DEF IdleRequest, Request
<1>2. /\ IdleRequest.pc = "done" /\ IdleRequest.said = "nothing"
      /\ IdleRequest.cand["bsb"] = NoCandidate
      /\ IdleRequest.cand["lbsb"] = NoCandidate
  BY CandidateFacts DEF IdleRequest
<1>3. CandidatesKnown(IdleRequest) BY <1>2, CandidateFacts DEF CandidatesKnown
<1>4. StepsKnown(IdleRequest) /\ SaidKnown(IdleRequest) /\ InWorld(IdleRequest)
  BY <1>2 DEF StepsKnown, SaidKnown, InWorld
<1>5. CitationShapes
  BY <1>1, VersionFacts, NoTreeIs DEF CitationsInit, CitationShapes
<1>6. Ordered BY VersionFacts, NoTreeIs DEF CitationsInit, Ordered
<1>. QED BY <1>3, <1>4, <1>5, <1>6 DEF CitationsInit, CitationsInv, RequestKnown

LEMMA CitationsInvNext == CitationsInv /\ [CitationsNext]_citationsVars => CitationsInv'
<1>. SUFFICES ASSUME CitationsInv, [CitationsNext]_citationsVars PROVE CitationsInv'
  OBVIOUS
<1>1. CASE UNCHANGED citationsVars
  BY <1>1 DEF citationsVars, published, CitationsInv, CitationShapes, Ordered,
     RequestKnown, CandidatesKnown, StepsKnown, SaidKnown, RangeKnown, InWorld,
     Vouched, Offered
<1>2. CASE Build \/ Import \/ Anchor BY <1>2, BuildStep, ImportStep, AnchorStep
<1>3. ASSUME NEW i \in Isolate, Load(i) PROVE CitationsInv' BY <1>3, LoadStep
<1>4. ASSUME NEW t \in Slot, BeginRequest(t) \/ Present(t) PROVE CitationsInv'
  BY <1>4, BeginStep, PresentStep
<1>5. ASSUME NEW t \in Slot, Work(t) PROVE CitationsInv'
  BY <1>5, ResolveTreeStep, FindStep, VerifyStep, PickStep, TextTreeStep,
     GetTextStep, SignStep, ValidateStep, RangeRootStep, RangeStartStep,
     RangeEndStep, RangeRowsStep, RecheckStep DEF Work
<1>. QED BY <1>1, <1>2, <1>3, <1>4, <1>5 DEF CitationsNext

\* Whatever is published, loaded and asked for meanwhile, requests know of their
\* candidates, steps and answers what CitationsInv says (doResolve, validateBundle).
THEOREM CitationsInvariant == CitationsSpec => []CitationsInv
BY CitationsInvInit, CitationsInvNext, PTL DEF CitationsSpec

\* Every state is well typed, and the edition picked was offered (doResolve).
THEOREM CitationsTypeCorrect == CitationsSpec => []CitationsTypeOK
<1>1. CitationsInv => CitationsTypeOK
  BY DEF CitationsInv, CitationShapes, RequestKnown, StepsKnown, CitationsTypeOK
<1>. QED BY <1>1, CitationsInvariant, PTL

\* A verse of the public corpus is reported verified only in a version vouched for
\* while the request ran, however torn the tree (demo-bible-mcp index.ts:314-362).
THEOREM VerifiedWasAnchored == CitationsSpec => []VerifiedIsAnchored
<1>1. CitationsInv => VerifiedIsAnchored
  BY DEF CitationsInv, RequestKnown, CandidatesKnown, VerifiedIsAnchored
<1>. QED BY <1>1, CitationsInvariant, PTL

\* A citation whose commitment was verified goes out with the text it commits to,
\* though an import may fall between the two calls (demo-bible-a2a index.ts:586-592).
THEOREM QuotedWasCited == CitationsSpec => []QuotedIsCited
<1>1. CitationsInv => QuotedIsCited
  BY DEF CitationsInv, RequestKnown, SaidKnown, QuotedIsCited
<1>. QED BY <1>1, CitationsInvariant, PTL

\* What is validated is public, carries the text cited or none, and leads to a root
\* vouched for while the agent worked (demo-validator validate.ts:40-198).
THEOREM ValidatedWasSound == CitationsSpec => []ValidatedIsSound
<1>1. CitationsInv => ValidatedIsSound
  BY DEF CitationsInv, RequestKnown, SaidKnown, ValidatedIsSound
<1>. QED BY <1>1, CitationsInvariant, PTL

\* A range that is verified is of one vouched version, and where versions only go
\* forward its ends were looked up in that version, though anchor, ends and verses
\* are four reads and an import may be half way at each (resolve_range).
THEOREM RangeWasOneVersion == CitationsSpec => []RangeIsOneVersion
<1>1. CitationsInv => RangeIsOneVersion
  BY DEF CitationsInv, RequestKnown, SaidKnown, RangeKnown, RangeIsOneVersion
<1>. QED BY <1>1, CitationsInvariant, PTL
=============================================================================
