------------------------------- MODULE Citations -------------------------------
(***************************************************************************)
(* From a verse to a validated citation: the Scripture Agent (demo-bible-  *)
(* a2a) resolves a reference, fetches the text and has its citation signed *)
(* in three calls of the corpus MCP, each served by some isolate of it;    *)
(* /trust/validate hands the result to the validator.                      *)
(*                                                                         *)
(* Meanwhile the publisher builds, imports and anchors versions of the     *)
(* corpus, new ones or an old one again.  The SQL of an import deletes the *)
(* verses, writes the corpus row and inserts the verses; it may stop half  *)
(* way and be run again, and requests run between its statements.  An      *)
(* isolate reads the Merkle tree once, in two queries, and keeps it, torn  *)
(* or failed as it may be, while it lives; the verses and the anchored     *)
(* root it reads anew for every request.                                   *)
(*                                                                         *)
(* A commitment is the version of the text it commits to (a verse differs  *)
(* in every version), a root the version of the tree it is the root of.    *)
(* Whether signatures verify is ContentSigners' business: any answer here. *)
(***************************************************************************)
EXTENDS Calls

CONSTANTS
  Verse, Sample,  \* verses; those of the sample embedded in the Worker
  SampleVersion,  \* the version of the corpus the sample was taken from
  MaxVersion,     \* bound: versions of the corpus
  Settings        \* what a behaviour may have: values of setting

Op == {"resolve", "validate", "range"}   \* what is asked for

ASSUME CitationConstants ==
  /\ Sample \subseteq Verse /\ Verse # {} /\ Isolate # {}
  /\ MaxVersion \in Nat \ {0} /\ SampleVersion \in 1..MaxVersion
  /\ Settings \subseteq [forward : BOOLEAN, ops : SUBSET Op]

Version == 1..MaxVersion
None == 0                   \* no version: not anchored, no text
Edited == MaxVersion + 1    \* a text that is of no version
Edition == {"bsb", "lbsb"}  \* public, from D1; licensed, the sample

VARIABLES
  built, imported, anchor, \* versions last built, begun to import, anchored
  stage,                  \* how far that import came with the verses in D1
  meta,                   \* the version of the corpus row in D1
  setting,                \* what is asked for, and whether versions only go
                          \* forward: no version is ever built again
  tree                    \* isolate -> its cached D1Corpus

published == <<built, imported, anchor, stage, meta, setting>>
citationsVars == <<published, tree, req, begun>>

\* the version of the verses in D1, all of them or the first ones
corpus == IF stage = "deleted" THEN None ELSE imported

Tree == [st : {"new", "meta", "rows", "ready", "failed"},
         root : Version \cup {None}, rows : Version \cup {None}]

NoTree(st) == [st |-> st, root |-> None, rows |-> None]

Candidate == [src : {"none", "d1", "sample"}, commit : Version \cup {None},
              included : BOOLEAN, ok : BOOLEAN]   \* ok: and signed
NoCandidate == [src |-> "none", commit |-> None, included |-> FALSE,
                ok |-> FALSE]
FromSample == [NoCandidate EXCEPT !.src = "sample", !.commit = SampleVersion]

Request ==
  [op : {"resolve", "validate", "range", "verify"},
   verse : Verse, asked : Edition \cup {"any"}, entitled : BOOLEAN,
   edited : BOOLEAN,                   \* the text is overridden
   iso : Isolate,
   pc : {"tree", "find", "anchor", "pick", "texttree", "text", "sign",
         "judge", "start", "end", "rows", "recheck", "done"},
   cand : [Edition -> Candidate],
   ed : Edition,                       \* the edition picked
   text : Version \cup {None, Edited}, \* the text delivered
   quoted : BOOLEAN,                   \* commitmentVerified
   root : Version \cup {None},         \* range: the root proofs are held to
   start : Version \cup {None},        \* range: where its first and its last
   end : Version \cup {None},          \* verse were looked up
   said : {"nothing", "cited", "validated", "gated", "rejected", "verified",
           "unverified", "failed"},
   anchors : SUBSET (Version \cup {None})]   \* since it began (history)

-----------------------------------------------------------------------------
(* The publisher *)

Build ==     \* scripts/build-corpus.ts
  /\ \E v \in Version \ {built} : (setting.forward => v > built) /\ built' = v
  /\ UNCHANGED <<imported, anchor, stage, meta, setting, tree, req, begun>>

\* The SQL it emits, run against D1: DELETE FROM verses; the corpus row (that
\* it is missing for a moment is a failure to load it); the verses, by fifties.
ImportDeletes ==
  /\ stage # "deleted" \/ imported # built
  /\ imported' = built /\ stage' = "deleted"
  /\ UNCHANGED <<built, anchor, meta, setting, tree, req, begun>>
ImportMeta ==
  /\ stage = "deleted" /\ meta # imported /\ meta' = imported
  /\ UNCHANGED <<built, imported, anchor, stage, setting, tree, req, begun>>
ImportVerses ==
  /\ meta = imported /\ stage # "whole"
  /\ stage' = IF stage = "deleted" THEN "filling" ELSE "whole"
  /\ UNCHANGED <<built, imported, anchor, meta, setting, tree, req, begun>>
Import == ImportDeletes \/ ImportMeta \/ ImportVerses

Anchor ==    \* scripts/anchor-corpus.ts
  /\ anchor # built /\ anchor' = built
  /\ req' = [t \in Slot |-> IF Active(t)
                            THEN [req[t] EXCEPT !.anchors = @ \cup {built}]
                            ELSE req[t]]
  /\ UNCHANGED <<built, imported, stage, meta, setting, tree, begun>>

-----------------------------------------------------------------------------
(* loadD1Corpus: meta, then rows; its promise is what is cached *)

LoadMeta(i) ==
  /\ tree[i].st = "meta"
  /\ \/ tree' = [tree EXCEPT ![i].st = "rows", ![i].root = meta]
     \/ tree' = [tree EXCEPT ![i] = NoTree("failed")]
  /\ UNCHANGED <<published, req, begun>>

\* a tree of some of the verses is the tree of no version
LoadRows(i) ==
  /\ tree[i].st = "rows"
  /\ \/ tree' = [tree EXCEPT ![i].st = "ready",
               ![i].rows = IF stage = "whole" THEN imported ELSE None]
     \/ tree' = [tree EXCEPT ![i] = NoTree("failed")]
  /\ UNCHANGED <<published, req, begun>>

\* the first request of an isolate starts the load, the others await it
TreeSettled(i) == tree[i].st \in {"ready", "failed"}
AwaitTree(t, pc, next) ==
  LET i == req[t].iso IN
  /\ req[t].pc = pc
  /\ \/ /\ tree[i].st = "new" /\ UNCHANGED req
        /\ tree' = [tree EXCEPT ![i].st = "meta"]
     \/ /\ TreeSettled(i) /\ UNCHANGED tree
        /\ Set(t, next)
  /\ UNCHANGED <<published, begun>>

-----------------------------------------------------------------------------
(* resolve *)

BeginRequest(t) ==
  /\ ~Active(t) /\ begun < MaxBegins /\ begun' = begun + 1
  /\ \E op \in setting.ops, v \in Verse, i \in Isolate,
        asked \in Edition \cup {"any"}, entitled, edited \in BOOLEAN :
       /\ op = "range" => asked = "bsb"
       /\ entitled => op = "resolve"   \* /trust/validate passes none on
       /\ edited => op = "validate"
       /\ Set(t, [op |-> op, verse |-> v, asked |-> asked,
                  entitled |-> entitled, edited |-> edited, iso |-> i,
                  pc |-> "tree", cand |-> [e \in Edition |-> NoCandidate],
                  ed |-> "bsb", text |-> None, quoted |-> FALSE,
                  root |-> None, start |-> None, end |-> None,
                  said |-> "nothing", anchors |-> {anchor}])
  /\ UNCHANGED <<published, tree>>

\* /tools/resolve goes on without D1 (.catch), /tools/resolve_range does not
ResolveTree(t) ==
  LET r == req[t] IN
  AwaitTree(t, "tree",
    IF r.op # "range" THEN [r EXCEPT !.pc = "find"]
    ELSE IF tree[r.iso].st = "failed" THEN Ended(r, "failed")
    ELSE [r EXCEPT !.pc = "anchor"])

Verses == {corpus} \ {None}   \* what a query for a verse may find
\* the candidates: bsb from D1, the sample of it only without D1 - a verse D1
\* fails to give is left out; lbsb from the sample
Find(t) ==
  LET r == req[t]
      sampled == IF r.verse \in Sample THEN {FromSample} ELSE {NoCandidate}
      d1 == {NoCandidate} \cup
            {[FromSample EXCEPT !.src = "d1", !.commit = v] : v \in Verses}
  IN
  /\ r.pc = "find"
  /\ \E b \in (IF tree[r.iso].st = "ready" THEN d1 ELSE sampled),
        l \in sampled :
       Set(t, [r EXCEPT !.pc = "anchor", !.cand["bsb"] = b, !.cand["lbsb"] = l])
  /\ UNCHANGED <<published, tree, begun>>

\* the root proofs are held to: the anchored one, if there is one
RootOfTree(i) == tree[i].root     \* mutant: always the root in D1
RootFor(i) == IF anchor # None THEN anchor ELSE tree[i].root
\* a proof made from the cached rows leads a committed leaf to the root
IncludedInRows(i, commit, root) == commit = tree[i].rows   \* mutant
Included(i, commit, root) == commit = tree[i].rows /\ tree[i].rows = root

\* reading the anchor and verifying each candidate; signatures may not verify
VerifyCandidates(t) ==
  LET r == req[t]
      Judged(c, sig) ==
        LET in == CASE c.src = "d1" -> Included(r.iso, c.commit, RootFor(r.iso))
                    [] c.src = "sample" -> TRUE   \* its manifest, unanchored
                    [] OTHER -> FALSE
        IN [c EXCEPT !.included = in, !.ok = in /\ sig]
  IN
  /\ r.pc = "anchor" /\ r.op # "range"
  /\ \/ \E sig \in [Edition -> BOOLEAN] :
          Set(t, [r EXCEPT !.pc = "pick",
                    !.cand = [e \in Edition |-> Judged(@[e], sig[e])]])
     \/ Fails(t)
  /\ UNCHANGED <<published, tree, begun>>

Offered(r) == {e \in Edition : r.cand[e].src # "none"}
Verified(r) == {e \in Offered(r) : r.cand[e].ok}
FirstOf(es) == IF "bsb" \in es THEN "bsb" ELSE "lbsb"
PickedAsAsked(r) ==   \* mutant: the edition asked for is taken for granted
  IF r.asked # "any" THEN r.asked ELSE FirstOf(Offered(r))
Picked(r) ==
  IF r.asked \in Offered(r) THEN r.asked
  ELSE FirstOf(IF Verified(r) # {} THEN Verified(r) ELSE Offered(r))

\* doResolve: the edition asked for, else one that verified, else the first;
\* then /tools/get_passage_text, which any isolate may serve
Pick(t) ==
  LET r == req[t] IN
  /\ r.pc = "pick"
  /\ IF Offered(r) = {} THEN Fails(t)
     ELSE \E i \in Isolate :
       Set(t, [r EXCEPT !.iso = i, !.ed = Picked(r), !.pc = "texttree"])
  /\ UNCHANGED <<published, tree, begun>>

\* a licensed text is the sample's, for who may read it; a public one is D1's
TextTree(t) ==
  LET r == req[t] IN
  IF r.ed = "bsb"
  THEN AwaitTree(t, "texttree",
         IF tree[r.iso].st = "ready" THEN [r EXCEPT !.pc = "text"]
         ELSE [r EXCEPT !.pc = "sign"])      \* no text
  ELSE /\ r.pc = "texttree"
       /\ Set(t, [r EXCEPT !.pc = "sign",
                    !.text = IF r.entitled THEN SampleVersion ELSE None,
                    !.quoted = r.entitled])
       /\ UNCHANGED <<published, tree, begun>>

\* commitmentVerified: the text against the commitment resolve returned
QuotesItself(r, text) == TRUE   \* mutant: what the text call says of itself
Quotes(r, text) == text = r.cand[r.ed].commit
GetText(t) ==
  LET r == req[t] IN
  /\ r.pc = "text"
  /\ \/ \E v \in Verses :
          Set(t, [r EXCEPT !.pc = "sign", !.text = v, !.quoted = Quotes(r, v)])
     \/ Set(t, [r EXCEPT !.pc = "sign"])     \* no verse, or the call failed
  /\ UNCHANGED <<published, tree, begun>>

\* sign_content_credential: no citation without a signature
SignCitation(t) ==
  LET r == req[t] IN
  /\ r.pc = "sign"
  /\ \/ Set(t, IF r.op = "resolve" THEN Ended(r, "cited")
               ELSE [r EXCEPT !.pc = "judge",
                       !.text = IF r.edited THEN Edited ELSE @])
     \/ Fails(t)
  /\ UNCHANGED <<published, tree, begun>>

-----------------------------------------------------------------------------
(* /trust/validate *)

\* the candidate the bundle is made of is not always the one cited
Bundled(r) ==
  LET want == IF r.asked = "any" THEN r.ed ELSE r.asked IN
  IF want \in Offered(r) THEN want ELSE FirstOf(Offered(r))

TextUnchecked(r, c) == TRUE   \* mutant: no commitmentMatchesText
TextMatches(r, c) == r.text \in {None, c.commit}

\* validateBundle: the issuer's and the agent's signature are looked at afresh
Outcome(r, signed) ==
  LET e == Bundled(r)   c == r.cand[e]
      sound == /\ c.included /\ signed /\ TextMatches(r, c)
               /\ c.commit = r.cand[r.ed].commit /\ e = r.ed
      gated == e = "lbsb" /\ r.text = None IN
  CASE ~sound \/ (e = "lbsb" /\ ~gated) -> "rejected"
    [] sound /\ gated -> "gated"
    [] OTHER -> "validated"

Validate(t) ==
  LET r == req[t] IN
  /\ r.pc = "judge"
  /\ \/ \E signed \in BOOLEAN : Set(t, Ended(r, Outcome(r, signed)))
     \/ Fails(t)
  /\ UNCHANGED <<published, tree, begun>>

-----------------------------------------------------------------------------
(* /tools/resolve_range *)

RangeRoot(t) ==
  LET r == req[t] IN
  /\ r.pc = "anchor" /\ r.op = "range"
  /\ \/ Set(t, [r EXCEPT !.pc = "start", !.root = RootFor(r.iso)])
     \/ Fails(t)
  /\ UNCHANGED <<published, tree, begun>>

RangeStart(t) ==   \* the leaf index of the first verse
  /\ req[t].pc = "start"
  /\ \/ \E v \in Verses : Set(t, [req[t] EXCEPT !.pc = "end", !.start = v])
     \/ Fails(t)
  /\ UNCHANGED <<published, tree, begun>>

RangeEnd(t) ==   \* and of the last one
  /\ req[t].pc = "end"
  /\ \/ \E v \in Verses : Set(t, [req[t] EXCEPT !.pc = "rows", !.end = v])
     \/ Fails(t)
  /\ UNCHANGED <<published, tree, begun>>

\* findD1RangeByLeaf: texts and commitments between them, each proved
RangeRows(t) ==
  LET r == req[t] IN
  /\ r.pc = "rows"
  /\ \/ \E v \in Verses :
          Set(t, [Ended(r, IF Included(r.iso, v, r.root) THEN "verified"
                           ELSE "unverified") EXCEPT !.text = v])
     \/ Fails(t)
  /\ UNCHANGED <<published, tree, begun>>

-----------------------------------------------------------------------------
(* /verify *)

\* a reader hands a citation it was given back to the agent
Present(t) ==
  LET r == req[t] IN
  /\ r.said = "cited" /\ ~Active(t) /\ begun < MaxBegins /\ begun' = begun + 1
  /\ Set(t, [r EXCEPT !.op = "verify", !.pc = "recheck", !.said = "nothing"])
  /\ UNCHANGED <<published, tree>>

\* verify_citation: the descriptor of the sample, the one for D1 is not asked
Recheck(t) ==
  LET r == req[t] IN
  /\ r.pc = "recheck"
  /\ Set(t, Ended(r, IF r.verse \in Sample
                        /\ r.cand[r.ed].commit = SampleVersion
                     THEN "verified" ELSE "unverified"))
  /\ UNCHANGED <<published, tree, begun>>

-----------------------------------------------------------------------------
IdleRequest ==
  [op |-> "resolve", verse |-> CHOOSE v \in Verse : TRUE, asked |-> "any",
   entitled |-> FALSE, edited |-> FALSE, iso |-> CHOOSE i \in Isolate : TRUE,
   pc |-> "done", cand |-> [e \in Edition |-> NoCandidate], ed |-> "bsb",
   text |-> None, quoted |-> FALSE, root |-> None, start |-> None,
   end |-> None, said |-> "nothing", anchors |-> {}]

CitationsInit ==
  /\ built = 1 /\ imported = 1 /\ stage = "whole" /\ meta = 1
  /\ anchor \in {None, 1} /\ setting \in Settings
  /\ tree = [i \in Isolate |-> NoTree("new")]
  /\ req = [t \in Slot |-> IdleRequest] /\ begun = 0

Work(t) ==
  \/ ResolveTree(t) \/ Find(t) \/ VerifyCandidates(t) \/ Pick(t)
  \/ TextTree(t) \/ GetText(t) \/ SignCitation(t) \/ Validate(t)
  \/ RangeRoot(t) \/ RangeStart(t) \/ RangeEnd(t) \/ RangeRows(t)
  \/ Recheck(t)
Load(i) == LoadMeta(i) \/ LoadRows(i)

CitationsNext ==
  \/ Build \/ Import \/ Anchor
  \/ \E i \in Isolate : Load(i)
  \/ \E t \in Slot : BeginRequest(t) \/ Present(t) \/ Work(t)

CitationsSpec == CitationsInit /\ [][CitationsNext]_citationsVars

-----------------------------------------------------------------------------
(* Properties *)

\* a version whose root was the anchored one, or that needed no anchor, at a
\* moment since the request began
Vouched(r, v) == v \in r.anchors \/ None \in r.anchors

\* Values have the shapes the code gives them, and what is cited was offered.
CitationsTypeOK ==
  /\ built \in Version /\ imported \in Version /\ meta \in Version
  /\ anchor \in Version \cup {None} /\ setting \in Settings
  /\ stage \in {"deleted", "filling", "whole"}
  /\ tree \in [Isolate -> Tree] /\ req \in [Slot -> Request]
  /\ begun \in 0..MaxBegins
  /\ \A t \in Slot : req[t].pc \in {"texttree", "text", "sign", "judge"} =>
       req[t].ed \in Offered(req[t])

\* resolve: however old or torn the cached tree, and whatever was imported
\* and anchored meanwhile, a verse of the public corpus in D1 is reported
\* verified only in a version the issuer vouched for while the request ran.
\* (A verse of the embedded sample is held to the sample's own manifest,
\* which nothing anchors: src "sample".)
VerifiedIsAnchored ==
  \A t \in Slot : LET c == req[t].cand["bsb"] IN
    c.src = "d1" /\ c.ok => Vouched(req[t], c.commit)

\* doResolve: a citation that says its commitment was verified goes out with
\* the very text it commits to, though text and commitment come from two
\* calls, perhaps of two isolates, and an import may fall in between.
QuotedIsCited ==
  \A t \in Slot : LET r == req[t] IN
    r.said = "cited" /\ r.quoted => r.text = r.cand[r.ed].commit

\* What the validator calls validated is of the public edition and carries no
\* text but the one cited - none of another version, edited or licensed - and
\* its proof leads to a root the issuer vouched for while the agent worked,
\* unless it is of the embedded sample, which is served when D1 is down and
\* whose root nothing anchors.
ValidatedIsSound ==
  \A t \in Slot : LET r == req[t]   c == r.cand["bsb"] IN
    r.said = "validated" =>
      /\ r.ed = "bsb" /\ r.text \in {None, c.commit}
      /\ c.src = "d1" => Vouched(r, c.commit)

\* resolve_range: a range all of whose verses are verified is of one version,
\* vouched for while it ran, although anchor, first verse, last verse and
\* verses are four reads and an import may be half way at each; and its ends
\* were looked up in that version, unless an old version was imported again.
RangeIsOneVersion ==
  \A t \in Slot : LET r == req[t] IN
    r.op = "range" /\ r.said = "verified" =>
      /\ Vouched(r, r.text)
      /\ setting.forward => r.start = r.text /\ r.end = r.text
=============================================================================
