---------------------------- MODULE VaultRecords ----------------------------
(***************************************************************************)
(* One owner's vault records, edited from browser tabs: the record of      *)
(* relationships, read and written back whole by relationships-store.ts,   *)
(* and the record of entitlements, held in the state of the vault page.    *)
(* Every call goes client -> impact-a2a (the presented delegation, a       *)
(* minted token) -> impact-mcp (service MAC, vault-key binding, D1).       *)
(*                                                                         *)
(* Requests interleave at every call.  In a "lossy" world calls fail,      *)
(* answers are lost after their effect, delegations are revoked and        *)
(* bindings lapse; every failure says so, by ok:false or by a fetch that   *)
(* rejects.  In a "garbled" one some do not: the gateway's csrf refusal,   *)
(* which has an error and no ok, and a body that is not JSON.              *)
(***************************************************************************)
EXTENDS Naturals

CONSTANTS
  Agent,      \* relationships, by agent
  Credential, \* entries of the entitlements record
  Slot,       \* requests that can be in flight at once
  Worlds,     \* the worlds checked
  MaxBegins   \* bound: requests ever started

ASSUME VaultConstants ==
  /\ Worlds \subseteq {"calm", "lossy", "garbled"}
  /\ Agent # {}
  /\ Credential \cap (Agent \cup [of : Agent] \cup [stewardship : Agent]) = {}
  /\ MaxBegins \in Nat

VARIABLES
  row,     \* record -> the entries it holds
  bound,   \* the binding: "none", one "narrow"er than the records, "full"
  self,    \* the owner is the person (else an org they are steward of)
  wire,    \* the delegation at hand: "none", a "live" or a "dead" one
  view,    \* the list in the vault page's state
  form,    \* its form: "closed", "open", "hidden" for want of a key
  req,     \* slot -> its request
  told,    \* entries whose save was answered ok, less those a later save
           \* takes out (history)
  begun,   \* requests started
  world,   \* which faults can happen
  alone    \* one request at a time

vars == <<row, bound, self, wire, view, form, req, told, begun, world,
          alone>>
setting == <<self, world, alone>>
page == <<view, form>>

\* What a stored relationship holds besides itself: its stewardship delegation
\* (the app writes no other grant) and an entitlement id attached to it.
Grant == [stewardship : Agent]
Link == [of : Agent]
Related == Agent \cup Grant \cup Link
Item == Related \cup Credential
Record == {"relationships", "entitlements"}
Op == {"upsert", "attach", "load", "add", "remove"}
Request ==
  [op : Op, item : Item, pc : {"present", "verify", "gate", "touch",
                               "activate", "done"},
   phase : {"read", "write"}, list : SUBSET Item,
   wired : BOOLEAN,    \* an upsert's grants.stewardship: a delegation, or null
   fresh : BOOLEAN,    \* on its second attempt, with a fresh delegation
   healed : BOOLEAN]   \* the key was activated again, the save retried

RecordOf(op) == IF op \in {"upsert", "attach"} THEN "relationships"
                ELSE "entitlements"
Active(t) == req[t].pc # "done"
Set(t, r) == req' = [req EXCEPT ![t] = r]
Faulty == world # "calm"

Idle == [op |-> "upsert", item |-> CHOOSE a \in Agent : TRUE, pc |-> "done",
         phase |-> "read", list |-> {}, wired |-> FALSE, fresh |-> FALSE,
         healed |-> FALSE]

Call(r, phase, list) ==
  [r EXCEPT !.pc = "present", !.phase = phase, !.list = list, !.fresh = FALSE]
New(op, i, wired, phase, list) ==
  Call([Idle EXCEPT !.op = op, !.item = i, !.wired = wired], phase, list)
\* recordRelationship activates the vault key and saves once more after any
\* error; the other callers report it, and the request is over.
Thrown(r) == IF r.op = "upsert" /\ ~r.healed
             THEN [r EXCEPT !.pc = "activate"] ELSE Idle

\* delegation_invalid: one more attempt, with a freshly signed delegation
Rejected(r) == IF self /\ ~r.fresh
               THEN [r EXCEPT !.pc = "present", !.fresh = TRUE] ELSE Thrown(r)

-----------------------------------------------------------------------------
(* Requests *)

Busy == \E t \in Slot : Active(t) /\ req[t].op \in {"add", "remove"}

\* The page loads when it opens and whenever the key was refreshed; its form
\* is there from the start, also while the list loads.
Begin(t) ==
  /\ ~Active(t) /\ begun < MaxBegins
  /\ alone => \A u \in Slot : ~Active(u)
  /\ \E op \in Op, i \in Item :
       \/ /\ \/ /\ op = "upsert" /\ i \in Agent
                /\ \E wired \in BOOLEAN : Set(t, New(op, i, wired, "read", {}))
             \/ /\ op = "attach" /\ i \in Link /\ ~self
                /\ Set(t, New(op, i, FALSE, "read", {}))
          /\ UNCHANGED page
       \/ /\ op = "load" /\ i \in Credential /\ bound # "none"
          /\ Set(t, New(op, i, FALSE, "read", {}))
          /\ form' = "open" /\ UNCHANGED view
       \/ /\ form = "open" /\ ~Busy
          /\ \/ op = "add" /\ i \in Credential
             \/ op = "remove" /\ i \in view
          /\ Set(t, New(op, i, FALSE, "write",
                         IF op = "add" THEN view \cup {i} ELSE view \ {i}))
          /\ UNCHANGED page
  /\ begun' = begun + 1
  /\ UNCHANGED <<row, bound, wire, told, setting>>

\* presentDelegation: the stewardship wire, or the cached self delegation,
\* or one that is signed now
Present(t) ==
  LET r == req[t]
      signs == self /\ (r.fresh \/ wire = "none") IN
  /\ r.pc = "present"
  /\ \/ /\ Set(t, [r EXCEPT !.pc = "verify"])
        /\ wire' = IF signs THEN "live" ELSE wire
     \/ Faulty /\ signs /\ Set(t, Thrown(r)) /\ UNCHANGED wire
  /\ UNCHANGED <<row, bound, page, told, begun, setting>>

\* verifyDelegation refuses a delegation that lapsed or was revoked, and any
\* whose revocation it cannot look up.
Verdicts(d) == {d = "live"} \cup (IF Faulty THEN {FALSE} ELSE {})

\* callMcpToolViaDelegation: verify, then a session and a token for the call
Verify(t) ==
  LET r == req[t] IN
  /\ r.pc = "verify"
  /\ \/ /\ TRUE \in Verdicts(wire)
        /\ \/ Set(t, [r EXCEPT !.pc = "gate"])
           \/ Faulty /\ Set(t, Thrown(r))
        /\ UNCHANGED wire
     \/ /\ FALSE \in Verdicts(wire)
        /\ Set(t, Rejected(r))
        /\ wire' = IF self /\ ~r.fresh THEN "none" ELSE wire
  /\ UNCHANGED <<row, bound, page, told, begun, setting>>

\* impact-mcp checks the MAC and the token, then the owner's binding
Gate(t) ==
  LET r == req[t] IN
  /\ r.pc = "gate"
  /\ \/ bound = "full" /\ Set(t, [r EXCEPT !.pc = "touch"]) /\ UNCHANGED page
     \/ /\ bound # "full" /\ Set(t, Thrown(r))
        /\ form' = IF r.op = "load" THEN "hidden" ELSE form
        /\ UNCHANGED view
     \/ Faulty /\ Set(t, Thrown(r)) /\ UNCHANGED page
  /\ UNCHANGED <<row, bound, wire, told, begun, setting>>

-----------------------------------------------------------------------------
(* Reading and writing back *)

\* What a save puts in, and what it takes out: an upsert carries the
\* relationship and its grants.stewardship, a delegation or a null that replaces
\* the stored one; it carries no other grant and no entitlements.
Carried(r) ==
  CASE r.op = "upsert" ->
         {r.item} \cup (IF r.wired THEN {[stewardship |-> r.item]} ELSE {})
    [] r.op = "remove" -> {}
    [] OTHER -> {r.item}
Cleared(r) ==
  CASE r.op = "upsert" -> IF r.wired THEN {} ELSE {[stewardship |-> r.item]}
    [] r.op = "remove" -> {r.item}
    [] OTHER -> {}

\* The stored relationship of r.item with {...prev, ...rel}, its grants with
\* {...prev.grants, ...rel.grants} and its entitlements, which rel leaves out.
Replaced(list, r) ==   \* mutant: the stored relationship is replaced by rel
  (list \ {[stewardship |-> r.item], [of |-> r.item]}) \cup Carried(r)
Merged(list, r) == (list \ Cleared(r)) \cup Carried(r)

\* what the caller of a read goes on with
Loaded(r, list) ==
  CASE r.op = "upsert" -> Call(r, "write", Merged(list, r))
    [] r.op = "attach" -> IF r.item.of \in list
                          THEN Call(r, "write", list \cup {r.item})
                          ELSE Idle
    [] OTHER -> Idle

\* readVaultRecord returns the record, or null when it was never written; it
\* throws on ok:false and on a lost answer.
Read(t) ==
  LET r == req[t] IN
  /\ r.pc = "touch" /\ r.phase = "read"
  /\ \/ /\ Set(t, Loaded(r, row[RecordOf(r.op)]))
        /\ view' = IF r.op = "load" THEN row[RecordOf(r.op)] ELSE view
     \/ Faulty /\ Set(t, Thrown(r)) /\ UNCHANGED view
  /\ UNCHANGED <<row, bound, wire, form, told, begun, setting>>

\* An answer without an ok, from any point of the way: refused by the gateway
\* before it looks at the delegation ({error: "csrf invalid"}), or not JSON and
\* parsed to {}.  readVaultRecord throws on ok === false only and takes it for a
\* record never written; writeVaultRecord wants ok === true and throws.
Garbled(t) ==
  LET r == req[t] IN
  /\ world = "garbled" /\ r.pc \in {"verify", "gate", "touch"}
  /\ \/ /\ r.phase = "read" /\ Set(t, Loaded(r, {}))
        /\ view' = IF r.op = "load" THEN {} ELSE view
     \/ r.phase = "write" /\ Set(t, Thrown(r)) /\ UNCHANGED view
  /\ UNCHANGED <<row, bound, wire, form, told, begun, setting>>

\* the sealed row is replaced by one upsert in D1
Stored(r) == [row EXCEPT ![RecordOf(r.op)] = r.list]

Write(t) ==
  LET r == req[t] IN
  /\ r.pc = "touch" /\ r.phase = "write"
  /\ \/ /\ row' = Stored(r) /\ Set(t, Idle)
        /\ told' = (told \ Cleared(r)) \cup Carried(r)
        /\ view' = IF r.op \in {"add", "remove"} THEN r.list ELSE view
     \/ /\ Faulty /\ row' \in {row, Stored(r)}   \* failed, or only its answer
        /\ told' = told \ Cleared(r)
        /\ Set(t, Thrown(r)) /\ UNCHANGED view
  /\ UNCHANGED <<bound, wire, form, begun, setting>>

\* activateVaultKey: provision the owner's key (the same one every time),
\* sign the authorization, bind; then the save starts over.
Activate(t) ==
  LET r == req[t] IN
  /\ r.pc = "activate"
  /\ \/ /\ bound' = "full"
        /\ Set(t, [Call(r, "read", {}) EXCEPT !.healed = TRUE])
     \/ Faulty /\ bound' \in {bound, "full"} /\ Set(t, Idle)
  /\ UNCHANGED <<row, wire, page, told, begun, setting>>

\* a delegation lapses or is revoked on chain, a binding runs out
Lapse ==
  /\ Faulty
  /\ \/ wire = "live" /\ wire' = "dead" /\ UNCHANGED bound
     \/ bound # "none" /\ bound' = "none" /\ UNCHANGED wire
  /\ UNCHANGED <<row, page, req, told, begun, setting>>

-----------------------------------------------------------------------------
Init ==
  /\ world \in Worlds /\ alone \in BOOLEAN /\ self \in BOOLEAN
  /\ row = [r \in Record |-> {}]
  /\ bound \in {"none", "narrow", "full"}
  /\ wire \in IF self THEN {"none", "live", "dead"} ELSE {"live"}
  /\ view = {} /\ form = "closed"
  /\ req = [t \in Slot |-> Idle]
  /\ told = {} /\ begun = 0

Next ==
  \/ \E t \in Slot : \/ Begin(t) \/ Present(t) \/ Verify(t) \/ Gate(t)
                     \/ Read(t) \/ Garbled(t) \/ Write(t) \/ Activate(t)
  \/ Lapse

Spec == Init /\ [][Next]_vars

-----------------------------------------------------------------------------
(* Properties *)

\* Every variable keeps its shape, and a list goes only into its own record.
TypeOK ==
  /\ row["relationships"] \subseteq Related
  /\ row["entitlements"] \subseteq Credential
  /\ row \in [Record -> SUBSET Item]
  /\ bound \in {"none", "narrow", "full"}
  /\ wire \in {"none", "live", "dead"}
  /\ view \subseteq Credential /\ form \in {"closed", "open", "hidden"}
  /\ req \in [Slot -> Request]
  /\ told \subseteq Item /\ begun \in 0..MaxBegins
  /\ self \in BOOLEAN /\ alone \in BOOLEAN
  /\ world \in Worlds

\* "A re-save never clobbers grants it doesn't carry" (relationships-store.ts:79).
\* One request at a time, and as long as a call that fails says so (an answer
\* without an ok is read as an empty record, and the next save replaces the real
\* one by it): whatever calls fail and answers get lost, and however often a save
\* is retried under a fresh delegation or a new binding, every relationship whose
\* save was answered ok is still there, with every entitlement id attached to it
\* and with its grant, unless a later save carried a null in the grant's place.
\* The page's entitlements are when, besides, no call fails.
SavedIsKept ==
  alone =>
    /\ world # "garbled" => told \cap Related \subseteq row["relationships"]
    /\ world = "calm" => told \cap Credential \subseteq row["entitlements"]
=============================================================================
