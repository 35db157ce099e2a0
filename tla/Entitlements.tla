----------------------------- MODULE Entitlements -----------------------------
(***************************************************************************)
(* Who gets plaintext out of an owner's vault: apps/impact-mcp with the    *)
(* routes of apps/impact-a2a before it.  The owner (a person, or an org    *)
(* through its steward) issues and revokes entitlements and reads its own  *)
(* sensitive records, over a presented delegation or an OAuth token;       *)
(* members read what a granted entitlement lets them.                      *)
(*                                                                         *)
(* A request looks at the delegation, the binding, the entitlements and    *)
(* the audit table one after the other, and any of them may change between *)
(* two of its looks.                                                       *)
(***************************************************************************)
EXTENDS Naturals

CONSTANTS
  Owner, Member,   \* who asks
  Id,              \* ids of entitlements, each drawn once
  Slot,            \* requests that can be in flight at once
  MaxBegins        \* bound: requests ever started

ASSUME EntitlementConstants ==
  /\ Owner \notin Member /\ Member # {} /\ Id # {} /\ MaxBegins \in Nat

VARIABLES
  status,   \* id -> "unused", "granted" or "revoked"
  actor,    \* id -> the member it was issued to
  expired,  \* ids whose valid_until has passed
  bound,    \* the owner's vault-key binding: "none", "live" or "expired"
  wire,     \* the owner's delegation is neither expired nor revoked
  audited,  \* slots whose request has its row in the audit table
  req,      \* slot -> its request
  begun,    \* requests started
  failing   \* the audit table refuses writes

entitlementsVars == <<status, actor, expired, bound, wire, audited, req,
                      begun, failing>>
entitlements == <<status, actor, expired, failing>>

Tool == {"issue_org_entitlement", "revoke_org_entitlement",
         "get_entitled_record", "get_org_sensitive", "mcp"}
Request ==
  [tool : Tool, by : Member \cup {Owner}, id : Id, to : Member,
   pc : {"verify", "write", "gate", "resolve", "kas", "audit", "read", "done"},
   said : {"nothing", "ok", "unchanged", "denied", "plaintext"},
   granted : BOOLEAN,  \* an entitlement of by's was in force, and
   keyed : BOOLEAN,    \* the binding was, and
   wired : BOOLEAN]    \* the delegation, at some time since it began (history)

InFlight(t) == req[t].pc # "done"
Set(t, r) == req' = [req EXCEPT ![t] = r]
Ended(r, said) == [r EXCEPT !.pc = "done", !.said = said]

\* loadIssuedCredentials: granted and unexpired
InForceUnread(id) == status[id] # "unused"   \* mutant: status not looked at
InForce(id) == status[id] = "granted" /\ id \notin expired
Holds(m) == \E id \in Id : InForce(id) /\ actor[id] = m

-----------------------------------------------------------------------------
(* Requests *)

\* a member who holds an entitlement that was neither revoked nor expired
Entitled(m) == \E id \in Id : /\ status[id] = "granted" /\ id \notin expired
                              /\ actor[id] = m

New(tool, by, id, m) ==
  [tool |-> tool, by |-> by, id |-> id, to |-> m,
   pc |-> IF tool = "mcp" THEN "gate" ELSE "verify", said |-> "nothing",
   granted |-> Entitled(by), keyed |-> bound = "live",
   wired |-> by # Owner \/ wire]

Begin(t) ==
  /\ ~InFlight(t) /\ begun < MaxBegins
  /\ \E tool \in Tool, id \in Id, m \in Member, by \in Member \cup {Owner} :
       /\ by \in Member <=> tool = "get_entitled_record"
       /\ tool = "issue_org_entitlement" =>
            /\ status[id] = "unused"
            /\ \A u \in Slot : InFlight(u) => req[u].id # id
       /\ tool = "revoke_org_entitlement" => status[id] # "unused"
       /\ Set(t, New(tool, by, id, m))
  /\ audited' = audited \ {t}
  /\ begun' = begun + 1
  /\ UNCHANGED <<entitlements, bound, wire>>

\* callMcpToolViaDelegation: a member signs a new delegation for each read,
\* the owner presents the stewardship grant; anything amiss is a refusal.
Verify(t) ==
  LET r == req[t] IN
  /\ r.pc = "verify"
  /\ \/ /\ r.by = Owner => wire
        /\ Set(t, [r EXCEPT !.pc = IF r.tool \in {"get_entitled_record",
                                                 "get_org_sensitive"}
                                   THEN "gate" ELSE "write"])
     \/ Set(t, Ended(r, "denied"))
  /\ UNCHANGED <<entitlements, bound, wire, audited, begun>>

\* issue: the credential is inserted; whoever is reading may now hold one
Issue(t) ==
  LET r == req[t] IN
  /\ r.pc = "write" /\ r.tool = "issue_org_entitlement"
  /\ status' = [status EXCEPT ![r.id] = "granted"]
  /\ actor' = [actor EXCEPT ![r.id] = r.to]
  /\ req' = [u \in Slot |->
               IF u = t THEN Ended(r, "ok")
               ELSE [req[u] EXCEPT !.granted = @ \/ req[u].by = r.to]]
  /\ UNCHANGED <<expired, bound, wire, audited, begun, failing>>

\* revoke: UPDATE ... WHERE status = 'granted', and the count of changed rows
Revoke(t) ==
  LET r == req[t] IN
  /\ r.pc = "write" /\ r.tool = "revoke_org_entitlement"
  /\ status' = [status EXCEPT ![r.id] = "revoked"]
  /\ Set(t, Ended(r, IF status[r.id] = "granted" THEN "ok" ELSE "unchanged"))
  /\ UNCHANGED <<actor, expired, bound, wire, audited, begun, failing>>

\* A sensitive read asks for a binding (resolvePersonVault), a member's read
\* for one that authorizes it now (authorizePersonVaultOp): no global key.
Gate(t) ==
  LET r == req[t] IN
  /\ r.pc = "gate"
  /\ \/ /\ bound \in {"live"} \cup IF r.by = Owner THEN {"expired"} ELSE {}
        /\ Set(t, [r EXCEPT !.pc = "resolve"])
     \/ Set(t, Ended(r, "denied"))   \* unbound, or the lookup failed
  /\ UNCHANGED <<entitlements, bound, wire, audited, begun>>

\* entitlementResolver: the owner's own records need no entitlement
Resolve(t) ==
  LET r == req[t] IN
  /\ r.pc = "resolve"
  /\ Set(t, IF r.by = Owner THEN [r EXCEPT !.pc = "kas"]
            ELSE IF Holds(r.by) THEN [r EXCEPT !.pc = "read"]
            ELSE Ended(r, "denied"))
  /\ UNCHANGED <<entitlements, bound, wire, audited, begun>>

\* authorizeDecrypt: a one-time grant checked at once, with the binding the
\* gate read and its expiry looked at now
Authorize(t) ==
  LET r == req[t] IN
  /\ r.pc = "kas"
  /\ \/ bound = "live" /\ Set(t, [r EXCEPT !.pc = "audit"])
     \/ Set(t, Ended(r, "denied"))
  /\ UNCHANGED <<entitlements, bound, wire, audited, begun>>

\* recordRequiredRelease: the D1 sink below it catches the error of the
\* INSERT, so a row that was not written is no refusal either.
Audit(t) ==
  /\ req[t].pc = "audit"
  /\ \/ audited' = audited \cup {t}
     \/ failing /\ UNCHANGED audited
  /\ Set(t, [req[t] EXCEPT !.pc = "read"])
  /\ UNCHANGED <<entitlements, bound, wire, begun>>

\* the row is opened, or a seed is sealed and returned; or the read fails
Read(t) ==
  /\ req[t].pc = "read"
  /\ \E said \in {"plaintext", "denied"} : Set(t, Ended(req[t], said))
  /\ UNCHANGED <<entitlements, bound, wire, audited, begun>>

-----------------------------------------------------------------------------
(* The world around *)

Expire == /\ \E id \in Id : status[id] # "unused" /\ expired' = expired \cup {id}
          /\ UNCHANGED <<status, actor, bound, wire, audited, req, begun,
                         failing>>
Withdraw ==   \* revokeDelegation, or its validity ends
  wire /\ wire' = FALSE /\ UNCHANGED <<entitlements, bound, audited, req, begun>>
RunOut ==     \* expires_at of the binding passes
  /\ bound = "live" /\ bound' = "expired"
  /\ UNCHANGED <<entitlements, wire, audited, req, begun>>
\* /custody/vault-key/bind: an authorization the owner signed, stored anew
Bind ==
  /\ bound # "live" /\ bound' = "live"
  /\ req' = [t \in Slot |-> [req[t] EXCEPT !.keyed = TRUE]]
  /\ UNCHANGED <<entitlements, wire, audited, begun>>

-----------------------------------------------------------------------------
EntitlementsInit ==
  /\ status = [id \in Id |-> "unused"]
  /\ actor \in [Id -> {CHOOSE m \in Member : TRUE}]
  /\ expired = {} /\ bound \in {"none", "live", "expired"} /\ wire = TRUE
  /\ audited = {} /\ failing \in BOOLEAN
  /\ req = [t \in Slot |->
              [tool |-> "mcp", by |-> Owner, id |-> CHOOSE i \in Id : TRUE,
               to |-> CHOOSE m \in Member : TRUE, pc |-> "done",
               said |-> "nothing", granted |-> FALSE, keyed |-> FALSE,
               wired |-> FALSE]]
  /\ begun = 0

EntitlementsNext ==
  \/ \E t \in Slot : \/ Begin(t) \/ Verify(t) \/ Issue(t) \/ Revoke(t)
                     \/ Gate(t) \/ Resolve(t) \/ Authorize(t) \/ Audit(t)
                     \/ Read(t)
  \/ Expire \/ Withdraw \/ RunOut \/ Bind

EntitlementsSpec == EntitlementsInit /\ [][EntitlementsNext]_entitlementsVars

-----------------------------------------------------------------------------
(* Properties *)

\* Every variable keeps its shape.
EntitlementsTypeOK ==
  /\ status \in [Id -> {"unused", "granted", "revoked"}]
  /\ actor \in [Id -> Member] /\ expired \subseteq Id
  /\ bound \in {"none", "live", "expired"} /\ wire \in BOOLEAN
  /\ audited \subseteq Slot /\ failing \in BOOLEAN
  /\ req \in [Slot -> Request] /\ begun \in 0..MaxBegins

\* Whatever the owner withdraws is withdrawn for every request that starts
\* afterwards: plaintext goes out only if, at some time since the request
\* began, the vault-key binding was live, a delegation of the owner's (on the
\* routes that present one) was, and, for another reader, an entitlement.
\* The owner's own sensitive reads leave an audit row first, unless the audit
\* table refuses it.
NothingReleasedLate ==
  \A t \in Slot : LET r == req[t] IN
    r.said = "plaintext" =>
      /\ r.keyed
      /\ r.tool # "mcp" => r.wired
      /\ r.by # Owner => r.granted
      /\ r.by = Owner /\ ~failing => t \in audited
=============================================================================
