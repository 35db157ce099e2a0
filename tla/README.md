# Verification of the verifiable-content demo

TLA+ models of the repository's stateful core, the TLC runs that check them on small instances and
the TLAPS proofs that hold for every value of the constants. Paths below are relative to the
repository root; *MCP* is `apps/demo-bible-mcp/src/index.ts`, *A2A* is
`apps/demo-bible-a2a/src/index.ts` and *AI* is `apps/impact-a2a/src/index.ts`.

| module | models | proofs |
| --- | --- | --- |
| `PassLedger`, `PassPromise` | prepaid passes and the reads that spend them | `Passes_proofs` |
| `SubscriptionLedger` | subscriptions: subscribe, renew, cancel, metered read | `Access_proofs` |
| `SettlementLane`, `SettlementPromise` | how an on-chain settlement becomes a pass, a subscription or a period | `SettlementLane_proofs` |
| `Grants` | the entitlement ledger of a licensed edition, its owner's console, its two gates, and who owns the service | `Grants_proofs` |
| `SignIn` | every single-use ticket of a sign-in, and the list of agents of a credential | `SignIn_proofs` |
| `Homes` | sign-up, naming and use of smart accounts by tabs over the relays | `Homes_proofs` |
| `VaultRecords` | the read-modify-write of a person's sealed records through the vault | `VaultRecords_proofs` |
| `Entitlements` | what an owner's vault releases to whom, while what allows it comes and goes | `Access_proofs` |
| `Calls` | what the next two share: calls of a corpus worker by slots, each served by one isolate | |
| `ContentSigners` | which keys may sign content: the ceremony, the signed credential, the trust context an isolate caches | `CorpusTrust_proofs` |
| `Citations` | from a verse to a validated citation, over a corpus that is built, imported and anchored anew | `CorpusTrust_proofs` |
| `Purchase` | signing in and buying as one browser sees it: windows, popups, storage, the home's ceremony and the claim | `Passes_proofs` |
| `MC...` | the same for TLC: symmetry over the model values of a cfg | |

## 1. The system

The demo is a set of Cloudflare workers and two web clients. A *person* signs in at the home
(`apps/impact`), which deploys smart accounts for them on a chain through the relays of
`apps/impact-a2a` and keeps their sealed records in `apps/impact-mcp`. A *reader* asks the Scripture
Agent (`apps/demo-bible-a2a`) for passages, and the agent calls the corpus MCP
(`apps/demo-bible-mcp`), which owns the corpora and a D1 database. A licensed edition is read under
one of three lanes, tried in this order by `get_passage_text`: a **grant** (a signed entitlement
approved by the corpus owner in `apps/demo-corpus`), a **subscription** (billed per period, with a
fair-use cap), and a **prepaid pass** (N reads). A pass, a subscription or a further period is bought
by a transfer on the chain, of which the client presents the transaction hash.

Nothing in these workers is transactional across statements. A D1 statement or a KV call is atomic;
between two of them, between two calls of one worker to another, and between two calls of a page to a
worker, any other request may run, and a request may stop for good (an exception, an evicted isolate, a
closed tab). Pages share storage with each other in the same way. That is the concurrency and the failure model of every module here.

### Inventory

| component | state | hard behaviour | what makes it correct | module |
| --- | --- | --- | --- | --- |
| prepaid ledger (MCP 544-555, 744-776; `sql/payments.sql`) | `prepaid_entitlements` | meter is read, computed in the worker, written by id | every use on the meter is a read delivered, about to be, or lost with its request; status and meter agree | `PassLedger` |
| subscription ledger (MCP 530-543, 779-865) | `subscriptions` | three read-modify-writes of one row; supersede and insert are two statements | windows, periods and cap accounted for; cancel is final; one active row | `SubscriptionLedger` |
| settlement lane (A2A 151-189, 203-437, 536-559; `a2a/payment.ts`; MCP 690-708) | `payments_settled`, the chain | check, record and credit are separate calls to another worker; failures between them | one settlement, one credit; nothing given that was not paid for | `SettlementLane` |
| entitlement ledger (MCP 507-525, 576-689, 1120-1150) and owner console (`demo-corpus` 66-119) | `entitlement_requests`, `entitlements_issued` | the pending check is a call of its own; the two gates ask different questions of the ledger | one decision per request; a gate that opens saw a row in force | `Grants` |
| service ownership (MCP 1077-1117) | `service_identity` | owner read, name resolution awaited, then written | the agent the name resolves to is not displaced | `Grants` |
| single-use stores (`impact-a2a/src/bridge-hmac.ts`, AI 1094-1154, `impact-mcp/src/db.ts` 34-49, `AUTH_CODES` of the home) | nonces, codes, states, usage counters | lookup and record apart in KV, one statement in D1 | what was used is not used again; a session is for the audience it was begun for | `SignIn` |
| facet index (`apps/impact/src/lib/kv-indexer.ts`) | agents of a credential | get and put apart | the list only grows | `SignIn` |
| relays (AI 1248-1950, 1997-2640) | the chain's accounts, nonces and names | a nonce is read through a replica, an answer is lost after the operation was taken, a batch reverts | no orphan name, no name told that is not owned, no effect twice without a lost answer | `Homes` |
| home client flows (`src/lib/connect.ts`, `server/connect`) | what a tab was told | two tabs, retries, a label taken meanwhile | every flow ends; what is recorded is approved | `Homes` |
| records of the vault (`src/lib/access.ts`, `relationships-store.ts`, vault page; AI 3437-3750; `impact-mcp` get/set) | one sealed row per record | a list is read, edited in the page, written whole; some failed reads look like an empty record | what was answered saved is kept, its grant and entitlement ids too | `VaultRecords` |
| person vault: bindings, delegations, entitlements, KAS (`impact-mcp`) | `vault_key_bindings`, `entitlements`, audit rows | four checks at four moments of one request | plaintext only on what was in force since the request began | `Entitlements` |
| content signers (`demo-bible-mcp/src/lib/trust-context.ts`, MCP 985-1030) | `content_signers`, the trust context and the corpora each isolate caches | a leaf is verified, then stored by an upsert; a context is built once, failures included, while names and leaves move on | what is verified or stored was accepted while the request ran, what is signed is under a leaf stored for the name; one bad issuer takes no other down | `ContentSigners` |
| corpora, citations and validator (`editions/`, MCP 287-480, 1150-1175; A2A 568-640, 705-817; `demo-validator/src/validate.ts`) | D1 corpus, anchored root, the tree each isolate caches | commitment, text and signature are three calls, perhaps of two isolates; versions change in between, by imports of many statements; meta and rows are two queries | nothing of one version is vouched for by the proof, text or anchor of another | `Citations` |
| browser: Explorer and home (`demo-bible-ontology/src/ui.ts` 309-319, 434-508, 563-637; `AuthorizeCeremony.tsx`, `enroll.ts`, `session.tsx`, `app/page.tsx` of the home) | two origins' localStorage and sessionStorage, what each window shows | a popup is reused, reloaded, closed; a stash outlives its request, and Back finds its URL; a session is written back after a wait | a claim is the purchase that was charged; a session was asked for; no charge is lost or repeated while nothing fails | `Purchase` |

Not every component is modelled; section 6 says which are not, and why.

### Plan and order of work

The money came first (`PassLedger`, `SubscriptionLedger`, `SettlementLane`), since a wrong ledger row costs
a reader or the publisher something; then what opens a text without money (`Grants`), what everything
rests on (`SignIn`, `Homes`), the person's own data (`VaultRecords`, `Entitlements`), what the content is
worth (`ContentSigners`, `Citations`), and last the composition that a person sees (`Purchase`). The two
abstract specifications are `PassPromise` and `SettlementPromise`; the other modules keep history
variables instead, since what they promise is about the past of one request.
Every module has its proofs; what is left of the plan are the parts of section 6.

## 2. The modules

### PassLedger

`passes` is the table by id, `nPasses` its AUTOINCREMENT counter, `reader` the spending requests in flight. A
request is `Begin` (captures `now`, MCP 529), `SelectPass` or `NoPass` (the SELECT of MCP 546 or 761, the oldest
spendable row), `UpdatePass` (the new meter and status computed from the *selected* row and written by id) and
`Answer`, with which the reader has the read. `Mint` is `mint_prepaid`. `consume_prepaid` and the prepaid lane
of `get_passage_text` are the same two statements, so one request stands for both. `Fail` drops a request at any
point. History, per row: `charged`, the UPDATEs that wrote its meter; `delivered`, the reads that were answered;
`lost`, the requests that died between the two. `Accounted` is what was delivered, is about to be, or was lost.
`PassPromise` is the abstract specification: sell a pass once, deliver at most what was sold; its `spent` is
`delivered`. `alone`, chosen in `Init` and never changed, is the world in which a request begins only when no
other is in flight; there the meter is exact and the promise is kept. Both worlds are in the one run and in the
one proof.

Not in the model: the `record` and `settlement_hash` columns (written, never read by these
handlers), `revoked` (no code writes it), the sum of reads left that is returned for display.

### SubscriptionLedger

`subs` is the table, with the columns the handlers read. `RecordSupersede`/`RecordInsert` are the two
statements of `record_subscription`; `RenewSelect`/`RenewUpdate` those of `renew_subscription`, whose
base is the later of the selected end and a clock read at any time since (MCP 828);
`ReadSelect`/`ReadUpdate` the metered read; `Cancel` is one statement. Every UPDATE writes values
computed from the selected row, by id, without a condition on status. History: `renewals`, `granted`,
`inPeriod` count what was settled and let through per row. `periodStart`/`periodEnd` overrides of
`record_subscription` are not modelled: no caller in the repository passes them. In the worlds where
`alone` holds there is at most one request of each kind; a read, a renewal and a subscribe still
interleave with each other.

### SettlementLane

A request is `[lane, item, tier, row, rest]` with a program counter. The handlers of all five lanes go
`verify -> check -> record -> credit`; `resolve` (the 402 of `/resolve-licensed`) and `vault` (the 402 of the
graph routes, `/vault/*`) credit a pass, `renew` begins with `get_subscription`, a subscription credit has
the two statements of `record_subscription`, a period the two of `renew_subscription`, and a collection
repeats the steps for each item with a `try/catch` of its own (`ItemFails`). `Die` ends the whole
request. `paid` is the chain (external: what `verifyLbsbPayment` reads), `rows[h]` the rows recorded for
a hash, `latest` and `holder` what the lane sees of the subscriptions table. `credits` and `given` are
history. `TierAmount` is `LBSB_TIERS`. `SettlementPromise` is the abstract specification: a transfer is
mined once, and if it reaches the price redeemed at most `Copies` times, where `Copies` is the number of
requests that can be in flight at once. With one worker that is the promise the documentation makes (one
settlement, one credit); with more it says exactly how far the unguarded check can be wrong.

A hash stands for the text a client presents: the code compares it as text, so two spellings of one
hash are two elements of `Hash` to the ledger. Identity tokens and the owner gate are taken as passed;
the model never needs *who* presents a hash. `Verify` may fail on a mined transfer too (the 8 s timeout).

### Grants

One licensed edition, its ledger of rows and requests, the owner's console and both gates. A console
call is the owner gate, then the statements of its tool, each a step: `approve` lists the pending
requests, inserts a row, marks the request; `deny` marks; `revoke` marks the row; `claim` reads the
owner, resolves the corpus's name and writes. `verify_access` asks for the latest *granted* row,
`get_passage_text` for the latest row of any status and, finding none that denies, for the credential it
was handed. `Repoint` (external) is the name changing hands. `alone` is the world in which console calls
take turns and none fails: `OneDecision` and `CanonicalStays` are claimed for it only, `LedgerDecides`
for every interleaving.

### SignIn

A ticket is one single-use thing a sign-in hands out: the `state`, code, nonce and grant records of
`AUTH_CODES`, a bridge envelope, a SIWE message, a counted delegation token. A request takes it the way the code
does: `get, delete, judge` for the records of `AUTH_CODES`, `look, judge, mark` for the two nonce stores (an
envelope is held to the clock first and looked up in a call of its own, `Seen`), one `INSERT .. ON CONFLICT`
with a count for the token. Any app presents any ticket any number of times, while the clock moves and records
lapse. `NoLateUse` is what single use means for stores that look and mark apart: a request that began after a
use was *complete* never gets through. Two things are left out of the claim (`late`) because the code does not
ensure them: a SIWE message presented after its nonce record has lapsed (nothing in the handler tells how old a
message is), and an envelope whose record lapses while the clock moves between the two looks of one request. A
token with `Limit = 1` also stands for the nonce of a service MAC (impact-mcp 452-464), which the same counter
guards. `ReadLinks`/`Append_` are the get and the put of the facet index. `HomeOf` is a constant: the rotation
that `callback.ts` 158 reads is moved only by `bumpRotation` (`kv-indexer.ts` 89), which nothing in the
repository calls.

### Homes

A request is one run of a flow by one tab: the sign-ins `passkey`, `wallet`, `social` and `later`, the
makers `treasury` and `agent`, `nameAgent`, and the uses of an account `act` and `direct`. Its `pc` goes
through `login`, `guard`, `look`, `reverse`, `pick`, `build`, `submit`, `again` and `record` as the flow's
code does. The chain (external) holds each account's nonce, code, names and approvals; an operation that
it takes uses up its nonce even when the batch inside reverts, and a batch takes effect whole or not at
all. In the world `calm` no replica is stale, no answer is lost and an account is used by one tab;
`NoDoomedOperation` and `NamelessOnlyIfTaken` are claimed for it only.

### VaultRecords

The `relationships` record (each `upsert` or `attach` reads the list, edits it and writes it whole) and
the page's `entitlements` record (loaded once, edited in the page, written whole). A stored relationship
is its agent, its `grants.stewardship` and the entitlement ids attached to it: `Merged` is
`upsertRelationship`, which keeps the stored ids and takes the grants of the new value over the stored
ones. `saveRelatedAgent` always carries `stewardship`, a delegation or an explicit `null`, and no other
grant, so an upsert either puts a grant in (`Carried`) or takes one out (`Cleared`). A vault call is
present, verify, gate, touch; a refused delegation is minted again and the call repeated once; an unbound
key is activated. Three worlds: `calm`; `lossy`, where calls fail and say so, and answers get lost; and
`garbled`, where an answer has no `ok` (the gateway's 403 of a bad csrf token, a body that is not JSON),
which `readVaultRecord` takes for a record never written (`Garbled`). `told` is history: what the person
was told is saved, less what a later save takes out. `alone` is the world in which the person's requests do
not overlap.

### Entitlements

Issue, revoke, `get_entitled_record`, `get_org_sensitive` and a plain vault read. A request verifies the
delegation, resolves the entitlement, asks the KAS for the key, writes the audit row and reads the
record, while entitlements are revoked or expire, bindings are withdrawn and delegations lapse. The
history `granted`, `keyed`, `wired` keeps, per request, which of the three has been in force at every
moment since it began to be used.

### Calls

What `ContentSigners` and `Citations` share: `req`, the call in each slot, `begun`, and how a call ends or
fails. Both EXTEND it; a slot is a call to a corpus worker and not any worker's own memory.

### ContentSigners

`sa` (names), `ok` (leaves an account's ERC-1271 accepts) and `row` (the table) move by themselves a
bounded number of times. A call is the ceremony (build the leaf, judge it against name and account,
upsert), a credential signature (resolve the name, read the row, compare account and key, sign) or a read
(await this isolate's context and corpora, verify a descriptor under the cached leaf, asking the account
again). The context is built issuer by issuer: an issuer that is not configured is skipped, a lookup that
*throws* makes the whole build a rejected promise, and that promise is what is cached. The history
`auth`, `sas`, `stored` keeps, per call, what was authorised at any moment since it began; `ever` the leaves
that were ever accepted. `Authorised` claims three different things: a leaf was *verified* or *stored* only if
its account accepted it while the call ran; a credential is *signed* under a leaf that was stored for the
name, of the name's account and of its key while the call ran, and accepted at some time. The signer does
not ask the account, so no more is claimed of it. Not modelled:
the `dev` and on-chain trust modes, which have no stored leaves.

### Citations

`built`, `imported` and `anchor` are the versions the publisher's three scripts have last worked on. An import
is the SQL it emits, statement by statement: `ImportDeletes` the verses, `ImportMeta`, and `ImportVerses` by
batches, so that D1 holds none of them, some (`stage = "filling"`) or all; it can be stopped half way, and the
next one may be of any version. `setting` says what a behaviour asks for and whether versions only go forward. A
verse differs in every version and a root is the version of its tree, so a comparison of hashes is a comparison
of versions. An isolate loads its tree in two queries (meta, then rows) and keeps it, also when an import fell
in between or the load failed. `resolve` finds the verse and verifies each candidate against the anchored root;
`doResolve` picks an edition, fetches text in a second call, signs the citation in a third, each served by any
isolate; `validate` bundles the answer and runs the validator's checks; `range` reads root, first verse, last
verse and verses one after the other; `verify` presents a citation again. The licensed edition is the sample
embedded in the Worker and needs no anchor. Whether a signature verifies is any answer here: that is
`ContentSigners`' subject.

### Purchase

A window is a tab or its popup. Its page is closed, the Explorer, the home, the identity provider or the logout
bounce; windows share `sa.session`, `sa.paypend` and the home's session, and keep `sa.pending` and the stashed
request for themselves (a popup starts with a copy of its opener's). A *request* is one `connectStart` or
`connectStartPay`; a *run* is one authorization begun at the home for it, perhaps charged, perhaps turned into a
code. The actions are the handlers: `Connect`, `Buy`, `Disconnect`; the picker, the social round trip, the
approval; `Charge`/`Granted`, `Submit`, `Throw` for the awaits of `authorize` and its catch; `Deliver`, `Deny`;
`Token` and `Claim` for the awaits of `exchangePayCode` and `connectCallback`; `Reload`, `Visit`, `Back`,
`Leave` for what a person does to a window. `past` is a window's history: the home is left by `location.href`,
so its URL stays there with its request, and `Back` shows it. `trouble` counts everything that is not calm:
failures, lapsed sessions and stashes, reloads, departures, the browser's Back, a disconnect, a purchase begun
while another one's popup still has `sa.paypend`, and one that sends an open popup away from the request it
shows. `trouble = 0` is the calm world of `NothingLost`; the other three properties hold whatever happens.
Abstracted: people are nameless and their homes deployed (so there is one home origin, and
`markDeployed`/`markNamed` change nothing); what the servers do with a call is `SignIn`, `Homes`, `Grants` and
`SettlementLane`, so here a call succeeds, fails, or succeeds and its answer is lost; the content-signer and
collect ceremonies go through `ContentSigners` and `SettlementLane` and are not part of this one.

## 3. The runs

Deadlock checking is off in every run: each model stops when its bounded requests are used up and no
client comes back, which the system may do.

| run | question | shows |
| --- | --- | --- |
| `Pass` | two reads at a time over two passes of two accounts, failures; and the worlds where requests take turns | status and meter agree, no use on the meter is of a read that was neither delivered, about to be, nor lost with its request; in turns the meter is exactly these and `PassPromise` is kept |
| `Sub` | two subscribes, two renewals, two reads and cancels interleave; and one request of each kind at a time | windows, billing, cap, cancellation; in turns every renewal is counted, the cap holds per period, one row is active |
| `Settle` | three requests of five lanes on two workers, two hashes, failures, cancellations | credits backed and covered, no latecomers, at most one credit per request in flight; every request ends |
| `SettleTwice` | "One row per on-chain settlement" | violated: both requests pass the check first |
| `Grants` | two console calls, claims and both gates interleave | one decision per request, shut gates, a canonical owner who stays |
| `SignIn` | two tickets of any kind, presented by two apps again and again | no late use, sessions bound to their audience, a list that only grows |
| `Homes` | two tabs sign in, deploy, name and use accounts | names, effects and records true to what was told; every flow ends |
| `VaultRecords` | two requests over two records, three fault models | what was answered saved is kept, with its grant and entitlement ids |
| `Entitlements` | two requests over two members, while grants come and go | no release on what was not in force since the request began |
| `ContentSigners` | ceremonies, signatures and reads while names, leaves and the table move | what is verified or stored was accepted since the request began, what is signed is under a leaf stored for the name and accepted once; one issuer takes no other down |
| `Citations` | a verse resolved, quoted, cited and validated by two isolates while versions are published, or an old one again | no version is vouched for by another's tree, text or anchor |
| `Purchase` | two tabs with their popups sign in and buy, with up to two troubles | a claim is a purchase that was charged, once; a session was signed in to; in calm no charge is lost or repeated; only Back shows an answered request again |

**Bounds and why they are enough.** Every hazard listed for these handlers is between two requests, so two slots
of each kind show it. In the ledgers: two passes are needed for "the oldest spendable" to matter, two uses for
the last read to differ from the first, two readers for rows to be confused; two ticks with a period of one let
a renewal come early, on time and late. A collection has up to two items, so a failing item has one after it.
Amounts lie one below the price, at it, at the larger bundle and at the subscription. `Grants` has two readers,
one request record and two rows, so that a second row can be put beside a first; `SignIn` has two tickets, two
apps and a clock of four moments with a freshness of one, so that a lapse, a use and a second presentation fall
in every order; `SiweKeep` is one, less than an envelope's two, so that a SIWE message outlives its record.
`Homes` has two labels and one account per kind, so that a label can be lost to the other tab and the next
candidate taken; two attempts and two resends. `VaultRecords` and `Entitlements` have two of everything and
three begins, so that a third request sees what two that overlapped have left. `ContentSigners` has two names,
accounts and keys and one isolate: a context serves all names, so that two isolates are two independent copies;
three calls, two of them at once, and two moves of the world let a name move and move back around a look.
`Citations` has two isolates (a commitment from one, a text from the other), two verses, one of which is also in
the sample, and two versions, the fewest of which one can be stale; one request at a time suffices, since
requests share only the trees that isolates cache, and an earlier request fills those. Its `Settings` are one
kind of request at a time, and versions that only go forward except for ranges; resolves and validations over
old versions imported again are left to the proof, which covers every setting. `Purchase` has one person (no
property tells persons apart, and sessions are known by their runs), two tabs with a popup each, three requests
and four runs (the sign-in before the model starts, and two purchases, one of them authorized again after Back),
and two troubles: every listed hazard takes one, and the second shows what is left afterwards. It starts in a
browser somebody has signed in with, a tab possibly open since before that. `MaxReads`, `MaxRenewals`,
`MaxRequests`, `MaxRuns`, `MaxPasses`, `MaxSubs`, `MaxNow`, `MaxVersion`, `MaxChanges`, `MaxTrouble` and
`MaxBegins` bound the histories and nothing else; the proofs do without values for them. Where a type says no
more than that, it is proved and not part of the run; three types say more: `PurchaseTypeOK` that only people
claim, and only tiers; `CitationsTypeOK` that a find is of an edition that was offered; the `TypeOK` of
`ContentSigners` that no context is ready without a signer.

**Fairness.** Two specifications have any. `SettlementLane!FairSpec`: weak fairness of `Step(w)` for each
worker; a request that was handed to a worker keeps running until it answers, throws or is evicted; the
runtime schedules it, and every call it awaits returns or fails (the RPC call has its own 8 s timeout,
A2A `payment.ts`:67). `Homes!FairSpec`: weak fairness of `Step(t)` for each tab, for the same reason (a
`fetch` resolves or rejects; the loops of `connect.ts` count their attempts). No fairness is assumed of
clients, of the chain, of failures, or of a person beginning or leaving a flow.

## 4. The proofs

All proofs are for any sets of accounts, readers, workers, hashes, tabs, apps, slots and any bounds, from the
named assumptions on the constants only (`PassConstants`, `SubscriptionConstants`, `LaneConstants`,
`GrantConstants`, `SignInConstants`, `HomesConstants`, `VaultConstants`, `EntitlementConstants`,
`CallsConstants`, `SignerConstants`, `CitationConstants`, `PurchaseConstants`). Few of them are more than types:
the accounts that social and direct sign-ups draw are apart from the others, because an address is a hash of its
salt (`HomesConstants`); there is an isolate, a name and a verse (the worker is deployed, an issuer and an
edition configured). The proof modules join components that share nothing: `Access_proofs` has `Entitlements`
and `SubscriptionLedger`, `CorpusTrust_proofs` has `ContentSigners` and `Citations`, `Passes_proofs` has
`Purchase` and `PassLedger`. What holds only when requests take turns is stated under the state variable `alone`
and not under an assumption, so one theorem covers both worlds.

- **PassLedger.** `StatusMatchesMeter` is not inductive: a request may hold a meter older than the row's.
  `SelectionsHold` says what is still true of it (the row exists, its size is the selected one, the
  selected meter is below the size and not above the UPDATEs so far). `LedgerInv` = type, selections, status
  and meter against the UPDATEs is inductive; one lemma per action. That the UPDATEs are the reads delivered,
  about to be and lost (`ChargesAccounted`) is an invariant of its own, over the cardinality of `Answering`.
  Where `alone` holds, `SelectionsFresh` (the selected meter is the row's) strengthens `LedgerInv` to
  `SerialInv`, which gives the exact meter; with `ChargesAccounted` this is `MeterTrueHolds`, and the
  refinement of `PassPromise` (`SerialKeepsPromise`): `Mint` is `Sell`, `Answer` is `Spend`, the rest stutters.
- **SubscriptionLedger.** A renewal carries an end, a count and a start time read earlier.
  `RenewalsHold` relates them to the row's creation and to the clock so that the window written is again
  accounted for; `ReadsHold` does the same for the meter. `LedgerInv` is inductive; `CanceledForGood`
  follows from the type and each action's assignments. `AloneInv` adds, where `alone` holds, that a
  renewal in flight still knows the row's count (`Billing`), that the meter selected counts every read of
  the period (`Metering`), and that an insertion in flight has superseded every active row of its account
  (`Recording`): `PeriodsAlwaysTrue`, `CapAlwaysKept` and `OneActiveHolds` follow.
- **SettlementLane.** `CreditsBacked` counts with `Crediting(h)`, the requests that have recorded and owe
  a credit: a `Record` adds a row and a debtor, a credit pays one, a failure only loses one. `RowsBounded`
  counts `Recording(h)` the same way: once a row exists nobody enters the set. Both rest on cardinality
  lemmas for adding and removing one worker. `CreditCovered` needs what was paid for the hash in flight.
  `LaneKeepsPromise` combines them: a step that credits `h` has a debtor, so credits stay below rows, and
  rows do not exceed the number of workers, which is `Copies` of `SettlementPromise`.
- **Grants.** `GateInv` says what a call in flight still knows: the row it placed exists (`Placed`), the
  status it noted was the ledger's at some moment since it began (`Noted`, `Sound`). `DecisionInv` adds,
  when console calls take turns, that there is one console call (`OneConsole`), what each request's state
  says about its rows (`Decided`) and what the call in flight relies on (`Relies`).
- **SignIn.** `TicketInv` is the type, `Tied(i)` (the record of a ticket and its history agree) and
  `Fits(req)` (what a request holds of the ticket it took, and when; between the two looks, the clock it
  read). `FacetInv` says that, when sign-ins
  of a credential take turns, the list read is still the stored one.
- **Homes.** `HomesInv` is the type, `NoOrphanName`, `RecordedIsApproved` and `Good(req)`: what a tab was
  told or did is still so. It is kept because the chain never takes a label, an account's code or an
  approval back (`Grows`), whatever the other tabs do. `NoDoomedOperation` and `NamelessOnlyIfTaken` speak
  of a person who works alone while nothing fails, and compare an operation with what was read before it:
  `CalmInv` keeps the shape of each flow (`Shaped`), what a flow knows of its own account at each step
  (`Informed`: its code, its nonce, that it has no name), that no two flows then work on one account
  (`Alone`), that an account not yet drawn has no code, and that a person told no name was beaten to it
  (`Answered`). Another tab's step is about another account (`ChangesOnly`), so `KnowsKept` carries all of
  it over, and only the step's own flow is left to each action's lemma.
- **VaultRecords.** `KeptInv`: when requests do not overlap, the list a request is about to write carries
  everything that was told saved, and so does the page's list while its form can be used. What a list
  carries is said of the merge (`Bears`): the agent, its ids, and its grant unless this save clears it.
- **Entitlements.** `ReleaseInv` follows one request through `Started`, `Reached` and `Backed`: what it
  has passed was in force at a moment not before its start.
- **ContentSigners.** A call reads name, leaf, row and account at different moments and keeps the history of
  what each was since it began. `CallNow` says that the history includes the world of now, and holds because
  every move of the world is `Witnessed` by the calls under way; `CallKnown` says which find is in which history
  when a call has come to a step, and stays true because histories only grow. `EverInv` stands beside it: every
  stored leaf, and every one a call holds past its judgement, was accepted once. `Authorised` follows at the end
  of the call. `BuildKnown` is about a context: an issuer in order since the build began is still to be looked
  at, is being looked at with the leaf that will do, or has been taken in, unless a call failed; so a context
  that ends without a signer had a fault or no such issuer (`Resilient`).
- **Citations.** The same argument: the anchor of now is in a request's history (`InWorld`), what a
  candidate was verified against is in it (`CandidatesKnown`), and `StepsKnown` carries that to the answer.
  Half an import needs nothing more: a tree of some of the verses is the tree of no version, and no proof of
  it leads to a root. The order of versions does the rest for the ends of ranges (`Ordered`, where versions go
  forward): a cached tree is not newer than the ends that are looked up afterwards, nor those than the verses
  read last; a proof succeeds only if the verses are of the tree's version, and then all are of one.
- **Purchase.** None of its properties is inductive: a claim is right because of what the window carried
  when it claimed, and that because of what it was given at the home. `PageShaped` ties a page's place, step,
  request and authorization together; `PageBooked`, `RunsBooked` and `ClaimBooked` tie them to what was
  asked, begun, traded and claimed; `RunsApart` says that an authorization is in one window at most and is
  claimed once at most, which survives a reload in the middle because a code in a second trade is spent.
  `AnsweredIsOver` needs more than what windows show: `MayShow(w, r)` is what a window shows or may take from
  its stash, and `RequestsApart` says that only one window may show a request and that it is not answered;
  `HistoriesApart` says the same of
  the windows' histories, so `Back` shows no request that another window has. That is so although a popup
  starts with a copy of its opener's stash, since a popup always has its request in its URL, and the copy is
  never looked at. `AllInCalm` is the invariant of the calm world: each request is in one window, which still
  has its cell, every authorization is the only one of its request, and every charge is claimed or carried.
  The lemmas are by kind of step: `QuietStep` (a window turns to another page), `AskStep` (a request is
  asked), `BegunStep` (an authorization begins) and `WorkStep` (one goes on or ends), and one lemma per action
  says which of them it is. The attempt to prove `NothingLost` found a case the run is too small for: with a
  fourth request, a purchase can send away a popup that carries the charge of another one, without any of
  what then counted as trouble. TLC confirmed it with that bound. Like the other overlaps it is now a trouble
  (section 5), and with that the property is proved for any number of requests.

**Only model-checked:** `SettlementLane!Finishes` and `Homes!Finishes` (liveness under fairness). Liveness,
ENABLED, induction over data and RECURSIVE operators are beyond what the installed provers accept. **Not
claimed:** anything about real time beyond the order of clock readings, and the D1 or KV stores' own consistency
(statements are taken as atomic and immediately visible; Workers KV is in fact eventually consistent).

## 5. Disagreements met

`SettleTwice` is the one run that expects a violation: `check_settlement` and `record_settlement` are
separate calls and the INSERT has no uniqueness, so two requests that present one hash are both recorded
and credited, against "One row per on-chain settlement" (`sql/payments.sql`:3). What holds all the same is
what the passing runs and the proofs say: a settlement is never credited more often than requests can be
in flight.

### Observations without a run

Ledgers:

- Two reads that select the same last read are both let through (MCP 549; "one settlement buys N reads",
  `payments.sql`:22), and two renewals that select the same row lose one paid period (MCP 832).
- A request that dies between the UPDATE of the meter and its answer (MCP 549-569) leaves the read charged
  and undelivered; nothing gives it back.
- A renewal or a collection whose row is canceled between record and renew has consumed its settlement
  (A2A 342); a renewal is only compared with `PAY_PRICE`, not with the tier (A2A 336); a collection
  advances the account's latest row, not the redeemed one (A2A 431 against the comment at 412).
- A read selected before a renewal and written after it charges the new period with the old period's
  reads (MCP 538). Two subscribes of one reader can leave two active rows (MCP 790-791).
- After `cancel_subscription` the rest of the paid period is no longer granted, since every access query
  asks for `status='active'` (MCP 533, 815).
- A claim that declares the small bundle gets it even when the transfer covers the large one (A2A 261;
  the comments at 242-244 and 257-259 read differently). A request that dies between `record_settlement`
  and the credit leaves a settlement that is refused as already claimed (A2A 265).
- Two approvals of one request that race insert two rows; an approval overwrites a denial made meanwhile;
  an INSERT whose UPDATE fails leaves a pending request beside a granted row. Revoke and deny go by id
  and are not scoped to the owner's corpus. Concurrent claims can displace the canonical owner.
- A revoked but unexpired credential still opens the text once a later row is granted
  (`get_passage_text`), which `verify_access` judges differently.

Content:

- Dropping a stored leaf does not stop an isolate that has cached it (`trust-context.ts` 408-416;
  `docs/kms-agent-configuration-flow.md` 81-82 offers it as a way to revoke); the account's own refusal
  does for what is verified, since it is asked each time. `sign_content_credential` does not ask the account
  (`contentSignerForIssuer`, `trust-context.ts` 342-372): a leaf the issuer has disowned goes on signing for
  as long as its row is stored. A rejected promise is what is cached, for the trust context, for
  `getCorpora` and for a D1 corpus alike: one failed query lasts as long as the isolate.
- After the ceremony for a new key and before the Worker is wired to it, signing in that name is refused.
- `verify_citation` (MCP 1168) looks in the embedded sample, so it refuses the agent's own citation of a
  verse that D1 served. An edition that has no candidate is silently answered, cited and validated in
  another one; the log of `/ask` then names the edition that was asked for beside the other's descriptor.
- While an import is under way a range may come back short and still `allVerified` against the old tree
  (MCP 432-435), and an isolate that loads meanwhile caches a tree of some of the verses for its life. If an
  old version is imported again during a range, its ends may have been looked up in the other version.
- The validator reports "validated" for a public bundle without text, and takes the root from the bundle.
- Only `/ask` writes the log that is introduced as holding every citation the agent has emitted
  (A2A 744). `/mcp/editions` reports the primary issuer for every edition.

The browser:

- A second purchase begun before the first one's popup has come back overwrites `sa.paypend`: the first is
  charged at the home and never claimed (`ui.ts` 484, 635). A popup whose exchange failed still shows
  "Payment complete" (`ui.ts` 623-629).
- A popup in which a purchase was denied goes on as a window of the Explorer. If a purchase by redirect is
  begun in it, and then one in the tab that opened it, the tab's `window.open(.., 'gc_pay')` (`ui.ts` 484)
  sends it away with the first one's charge, which is not claimed.
- `disconnect` is commented "landing you disconnected on both sides" (`ui.ts` 593-595); a purchase in
  flight then writes its in-memory session back (`ui.ts` 497, 575) and the Explorer is connected again.
- The home is left by `location.href` (`enroll.ts` 176, 184) and its URL carries the request, so the browser's
  Back shows an answered purchase again, with Approve, and charges it again (`app/page.tsx` 42). In a window
  that bought by redirect `sa.pending` is gone by then, so the second charge is not claimed.
- "Try again" after a failure past the charge charges again (`AuthorizeCeremony.tsx` 348); after a
  failure on a page that connected by itself there is no button at all, only "Authorizing…" (342).
- A purchase by redirect claims for the Explorer's session, one by popup for whoever approved at the home
  (`ui.ts` 582, 501). By redirect with a session that has lapsed it is charged, and the claim's TypeError is
  swallowed (580-585).

Home, relays and vault:

- The treasury flow deploys and names in one batch; when the label was taken the account is deployed but
  neither approved nor recorded, and later runs are refused with AA10 (`connect.ts` 724-727 says "Either
  way it's recorded"). Reconnecting a passkey with a wished name drops the name; the deploy shortcut
  answers a name without looking at who owns it; direct deploy answers ok even when the inner call reverts.
- A vault answer without an `ok` - the gateway's 403 of a bad csrf token (AI 550, 592), a body that is not
  JSON (`access.ts` 110) - is taken for an empty record (`access.ts` 137-138), so the next upsert erases the
  list. A relationship saved again without a delegation carries `stewardship: null` (`connect.ts` 618), which
  replaces the stored grant, where `relationships-store.ts` 79 says that a re-save never clobbers grants it
  does not carry. Overlapping upserts lose one. The vault page's form
  can be used while its list is loading or failed to load, and then overwrites it.
- A failed audit insert is swallowed (`db.ts` 94-98), while the comment at impact-mcp 100-104 calls the
  audit "REQUIRED (fail-hard)". An entitled read decides first and reads the row afterwards.
- The bridge's header comment gives the nonce lifetime as `BRIDGE_FRESHNESS_MS`, the code uses twice that
  (`bridge-hmac.ts`). When the bridge is down the oldest facet is answered. Overlapping `appendLink` calls
  lose a link. Nothing in the SIWE handler looks at the age of a message (AI 1094-1154): once the 600 s its nonce
  is kept are over, the same message is accepted again unless the library refuses it. An envelope whose
  signer's clock is a whole window ahead is fresh for as long as its nonce is kept, so one whose record lapses
  between the clock reading (`bridge-hmac.ts` 51) and the look-up (57) gets through twice.
- `callback.ts` 167-169 says the home's log-in re-points the facet to the new address after a rotation:
  `appendLink` adds at the end and the oldest entry is the one answered (`kv-indexer.ts` 60-64). Nothing
  rotates yet (`bumpRotation` has no caller).

## 6. Not modelled, and why

- **Paymaster top-up** (AI 3816-3983): the rate limit is a variable of one isolate, and how many isolates
  run is the platform's choice, so nothing holds of it across isolates; its signer has a cap of its own.
- **YouVersion tokens and grants** (AI 2786-3052): token store, refresh and forwarded calls. Whether a
  second refresh with the same token succeeds is the provider's rule, which the code does not state.
- **Session store** (`session-store-do.ts`, whose `save` overwrites a whole row; AI 3987-4065): its only caller
  is the session manager, a library outside the repository; which calls it makes, with rows of what age, is not
  in this code.
- **A2A task objects** (`a2a-task-do.ts`): a storage adapter of a task engine outside the repository.
- **related-orgs index** (`server/connect/related-orgs.ts` 132-137): a legacy get-and-put of one key, the
  same shape as the facet index of `SignIn`.
- **Custody schedule and apply** (AI 3054-3200): one relayed transaction each, under the contract's rules.
- **Corpus MCP graph tools and listings, what the agent's graph routes forward once access is settled, the
  ontology worker**: read-only; a query and its answer with nothing kept between requests. (How a graph route
  settles access is in `Grants`, `PassLedger` and `SettlementLane`.) Of the validator, the zk membership proof (a
  circuit) and the attestation with its on-chain anchor, on which no outcome depends. `/ask` resolves the
  verses of a fixed table by the same `doResolve` and appends to a log in memory.
- **Corpus MCP vault**: each set and grant is one upsert with nothing read before it.
- **Web pages**: the Explorer's reading and admin views, `demo-bible-web`, the owner's console page, and the
  pages of the home other than the ceremony and the vault: they display what the modelled calls return.
  The ceremonies for content signers and for collecting subscriptions, as the browser sees them.
- **CSRF, CORS and the gateway's stateless checks; field projection and encryption in the vault; the
  contents of OAuth and id tokens; `packages/` (circuits and parsers); `scripts/` and deployment**: no
  state the others depend on, or I/O only.
