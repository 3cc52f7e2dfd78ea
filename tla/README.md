# Steelyard SDK: a verification development

TLA+ models of the parts of the Steelyard SDK (`src/packages/*`) that move money or
decide whether money may move, the TLC runs that check them on small instances, and
TLAPS proofs of what holds for every instance. PROJECT.json is the index: components,
runs, the source lines each definition stands for, hazards, findings and theorems.

## 1. Inventory

**Policy engine** (`packages/policy/src/engine.ts`, `ledger`, `snapshot.ts`, `approval`).
State: reservations and approvals in SQLite; in memory the idempotency map, the
approval and credential records, the reference-counted policy snapshots and the
approval budget. Operations: `proposeIntent`, `cancelIntent`, `handleApprovalCallback`,
`getApproval`, `revokeCredential`, `ackSettlement`, `reloadPolicy`, `start`/`stop`. It calls an
FX service, the credential rail and the approval channel, and waits for each. Hard:
several proposals at one limit, callbacks that race cancellations and expiry,
reservations that expire while the rail mints, a reload or a restart in the middle,
an audit append that fails between two effects. Correct when limits hold, a policy in
use stays, what was handed out is backed by a committed reservation and a
decision is not overturned.

**Card rail** (`packages/policy-rail-card`). One card per authorization hash (the
provider's idempotency key), minted and revoked; a bus that keeps the provider's
events by card. Hard: events come twice, late and out of order, around an
acknowledgement that awaits them. Correct when each settlement is logged as delivered.

**Audit log** (`packages/policy/src/audit`). One file per day, each entry naming the hash of
the one before it. Hard: a write that is cut, a restart on the next day. Correct when the
verification reports nothing of an undisturbed log and everything that was lost.

**Policy evaluation** (`evaluator.ts`, `facts.ts`, `fx.ts`, `money.ts`, `schema`). A policy file is
loaded, linted and resolved; facts are made of an intent, with a rate that was fetched
once; hard denials win, then the first rule. Hard: rounding, warnings that reason on
bounds, a reload during the wait for the rates. Correct when a decision is what the
policy says, and a policy without warnings has none of what they warn of.

**Policy IPC and webhook channel** (`packages/policy/src/ipc`, `approval/webhook.ts`).
One promise chain per connection; connections interleave; a caller token per line.
Prompts are posted to an approver and decided by signed callbacks.

**Merchant checkout** (`packages/merchant/src/checkout`, with the session functions of
`packages/protocol/src/acp` and `ucp`). State: session rows and idempotency records, each
in memory or in files. Operations: create, get, update, complete and cancel in two
protocols. It authenticates signatures with keys of cached profiles, and calls the
merchant policy, a mandate verifier and the payment provider. Hard: retries and
concurrent completions, a provider whose answer is lost, crashes between the claim, the
capture, the final write and the record, stale locks, policies that are reloaded. Correct
when a session is captured once, at an amount the policy allowed, rows, charges and
answers agree, and a retry gets the first answer.

**Merchant mandates** (`packages/merchant/src/mandate`, `packages/ucp-signing`). Single-use nonces
with an expiry; the verification of checkout and payment mandates. Correct when what is
charged was signed for, as it stood, and a nonce lets one mandate through.

**Payment adapters** (`packages/merchant/src/psp`, `packages/psp`, `packages/stripe`). A mock, a
reference and a Stripe provider, and the issuers of their tokens. Hard: a capture that is
repeated while the first runs, after a restart or with a token that has expired.

**Buyer vault ledger** (`packages/buyer/src/vault/ledger.ts`). An encrypted event log folded
into reservations, spends and receipts; reserve, adjust, escalate, settle, release. Hard:
window limits over reservations in all states, expired escalations, a crash inside an
append, migration of the older format, rows under an older key. Correct when it is a book
of reservations under caps.

**Buyer vault** (`vault.ts`, `keystore.ts`, `recovery.ts`, `boxstore.ts`). An encrypted record that
every call reads whole and writes back; password change; recovery. Hard: calls that overlap,
a failed write or a death between two files. Correct when some credential always still
opens the vault and calls alone leave exactly what they should.

**Buyer wallet and client drivers** (`wallet/index.ts`, `client/*.ts`). A purchase: policy,
reservation, driver calls to a merchant, settlement or release, later reconciliation. The
client detects a merchant's protocol and keeps what it learned. Hard: a network error
after the merchant charged, a site that changes between two requests, an instrument
replaced during a payment, a policy file several hands write. Correct when what was
charged was agreed to, once, and stays in the budget.

**x402** (`packages/x402`). A paywall that verifies and settles a signed payment and
remembers it; a fetch that pays and retries. Hard: the same payment twice at once.

**Read surfaces** (`packages/protocol`, `packages/steelyard/src/serve.ts`). The manifest as MCP
tools, ACP feed, UCP catalogue, HTTP API and commerce.json. Hard: a deployment between
two requests, caches and validators. Correct when readers are shown what is deployed.

**MCP endpoint** (`packages/protocol/src/mcp/http.ts`). Sessions over HTTP with signed
requests and signed, buffered responses.

**Tools and adapters** (`verify`, `cli`, `next`, `agent`). Sequential programs, translations of
requests and re-exports without lasting state.

How they interact: a buyer agent asks the policy engine or its own vault ledger for
permission, the wallet drives a merchant's checkout over ACP or UCP, the checkout
captures at a provider with a mandate whose nonce the merchant issued. The shared
mechanisms are idempotency keys, reservations and compare-and-set transitions. What
cannot be trusted between them is time (clocks, expiry), delivery (requests and answers
are lost) and the files that several processes write.

## 2. Plan

Done: all modules of the table.

| module | models | run |
|---|---|---|
| `PolicyEngine`, `PolicyEngineProofs` | the policy engine | `policy_*` |
| `MerchantCheckout`, `MerchantCheckoutProofs` | sessions, keys, claims and captures | `checkout_*` |
| `ReservationBook` | abstract: holds under caps | refined in `wallet` |
| `VaultLedger`, `WalletPurchase`, `WalletPurchaseProofs` | the ledger file; purchases over it | `wallet`, `wallet_rotation` |
| `MandateCheckout`, `MerchantTrustProofs` | AP2 mandates from driver to charge | `services` |
| `SumLemmas` | facts about the sums the limits are stated with | |
| `HttpSignatures`, `ProfileCache`, `MerchantTrustProofs` | message signatures; keys of cached profiles | `services` |
| `McpExchange`, `MerchantTrustProofs` | the MCP endpoint and its signed answers | `services` |
| `VaultBox`, `VaultBoxProofs` | the vault's files | `services` |
| `WalletInstruments` | what a wallet pays with | `services` |
| `PolicyRules`, `WalletPolicy`, `CheckoutTerms` | YAML policies; the wallet's file; a merchant's prices and policy | `services` |
| `BuyerClient`, `BuyerClientProofs` | detection and the two drivers | `services` |
| `PaymentProvider`, `PaymentProofs` | the three providers | `services` |
| `PaidFetch`, `PaymentProofs` | x402 | `services` |
| `PolicyIpc`, `ApprovalWebhook`, `PolicyEngineProofs` | the engine's socket; its prompts | `services` |
| `AuditChain`, `CardSettlements`, `PolicyDecision` | audit log; settlements; decisions | `services` |
| `CommerceRead` | the read surfaces and their readers | `services` |

What a next step would take up: the invariants of `CardSettlements` and `WalletInstruments` for every
value of their constants; the composition of `PolicyEngine` with `CardSettlements`.

## 3. PolicyEngine

The engine is one JavaScript process, so an action is a stretch of code between two
awaits. A call of `proposeIntent` goes through `Propose`, waits for its quote (`facts`), then
`DecideDeny`, `DecideAllow` or `DecideApproval` runs everything up to the next await: limit
check and insert as one SQLite transaction, `retain`, the audit append. `MintReturns` and
`MintFails`, `PromptReturns` and `PromptFails` are the two ways out of the second wait. The
rail acts on its own (`RailMints`) and once per authorization. An approve callback waits for the
rail between `CallbackApprove` and `ApproveReturns` or `ApproveFails`.

| state in the code | variable |
|---|---|
| reservations table | `res` (with `late`: committed after it expired) |
| approvals table, approval map | `row`, `prompt`, `held` (its snapshot reference) |
| snapshot store | `snaps`, `refs`, `current` |
| idempotency map, credential map | `idem`, `cred` |
| approval budget | `consumed` |
| calls and callbacks under way | `pc`, `captured`, `approving` |
| the provider's cards | `rail` |

The audit append is a synchronous write that may fail; each action that appends has
both outcomes (the parameter `audited`). A restart keeps the tables and drops the maps. An
undefined limit is a number no sum reaches. The decision of the rules is a constant
of policy and intent (`EffectOf`, `RuleOf`). Denials for an environment mismatch or a missing
channel take the path of any other denial. The reading calls (`observeCredential`,
`capabilities`, `getPolicySnapshot`) change nothing and are left out; a poll that
expires a prompt is `ExpirePrompt`.

Runs:

- `policy_engine`: a call that needs approval and a retry under its key, one rule with one
  intent a day, two policies, two approve callbacks at once, one restart. Checks the
  limit, exact reference counts, snapshots in use, credentials backed by commitments,
  truthful cached envelopes, nothing held after a failure and final decisions.
- `policy_limits`: three intents under two rules, limits such that each of the three checks
  is for some pair the only one that refuses. No restart, short times.
- `policy_late_commit`, `policy_reload`, `policy_decided`: three statements of
  `docs/guides/policy-engine.md` that the code breaks (see section 8).

Bounds: time 0..2 with a window of 1 and lifetimes 0 to 2 is enough for a reservation to
expire before, at and after a commit and to leave the window. Two calls meet in every
pair of positions; a third adds a sum that a pair does not reach.

No fairness is assumed and no liveness stated: the engine awaits the FX service, the rail and
the approval channel without a timeout, so a proposal ends when they answer and the code
does nothing to make them.

## 4. MerchantCheckout

One action per stretch between two awaits of a request. `Arrive` is `remember()` up to its
first await: replay, conflict, joining a running request, or a new one. For the file
store `KeyLocked` follows, with the lock of the key. The handlers are `Get`
(`requireSession`), `Policy`, then `Put` for create and update or `Claim` (the first half of
`transition`) for complete and cancel. A claimed completion goes on to `Refuse` (handler,
instrument or mandate), `Capture`, and `CaptureReturns` or `CaptureThrows`. The PSP acts by
itself (`PspActs`), also when the caller has crashed. What the adapter makes of its answer may
be wrong: a body that cannot be read, a server error and a payment that is processing are all
`ok: false` (`AnswerUnread`), after which the session is canceled and the buyer told 402,
whatever the PSP did or goes on to do (`PspSettles`). `FailureIsTrue` excuses those calls by
name (`Unread`) and no other. `Record` writes the idempotency record and
releases the joiners; `ResponseFails` is a response that throws after the effect.

`Durable` chooses memory stores (`FALSE`) or file stores (`TRUE`). The differences that matter:
what survives a crash; one lock for all sessions or a queue per session; a `get` that
takes the lock or not; locks on disk that outlive a crash (`left`) until they are stale,
and queues that jam when `lock()` rejects (`jammed`). ACP and UCP have one control flow;
`ready_for_payment` and `ready_for_complete` are both "ready", and what only UCP has (mandate, AP2
envelope, signed response) is an outcome of `Refuse`, `Policy` and `ResponseFails`. The order of a lock's
queue is abstracted to any order, which allows more than the code does.

`overwritten` is a history variable: the sessions over which an update was put after
they had been claimed. The code does that (section 8), so the properties about charges say
what holds for all other sessions.

Runs:

- `checkout_file`: two completions with one key, a third with its own key and a body that
  fails the schema, a cancellation; a crash anywhere, lost and unread answers of the PSP,
  failing responses, stale locks. Checks one capture per session, completed implies charged for the
  total shown, a failure told is true, one answer per key and body.
- `checkout_memory`: creation, an update with the same key, a completion and its retry;
  records expire, the policy and the PSP may throw, one crash. Also one handler per
  key, and every request ends.
- `checkout_terminal`, `checkout_retry`: two statements of the documents (section 8).

Bounds: one session, since rows of different sessions meet only at the file store's
lock, which the completions and the cancellation of one session already contend for; two totals, so that
a change shows; one crash, after which every retry still may run. A request is
sent once, a retry is another request, so all arrival orders occur. The system stops when all requests are
answered, hence no deadlock check. Fairness: weak for a request's own steps, for the PSP's
answer and for the staleness of a lock, none for arrivals, expiry and crashes.

## 5. Wallet, ledger and reservation book

`VaultLedger` has the state of the ledger's file and one operator per operation; an operation
takes a queue and a file lock, so it is one step. Rows are never changed, so the file is
kept as the fold a reader makes of it, `book[k]` for each master key `k`: a reader skips rows
sealed under another key. `ragged` and `header` say how the file ends or begins after a crash.
`WalletPurchase` has the calls: `Wallet.purchase` in a process of its own, step by step between
its awaits, with an ACP or UCP driver, a merchant that acts on a request whose answer may be
lost, escalation and resumption, manual sessions, reconciliation and password rotation.

`ReservationBook` is the abstract specification: entries that are reserved under the caps,
lowered, escalated, captured or released, once. The run `wallet` checks `IsReservationBook`:
the fold of the concrete log, seen by a holder of the first key (`Entry(0)`), implements it.
`ChargeIsBooked` says that a charge leaves the spend totals in five ways only, each named
(`Lost`):

1. The driver reported an error after the merchant had charged: the wallet releases on every
   error (`blind`).
2. The escalation ran out while a resumed call was paying (`resume_expired`).
3. An operator released it (`reconciled_release`).
4. A call that resumes a charged purchase after a crash lowers its reservation again (`adjust`),
   finds that other spend has filled the cap meanwhile, and releases (`cap_exceeded`).
5. Two calls resumed one escalation: `reattach` reads that the reservation is escalated and
   leaves it so, and the error of one call releases what the other is charged for (`shared`, set
   where a call goes on to the merchant while another works on its reservation).

`by` is a history variable of an order: the calls whose tokens were charged for it.
`ChargesWithinCap` sums what those calls were charged, whatever became of the reservation
unless it is `Lost`, and only over calls that opened the wallet with one key: a retry that is
answered from the merchant's record reserves without being charged, and calls under different
keys do not see one another's reservations, so the sum over all live reservations of a key is no
bound on what merchants charged. `Fault` has the three steps of one that fail: the answer is
lost, the merchant fails, the ledger fails where a receipt is settled or shadowed.

Bounds: a UCP purchase, an ACP call under its key and a third call under another key. Any of them
may resume what another left escalated, so two may resume the third. Two is the price, three
the day's cap and four the week's, so that two purchases fit in the week and
never in one day; one mishap (crash, rotation or reconciliation), since each is followed by every
interleaving of the rest. One spend of the older ledger is there to be migrated.

## 6. The services

`MCServices` runs one of its parts at a time (`part`, chosen in `Init` and never changed), each a
module on a small instance whose variables are `v1` to `v13`; a property of a part is
`part = "x" => ...`. The parts do not share state; what one relies on of another is said in
the module's head. Deadlock is not checked: every part stops when its calls are answered and
its bounds are used up.

**MandateCheckout.** A signature, a hash and an SD-JWT are the facts they stand for: what was
signed and whether it verifies. `createCheckout` and updates set the terms, `completeCheckout`,
`verify`, `consumeNonce` and `capture` are the awaits of a completion. `ChargeIsMandated` relates a
charge to what the buyer signed and when, `MandateUsedOnce` two completions. Two checkouts,
one locked; two completions, one update, nonces and mandates that expire.

**HttpSignatures, ProfileCache, McpExchange.** The first has no state: which parts of a message
a signature must cover and the order in which one is refused, as operators. `ProfileCache` has
the requests whose keys are looked up: a fetch, the host's answer of that moment and its
storing are steps, so older answers replace newer ones. `RotationIsSeen` bounds how long a
retired key is accepted or a new one unknown, `OneRefreshPerWindow` (an action property) how often
unknown keys cause a fetch. `McpExchange` has sessions and the buffer in which a signed
response is collected, into which a failing signer's error is appended. `AcceptedAsSigned` is
about both.

**VaultBox.** `readCurrentRecord` and `writeCurrentRecord` are the two halves of every edit; `todo` has
the edits of one wallet call still to come. A write may fail before the box is replaced
(`stepFails`) or after (`writeFailsLate`: `chmod` rejects behind the `rename`). In a creation the
second leaves a box whose key the rollback takes out of the keychain: nothing opens it, and
`BoxOpens` excuses that box by name (`LostKey`). `book` is what the record would be had calls run one
after the other without a failure (`tainted`: they did not). Part "vault" has two
handles, one card, one edit; part "alone" one handle with two cards, addresses, passwords and
algorithms and two edits, which take turns. The search over two handles with two of
everything is too large.

**WalletInstruments.** The agent-native issuer lives in the handle, the cards in the vault;
`setDefaultCard` takes every card out and puts it back, so a payer meets a vault with some of
them. A payment chooses, asks the policy and then takes the issuer that is there.

**PolicyRules, WalletPolicy, CheckoutTerms.** `PolicyRules` is the evaluation of YAML policies as a
function of rules, intent and spend. `WalletPolicy` has the two files, handles that read, truncate,
write and reload, and the user who edits by hand; setters of one file that overlap lose
edits, which `kept` remembers, and the property speaks of the others. What a setter gives is
`Honours`. Limits hold for every wallet. The allowed merchants and the approval amount are a rule of
the wallet's own file: for the global wallet they are obeyed; for a project's wallet a purchase that
rule does not match is let through, without approval, exactly when a `can` rule of the global file
matches it (`AllowedElsewhere`; section 8). `CheckoutTerms` computes
the lines and totals of ACP and UCP checkouts and when the policy sees them; an update stored
after the completing call read the row is excused by the property, as `checkout_terminal` shows.

**BuyerClient, PaymentProvider.** `connect` probes a site that may change; `purchase` runs on with what
the handle kept, a request may be lost before or after the site acted on it. The site
remembers keys for good here and does not crash; expiry and crashes are in `MerchantCheckout`.
`PaymentProvider` has overlapping captures over three providers; tokens of the reference
provider are issued before they are captured. An answer of Stripe may be lost, or be read as a
failure though it is no decision (an unreadable body, a server error, a payment that is
processing); `CapturesAreFinal` holds the decisions to the money (`decided`), not those answers.

**PaidFetch.** Both ends of x402 with every await a step. A payload holds the date until which it may be
settled, which the signer puts in, so a repeat signed at another time is another payment to the
paywall and is paid again; `RepeatsPayOnce` is about one payload. The settlement store is in memory and
`tainted` marks payloads whose requests overlapped or were cut by a restart, which are settled
twice (section 8).

**PolicyIpc, ApprovalWebhook, AuditChain, CardSettlements, PolicyDecision.** The parts around the
policy engine. A line of the socket travels in two pieces. Prompts are posted before they are
stored. A write to the log may be cut, with the process alive or dead, and the next one is
written onto it. Settlement events are delivered in any order and more than once. A decision
takes the policy of the moment, waits for the rates, and rounds; amounts are integers, rates
fractions.

**CommerceRead.** One reader at a time is followed (a buyer, a pager, a visitor, a shopper): readers
share nothing but the site, which is deployed again, restarted, unreachable or behind a
gateway. `Agrees` and `Finds` say what each protocol shows of an offer and finds by a search, which is
not the same for the three (section 8). A feed the handle holds is taken for what it was when it
was fetched; nothing bounds how old it is but the handle's life.

Bounds are in `MCServices`: two actors for every race (three where a third changes what two
see: connections, exchanges, instruments), values chosen so that each comparison has both
outcomes (a price below, at and above a limit; times before, at and after an expiry), one or two
of each disturbance. No liveness is stated for these parts: nothing in the code makes a
network, a user or a provider act.

## 7. Proofs

Every theorem holds for all values of the constants that satisfy the named assumptions of its
module; TLC evaluates those on every run. PROJECT.json lists the theorems. Where a proof module is about
several systems, one is extended and the others are named instances (`Ipc`, `Hook`, `Fetch`, `Mandates`), whose
constants and variables the section about them declares: the systems share nothing.

**`PolicyEngineProofs`**, about `PolicyEngine`, for any finite set of calls, any policies, rules,
limits and bounds:

- `TypeCorrect`, `RefsAreExact`, `SnapshotsAreKept`, `HandedOutAreCommitted`, `FailuresHoldNothing`,
  `CountIsCapped`, `UsdIsCapped`, `PurchaseIsCapped`, `EnvelopesAreTrue` (invariants) and
  `DecisionsAreFinal` (an action property).

The inductive invariant is `IInv == TypeOK /\ Shapes /\ RefsGood`. `TypeOK` alone is not
inductive: that a reference count stays natural needs that it is exact, exactness needs to
know which calls hold a reference, and that follows from how the parts of one call's
state belong together (`Shape`: an undecided prompt has a pending reservation and a
reference, a credential exists only without a prompt or under an approved one, and so
on). Each part has its lemmas per action. `GainHolder` and `LoseHolder` turn retain and release
into a change of a cardinality by one; `GcKeepsHolders` is about what the collection
drops.

The three caps share an argument: a step either adds nothing to what counts (expiry, cancellation,
commit, a window that moves on) or inserts one reservation where the check has just been made,
so what counts stays within the limit. For `CountIsCapped` that is about a set's size, for
`UsdIsCapped` and `PurchaseIsCapped` about a sum. `EnvelopesAreTrue` needs to know, for
each cached envelope, that what it says of the intent it names is true (`Told`, `Retellable`) and that
nothing undoes it while the process lives (`ToldStays`): a reservation that is committed stays so, and a
denied intent never gets one.

**`SumLemmas`** has the facts about sums: a sum over a larger set, of smaller summands, with one
element more. The library's sum is a recursion over the subsets of a set, and an induction would
need an operator as a parameter. What it computes is shown without one: were it wrong for some subset of
a finite set, it would be wrong for a smallest one (`SmallestMember`), and there one step of the
recursion refutes it.

**`MerchantCheckoutProofs`**, about `MerchantCheckout`, for any requests, sessions, keys,
totals, either store and any faults:

- `TypeCorrect`, `AskedAtMostOnce`, `CompletedAreCharged`, `FailuresAreTrue`, `HandlersAreSingle`,
  and `AnswersAreOne` under `KeysLast`.

It needs one assumption that the code gives by `randomUUID`: a create's id is no other create's
and no stored session's (`FreshIdAssumption`). Without it a second create could make a charged session
ready again. The heart of the invariant is `Claimed`: of a session no update has overwritten, at
most one request has claimed it or asked for the money, and once there is one the row is never
ready again. That is not inductive alone. An update writes back the status it has read, so `Present`
keeps that a writer finds a row; a create writes "ready" blindly, so `First` keeps that nobody is ahead of
it; and memory stores lose their rows in a crash, after which nothing is fresh. `Agreed`
ties the call, the PSP's record and the row's total together, `Over` says that after a refusal nobody
asks, and `Flight` ties the map of running requests to where requests are. Most
actions write no session: `Quiet` describes them once, and the lemmas about it serve all of them.

`FailuresAreTrue` leaves out the calls whose answer the adapter could not read: a session canceled after
one of them may have been charged, before or after the buyer heard of it, and the invariant keeps which
calls those are (`Unread`).

`AnswersAreOne` says that two requests with one key and one body are never told two different results.
`KeysLast` is its condition: no record expires, and no crash takes the records of memory stores.
That is what the code offers, not more: after a record has expired, or after a memory store
lost it, the handler runs again and may well answer otherwise, so `checkout_memory` does not check the
property and `checkout_file` does. The invariant is `Records`: a key has no record while its handler
runs, who joined a request has its body, and what a handler told is on record for its key and body.

**`WalletPurchaseProofs`**, about `WalletPurchase` over `VaultLedger`, for any number of calls,
prices, currencies, windows, caps, rotations, crashes and faults:

- `TypeCorrect`, `ChargesAreBooked`, `ReceiptsAreKept`, `ChargesAreCapped`, and
  `LedgerIsReservationBook`, the refinement.

The assumptions are on the constants: ids are finitely many and those of the older ledger are not
those of calls; prices, totals, limits and window lengths are natural numbers.
The invariant has these parts:

- `Ownership`: a row is under the master key its call opened the vault with (`Owned`), and a call works on
  it under that key (`SameKey`), two calls at work have not the same one unless it is `shared` (`Alone`), a
  resumed one was escalated
  (`Resumed`), and an absent file has no rows (`Fresh`).
- `Charging`: where a call is tells what the merchant has been told, for reservations that are not
  shared: of a shared one another call may have released or settled the row. The last of these parts,
  `Covered`, says that whoever's token was charged has a reservation of at least the charge, or one that left
  the totals for one of the five named reasons. `ChargesAreBooked` follows.
- `ClaimsWithinCap`: each reservation's claim (its amount while it may still be charged, the order's
  total once its token was charged) summed under each key stays within each cap. A claim grows only
  where `reserve` or `adjust` has just compared the sum. `ChargesAreCapped` follows: claims bound
  charges. `Stamps` gives that a window reaching back to the start leaves no entry out.

The attempt at these two proofs corrected both properties. The earlier `ChargeIsBooked` did not know
the way out through `cap_exceeded`, and the earlier `ChargesWithinCap` summed over all live reservations of a key;
the step that could not be proved led to a behaviour TLC confirmed on a larger instance (section 5 says what
they state now).

The refinement is proved as TLAPS allows: `Entry(0)`, the fold as a holder of the first key sees it,
starts as the empty book, and every step of the file changes at most one entry
(`OneEntry`), which is a step of `ReservationBook` or a stutter (`BookNextOf`). That the
abstract guard, a sum over the book's entries, holds where the code compares the sum over its rows is again
`SumLemmas`.

**`MerchantTrustProofs`** has three parts. About `MandateCheckout`, under `MandateAssumption` (locked
checkouts are checkouts, terms and lifetimes are positive numbers): `ChargesAreMandated` and
`MandatesAreUsedOnce`. A completion that has claimed its session has been checked as far as it got, against the
terms the session still has (`Attempts`): no update touches a claimed session, so what was verified is what
is charged. The nonce of an accepted mandate is spent or gone, and since an id is created once it
is never issued again (`Spends`, `NoncesGood`). `LeastOfSix` and `AllPass` are about the verifiers: a result of
"ok" means that none of the checks, made in their order, failed.

About `ProfileCache` with `HttpSignatures`, under `ProfileAssumption`: `RotationsAreSeen`,
`RefreshesOncePerWindow` (an action property) and `AcceptsAsSigned`. What every copy of the profile has in common,
in the entry, in a fetch or in the hands of a request, is that it agrees with the profile there is up to the
keys that joined or left it since some moment (`Agrees`). That moment is at most one fetch before an entry
was stored (`EntryFresh`), and an entry is used no longer than the longest lifetime, so what a request was
judged by is at most `Lag` old (`Sound`). `Barred` says that a forced refresh has left the expiry of the entry it
came from behind for good. `AcceptsAsSigned` has one more assumption, `RequestsSent`, on which requests there are:
the buyer's signer covers the digest of a body it sends and the idempotency key of a request that
changes something, so a body that was taken away or a key that was altered is missed.

About `McpExchange`, under `McpAssumption` and the same assumption on requests (`McpRequestsSent`):
`ExchangesAreSigned`. Whatever has got past the reading of the key, or has left anything in the buffer, is a request
that stands as a known key signed it (`Exchanged`), by the lemma `VerifiedIsSigned` about the one verifier (`SameSignatures`).
A buffer that reports success holds the transport's chunk or none (`Clean`), also after the handler's own
error was appended, as that makes the status 500; and what leaves is signed by the server or not at all
(`OwnReply`), so an accepted response has the status and the body that were signed (`AcceptedIsSigned`).

**`VaultBoxProofs`**, under `VaultAssumption` (the first card and address are among those there are, and no password is the word "keychain"). `BoxesOpen`: that
the box opens is not inductive, as a handle may still seal the next one under the key it was opened with. So
`KeysHad` is about every key that seals a box or will: it is derived from a password or it is kept in the
keychain, and while a creation has not kept its key yet, nothing else is of that vault (`OfItsOwn`).
The exception is a box whose creation failed after it was in place (`LostKey`).
`CallsLeaveTheBook`: while no calls overlap and none has failed, the steps that a call has left lead from the
record that is in the box to the one in the book (`BookKept`, by `Leads`: there are records, one after each step,
of which each is what the step makes of the one before). A step done takes the first of them away.

**`PaymentProofs`** has two parts. About `PaymentProvider`, under `ProviderAssumption`: `CapturesAreFinal`. Stripe's
own record of a key or a payment never changes (`StripeKept`), a session's money and a payment token are
spent once (`SpentOnce`), an answer that is a decision fits the money, what a provider remembers is
what it answered (`MapKept`), and whoever is at work was let in with the session's terms (`Meant`). About `PaidFetch`: `PaysAsAgreed`, where a call is tells what was decided
about its challenge, and what the paywall remembers was paid (`Shape`, `StoreIsPaid`); and `PaysOnce`, which adds what a
payment leaves behind: while a call is between settling and remembering it is the only one at the
paywall with its payment (`AloneThere`) unless the payment is tainted, and what was settled is stored (`Stored`).

**`BuyerClientProofs`**, under `ClientAssumption` (the types of the constants): `ChargesAreAgreed`. The
invariant follows what a total means from the merchant to the receipt. What the merchant keeps for a key is
true of its checkouts (`AnswerTrue`), a key has one answer for a step (`KeptOnce`) and a checkout one request
that opened it (`OneOpening`). What a call has heard is what is kept for its key (`From`), also when another call of
the purchase asked. What the wallet agreed to is what a call has heard, and when the completion is sent the checkout
still costs that (`Payable`): an ACP checkout is never repriced, and a UCP one only by the update of its
own key, of which there is one. A charge leaves an answer to the completion, so there is no second.

**`PolicyEngineProofs`**, beside the engine, has the two ways into it. About `ApprovalWebhook`, `EndsOnce`: the channel has
a status exactly for the prompts it has stored, and nothing was heard of one that is pending (`HookKept`). About
`PolicyIpc`, `AnswersInOrder`, from `IpcAssumption`: a chain has one line running at most, and on an open connection
all lines before it are answered (`Counted`, `Ordered`, `Answered`).

The theorems about `MandateCheckout`, `ProfileCache`, `McpExchange`, `VaultBox`, `PaymentProvider`, `PaidFetch`, `BuyerClient`,
`PolicyIpc` and `ApprovalWebhook` state the component's own property; `MCServices` checks the same property on its instance under the
condition that its part runs.

Only model-checked: `EveryRequestEnds` (liveness is out of the prover's reach); the statements of the violation runs; and of `MCServices` `PolicyIsObeyed`, `ChargeIsAllowed`,
`AuditTellsTruth` (of `AuditChain` and `CardSettlements`), `ShownAsDeployed` and `DecidedAsWritten`, and the part of `PaidAsAgreed`
that is about `WalletInstruments`. They are about what a computation over a sequence
gives (rules in order, the lines of a log, a feed's pages, a list filtered or sorted), whose result for
every input would be an induction over data.

## 8. What the runs found

Each is a statement of the documents that the code does not keep; PROJECT.json quotes it.

- A reservation that expired while the rail was minting is committed all the same.
- A reload while a proposal waits for its quote drops the policy it captured.
- An approve callback mints although the intent was decided during its wait.
- A stale update replaces a completed checkout session.
- A retry after the provider's answer was lost gets a conflict, never the receipt.
- After a password rotation the spends settled before it no longer count under the caps.

More facts the models hold, and which properties excuse by name. No run of its own shows them.

- *Answers of the payment provider.* The Stripe adapter reads an unreadable body of a 200 as an empty object
  (`merchant/src/psp/adapters.ts:200-202`) and turns it, a 5xx and "processing" into `ok: false`
  (`core/src/stripe/index.ts:202, 242-248`). The checkout then cancels the session and answers 402
  for a payment that may have been made. (`AnswerUnread`, `PaymentProvider`.)
- *Two resumes of one escalation.* `reattach` (`ledger.ts:373-385`) checks that the reservation is escalated and
  does not change it. Two calls may resume it, and the error of one releases the reservation the
  other is charged for, which leaves the totals. (`shared`, `WalletPurchase`.)
- *Creating a vault.* `boxstore.ts:48-49` renames the box into place and may then reject in `chmod`;
  the rollback (`vault.ts:172-176`) sees `boxWritten` unset, leaves the box and deletes its
  key. Edits of two handles that overlap lose one. (`writeFailsLate`, `tainted`.)
- *Paying for one resource again.* `docs/guides/x402-paywall.md:57-59` says that
  "`memoryX402IdempotencyStore()` prevents duplicate settlement for the same signature and route
  requirement in local demos". Two overlapping requests with one payment are both handed to the facilitator to settle, since
  the store is asked before the verification and told after the settlement. A repeat that the buyer
  signs again is another signature and settled too. (`PaidFetch`.)
- *A project wallet's setters.* `docs/concepts/approval-and-3ds.md:12` says of `setApprovalAbove` that "If a purchase
  crosses that threshold, `wallet.purchase()` throws `WalletApprovalRequired`", and
  `docs/packages/buyer-wallet.md:98` that `setAllowedMerchants` "Rewrites the wallet-owned allow
  rule". For a project's wallet the rule of the global file is asked next and lets the purchase
  through. Setters of one file that overlap lose a change, and a death in the write leaves a
  file that does not parse. (`Honours`, `AllowedElsewhere`.)
- *Reading over three protocols.* `docs/concepts/unification.md:63-64` says that "Methods like `search()` and
  `getOffer()` return identical results across all three". Over UCP an offer without a fixed price
  costs 0, over ACP and UCP attributes are lost and what recurs is shown as paid once, and
  only MCP searches attributes. (`Agrees`, `Finds`.)
- *An update during a completion.* One that is stored between the completion's read and its claim
  (`server.ts:393`) is charged without having been judged by the policy. (`CheckoutTerms`.)
- *Checkout.* A malformed completion body is rejected only after the charge, and a lock left by a
  crash jams the file stores' queue for good if a request arrives before it is stale.

## 9. Not modelled

- Cryptography (ciphers, curves, hashes, encodings) counts as opened or verified or not; test
  vectors of the repository check the bytes.
- Schemas, generated types, currency tables and the wording of messages are data. Inputs are
  enumerated from what the schemas admit.
- `verify`, `cli` and the agent demo are command-line programs that run once; the Next.js adapter
  translates requests and keeps nothing.
- The engine's lock file (`policy.lock`) is a check of the process that holds it and a write; two
  starts at once are left out and a single engine is assumed, which the lock is there for.
- `BuyerClient` leaves out the expiry of the merchant's keys; the MCP client's transport and
  the event streams of the MCP SDK are external, as is the warning about a signer that differs
  from the session's.
- The rounding of JavaScript's doubles: `PolicyDecision` rounds exact fractions.
- The authorization hash is the identity of what it is made of.

PROJECT.json gives the state of each component and every definition's lines.
