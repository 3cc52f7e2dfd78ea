---------------------------- MODULE PolicyEngine ----------------------------
(***************************************************************************)
(* The buyer-side policy engine (packages/policy/src/engine.ts) with the   *)
(* reservation ledger, the policy snapshot store and the approval budget   *)
(* it drives, and the rail that mints credentials for it.                  *)
(*                                                                         *)
(* The engine is one JavaScript process: code between two awaits runs      *)
(* without interruption, so one action here is one such stretch.  A call   *)
(* of proposeIntent waits for the FX quote ("facts"), for the rail         *)
(* ("minting") or for the approval channel ("prompting"); an approval      *)
(* callback waits for the rail.  Everything else (other proposals,         *)
(* callbacks, cancellations, polls, policy reloads, a crash and restart)   *)
(* may happen during a wait.  The audit append is a synchronous file write *)
(* and never a wait; it can fail.                                          *)
(***************************************************************************)
EXTENDS Integers, FiniteSets, Functions

CONSTANTS
  Call,          \* the calls of proposeIntent; a call makes at most one intent
  Key,           \* idempotency keys (caller token and idempotency_key)
  KeyOf,         \* KeyOf[c]: the key of call c; a retry is another call, same key
  Policy,        \* policy hashes
  FirstPolicy,   \* the policy file the engine starts with
  Rule,          \* rule names
  EffectOf,      \* EffectOf[p][c]: what policy p decides of c's intent
  RuleOf,        \* RuleOf[p][c]: the rule that decides
  Amount,        \* Amount[c]: amount_usd of c's intent
  PurchaseOf,    \* PurchaseOf[c]: purchase_id of c's intent
  MaxCount,      \* MaxCount[p][r]: limits.per_day_count of rule r under p
  MaxUsd,        \* MaxUsd[p][r]: limits.per_day_usd
  MaxPurchase,   \* MaxPurchase[p][r]: limits.per_purchase_usd
  Window,        \* 24 hours
  Ttl,           \* reservationTtlSeconds
  ApprovalTtl,   \* approval.expires_in
  BudgetMax,     \* approvalBudget.max
  BudgetWindow,  \* approvalBudget.window_ms
  MaxTime,       \* bound on the clock
  MaxCallbacks,  \* bound on approve callbacks of one prompt waiting at once
  MaxRestarts    \* bound on restarts

Effect == {"allow", "deny", "require_approval"}

ASSUME CallAssumption == IsFiniteSet(Call) /\ KeyOf \in [Call -> Key]
ASSUME PolicyAssumption ==
  /\ FirstPolicy \in Policy
  /\ EffectOf \in [Policy -> [Call -> Effect]]
  /\ RuleOf \in [Policy -> [Call -> Rule]]
ASSUME LimitAssumption ==
  /\ Amount \in [Call -> Nat]
  /\ MaxCount \in [Policy -> [Rule -> Nat]]
  /\ MaxUsd \in [Policy -> [Rule -> Nat]]
  /\ MaxPurchase \in [Policy -> [Rule -> Nat]]
ASSUME TimeAssumption ==
  /\ Window \in Nat /\ Ttl \in Nat /\ ApprovalTtl \in Nat
  /\ BudgetMax \in Nat /\ BudgetWindow \in Nat
ASSUME BoundAssumption ==
  MaxTime \in Nat /\ MaxCallbacks \in Nat /\ MaxRestarts \in Nat

VARIABLES
  now,       \* the clock
  restarts,  \* how often the process has been restarted
  current,   \* snapshots.currentHash
  snaps,     \* the hashes PolicySnapshotStore holds
  refs,      \* its refcounts (0 for a hash it does not hold)
  idem,      \* the idempotency map
  pc,        \* where each call of proposeIntent is
  captured,  \* the snapshot each call read at its start
  consumed,  \* when a call consumed approval budget
  res,       \* the reservations table, one row at most per call
  prompt,    \* the state of the approval record in memory
  held,      \* the record still has reservation_id and snapshot_retained
  approving, \* approve callbacks waiting for the rail
  row,       \* the approvals table
  cred,      \* the credential record a caller can name
  rail       \* the credential on the rail

memory  == <<idem, pc, captured, consumed, prompt, held, approving, cred>>
vars == <<now, restarts, current, snaps, refs, idem, pc, captured, consumed,
          res, prompt, held, approving, row, cred, rail>>

Never       == -1
NoEnvelope  == [decision |-> "none"]
Envelope(d, c) == [decision |-> d, intent |-> c]
Envelopes   == {NoEnvelope} \cup
               [decision : {"allow", "deny", "pending_approval"}, intent : Call]
NoRow       == [status |-> "none", created |-> 0, expires |-> 0, late |-> FALSE]
Waiting     == {"facts", "minting", "prompting"}
Settled     == {"done", "failed", "dropped", "stranded", "lost"}

-----------------------------------------------------------------------------
(* Counters: what the ledger counts against a limit.                       *)

\* A reservation is active when committed, or pending and not yet expired.
Active(c) == \/ res[c].status = "committed"
             \/ res[c].status = "pending" /\ res[c].expires >= now

OfRule(c, r) == captured[c] \in Policy /\ RuleOf[captured[c]][c] = r

DaySet(r) == {c \in Call : Active(c) /\ OfRule(c, r) /\ res[c].created >= now - Window}

PurchaseSet(q) == {c \in Call : Active(c) /\ PurchaseOf[c] = q}

Usd(S) == SumFunctionOnSet(Amount, S)

\* Mutants of WithinLimits: an off-by-one count, and a cap compared with the
\* spend before this intent (of the rule, of the purchase).
CountOffByOne(c) ==
  LET p == captured[c]
      r == RuleOf[p][c]
  IN  /\ Usd(DaySet(r)) + Amount[c] <= MaxUsd[p][r]
      /\ Cardinality(DaySet(r)) <= MaxCount[p][r]
      /\ Usd(PurchaseSet(PurchaseOf[c])) + Amount[c] <= MaxPurchase[p][r]

UsdBefore(c) ==
  LET p == captured[c]
      r == RuleOf[p][c]
  IN  /\ Usd(DaySet(r)) <= MaxUsd[p][r]
      /\ Cardinality(DaySet(r)) + 1 <= MaxCount[p][r]
      /\ Usd(PurchaseSet(PurchaseOf[c])) + Amount[c] <= MaxPurchase[p][r]

PurchaseBefore(c) ==
  LET p == captured[c]
      r == RuleOf[p][c]
  IN  /\ Usd(DaySet(r)) + Amount[c] <= MaxUsd[p][r]
      /\ Cardinality(DaySet(r)) + 1 <= MaxCount[p][r]
      /\ Usd(PurchaseSet(PurchaseOf[c])) <= MaxPurchase[p][r]

\* The three checks of reserveAfterLimitCheck, inside BEGIN IMMEDIATE.
WithinLimits(c) ==
  LET p == captured[c]
      r == RuleOf[p][c]
  IN  /\ Usd(DaySet(r)) + Amount[c] <= MaxUsd[p][r]
      /\ Cardinality(DaySet(r)) + 1 <= MaxCount[p][r]
      /\ Usd(PurchaseSet(PurchaseOf[c])) + Amount[c] <= MaxPurchase[p][r]

Reserve(c) ==
  res' = [res EXCEPT ![c] = [status  |-> "pending", created |-> now,
                             expires |-> now + Ttl, late |-> FALSE]]

\* commit and release update a row only WHERE status = 'pending'.
CanCommit(c) == res[c].status = "pending"

\* late is history: the row's expires_at had passed when it was committed.
Committed(c) == [res[c] EXCEPT !.status = "committed", !.late = res[c].expires < now]

Released(c) == [res[c] EXCEPT !.status = IF @ = "pending" THEN "released" ELSE @]

-----------------------------------------------------------------------------
(* PolicySnapshotStore.                                                    *)

\* Mutant of Kept: gc does not look at the reference counts.
KeptCurrent(S, counts, cur) == S \cap {cur}

\* gc drops every snapshot without references except the current one.
Kept(S, counts, cur) == {p \in S : counts[p] > 0 \/ p = cur}

\* release followed by gc.
ReleaseSnapshot(p) ==
  /\ refs' = [refs EXCEPT ![p] = @ - 1]
  /\ snaps' = Kept(snaps, refs', current)

RetainSnapshot(p) == refs' = [refs EXCEPT ![p] = @ + 1]

-----------------------------------------------------------------------------
Init ==
  /\ now = 0
  /\ restarts = 0
  /\ current = FirstPolicy
  /\ snaps = {FirstPolicy}
  /\ refs = [p \in Policy |-> 0]
  /\ idem = [k \in Key |-> NoEnvelope]
  /\ pc = [c \in Call |-> "idle"]
  /\ captured = [c \in Call |-> FirstPolicy]
  /\ consumed = [c \in Call |-> Never]
  /\ res = [c \in Call |-> NoRow]
  /\ prompt = [c \in Call |-> "none"]
  /\ held = [c \in Call |-> FALSE]
  /\ approving = [c \in Call |-> 0]
  /\ row = [c \in Call |-> "none"]
  /\ cred = [c \in Call |-> "none"]
  /\ rail = [c \in Call |-> "none"]

Tick ==
  /\ now < MaxTime
  /\ now' = now + 1
  /\ UNCHANGED <<restarts, current, snaps, refs, memory, res, row, rail>>

-----------------------------------------------------------------------------
(* proposeIntent.                                                          *)

\* The idempotency lookup and the capture of the current snapshot.
Propose(c) ==
  /\ pc[c] = "idle"
  /\ IF idem[KeyOf[c]] # NoEnvelope
     THEN pc' = [pc EXCEPT ![c] = "done"] /\ UNCHANGED captured
     ELSE /\ pc' = [pc EXCEPT ![c] = "facts"]
          /\ captured' = [captured EXCEPT ![c] = current]
  /\ UNCHANGED <<now, restarts, current, snaps, refs, idem, consumed, res,
                 prompt, held, approving, row, cred, rail>>

\* normalizeFacts throws (the FX quote failed): nothing has been recorded.
FactsFail(c) ==
  /\ pc[c] = "facts"
  /\ pc' = [pc EXCEPT ![c] = "failed"]
  /\ UNCHANGED <<now, restarts, current, snaps, refs, idem, captured, consumed,
                 res, prompt, held, approving, row, cred, rail>>

\* A deny is audited, then cached; if the audit append throws, it is not cached.
Deny(c, audited) ==
  /\ pc' = [pc EXCEPT ![c] = IF audited THEN "done" ELSE "failed"]
  /\ idem' = IF audited THEN [idem EXCEPT ![KeyOf[c]] = Envelope("deny", c)] ELSE idem

\* The reservation is already inserted when retain throws "unknown snapshot",
\* and retain stands outside the try that would release it.
RetainThen(c, next) ==
  IF captured[c] \in snaps
  THEN /\ RetainSnapshot(captured[c])
       /\ pc' = [pc EXCEPT ![c] = next]
  ELSE /\ pc' = [pc EXCEPT ![c] = "dropped"]
       /\ UNCHANGED refs

DecideDeny(c, audited) ==
  /\ pc[c] = "facts"
  /\ EffectOf[captured[c]][c] = "deny"
  /\ Deny(c, audited)
  /\ UNCHANGED <<now, restarts, current, snaps, refs, captured, consumed, res,
                 prompt, held, approving, row, cred, rail>>

\* An allow within the limits reserves and asks the rail to mint.
DecideAllow(c, audited) ==
  /\ pc[c] = "facts"
  /\ EffectOf[captured[c]][c] = "allow"
  /\ IF WithinLimits(c)
     THEN Reserve(c) /\ RetainThen(c, "minting") /\ UNCHANGED idem
     ELSE Deny(c, audited) /\ UNCHANGED <<res, refs>>
  /\ UNCHANGED <<now, restarts, current, snaps, captured, consumed, prompt,
                 held, approving, row, cred, rail>>

BudgetLeft == Cardinality({c \in Call : consumed[c] # Never /\ consumed[c] > now - BudgetWindow})
                < BudgetMax

\* createApproval up to the await of channel.prompt.  The budget is consumed
\* even when the limits then refuse the intent.
DecideApproval(c, audited) ==
  /\ pc[c] = "facts"
  /\ EffectOf[captured[c]][c] = "require_approval"
  /\ IF ~BudgetLeft
     THEN Deny(c, audited) /\ UNCHANGED <<consumed, res, refs>>
     ELSE /\ consumed' = [consumed EXCEPT ![c] = now]
          /\ IF WithinLimits(c)
             THEN Reserve(c) /\ RetainThen(c, "prompting") /\ UNCHANGED idem
             ELSE Deny(c, TRUE) /\ UNCHANGED <<res, refs>>
  /\ UNCHANGED <<now, restarts, current, snaps, captured, prompt, held,
                 approving, row, cred, rail>>

\* The rail creates the credential: its answer may still be lost.
RailMints(c) ==
  /\ rail[c] = "none"
  /\ pc[c] = "minting" \/ approving[c] > 0
  /\ rail' = [rail EXCEPT ![c] = "live"]
  /\ UNCHANGED <<now, restarts, current, snaps, refs, memory, res, row>>

\* The mint's answer arrives: commit, audit, cache.  When the audit append
\* throws after the commit, the catch's release throws too ("not pending"), so
\* the snapshot stays retained and nobody learns of the credential.
MintReturns(c, audited) ==
  /\ pc[c] = "minting"
  /\ rail[c] # "none"
  /\ CanCommit(c)
  /\ res' = [res EXCEPT ![c] = Committed(c)]
  /\ IF audited
     THEN /\ pc' = [pc EXCEPT ![c] = "done"]
          /\ idem' = [idem EXCEPT ![KeyOf[c]] = Envelope("allow", c)]
          /\ cred' = [cred EXCEPT ![c] = "open"]
     ELSE pc' = [pc EXCEPT ![c] = "stranded"] /\ UNCHANGED <<idem, cred>>
  /\ UNCHANGED <<now, restarts, current, snaps, refs, captured, consumed,
                 prompt, held, approving, row, rail>>

\* Mutants of MintFails: the snapshot is not released; the envelope was cached
\* before the mint; a rail that stays silent never times out.
MintFailsRetains(c) ==
  /\ pc[c] = "minting"
  /\ res' = [res EXCEPT ![c] = Released(c)]
  /\ pc' = [pc EXCEPT ![c] = "failed"]
  /\ UNCHANGED <<now, restarts, current, snaps, refs, idem, captured, consumed,
                 prompt, held, approving, row, cred, rail>>

MintFailsCached(c) ==
  /\ pc[c] = "minting"
  /\ res' = [res EXCEPT ![c] = Released(c)]
  /\ ReleaseSnapshot(captured[c])
  /\ pc' = [pc EXCEPT ![c] = "failed"]
  /\ idem' = [idem EXCEPT ![KeyOf[c]] = Envelope("allow", c)]
  /\ UNCHANGED <<now, restarts, current, captured, consumed, prompt, held,
                 approving, row, cred, rail>>

\* The mint fails, or its answer is lost or carries another hash.
MintFails(c) ==
  /\ pc[c] = "minting"
  /\ res' = [res EXCEPT ![c] = Released(c)]
  /\ ReleaseSnapshot(captured[c])
  /\ pc' = [pc EXCEPT ![c] = "failed"]
  /\ UNCHANGED <<now, restarts, current, idem, captured, consumed, prompt,
                 held, approving, row, cred, rail>>

\* The channel accepted the prompt: only now can a callback find the record.
PromptReturns(c, audited) ==
  /\ pc[c] = "prompting"
  /\ prompt' = [prompt EXCEPT ![c] = "pending_approval"]
  /\ held' = [held EXCEPT ![c] = TRUE]
  /\ row' = [row EXCEPT ![c] = "pending"]
  /\ pc' = [pc EXCEPT ![c] = IF audited THEN "done" ELSE "failed"]
  /\ idem' = IF audited
             THEN [idem EXCEPT ![KeyOf[c]] = Envelope("pending_approval", c)]
             ELSE idem
  /\ UNCHANGED <<now, restarts, current, snaps, refs, captured, consumed, res,
                 approving, cred, rail>>

\* Mutant of PromptFails: the reservation is not released.
PromptFailsReserved(c) ==
  /\ pc[c] = "prompting"
  /\ ReleaseSnapshot(captured[c])
  /\ pc' = [pc EXCEPT ![c] = "failed"]
  /\ UNCHANGED <<now, restarts, current, idem, captured, consumed, res, prompt,
                 held, approving, row, cred, rail>>

PromptFails(c) ==
  /\ pc[c] = "prompting"
  /\ res' = [res EXCEPT ![c] = Released(c)]
  /\ ReleaseSnapshot(captured[c])
  /\ pc' = [pc EXCEPT ![c] = "failed"]
  /\ UNCHANGED <<now, restarts, current, idem, captured, consumed, prompt,
                 held, approving, row, cred, rail>>

-----------------------------------------------------------------------------
(* The life of an approval record.                                         *)

\* expires_at is set in the step that inserts the reservation.
Expired(c) == res[c].created + ApprovalTtl <= now

\* Mutant of LetGo: releasing again releases again.
LetGoAgain(c) ==
  /\ held' = [held EXCEPT ![c] = FALSE]
  /\ res' = [res EXCEPT ![c] = Released(c)]
  /\ ReleaseSnapshot(captured[c])

\* releaseReservation and releaseSnapshot: each does nothing the second time.
LetGo(c) ==
  IF held[c]
  THEN /\ held' = [held EXCEPT ![c] = FALSE]
       /\ res' = [res EXCEPT ![c] = Released(c)]
       /\ ReleaseSnapshot(captured[c])
  ELSE UNCHANGED <<held, res, snaps, refs>>

Resolve(c, state, status) ==
  /\ prompt' = [prompt EXCEPT ![c] = state]
  /\ row' = [row EXCEPT ![c] = status]
  /\ LetGo(c)
  /\ UNCHANGED <<now, restarts, current, idem, pc, captured, consumed,
                 approving, cred, rail>>

\* cancelIntent audits before it updates the approvals row.
CancelIntent(c, audited) ==
  /\ prompt[c] = "pending_approval"
  /\ Resolve(c, "cancelled", IF audited THEN "denied" ELSE row[c])

\* expirePrompt, from getApprovalStatus or from a late callback.
ExpirePrompt(c) ==
  /\ prompt[c] = "pending_approval"
  /\ Expired(c)
  /\ Resolve(c, "expired", "expired")

\* Mutant of CallbackOpen: a decided record is let through.
CallbackAlways(c) == prompt[c] # "none" /\ ~Expired(c)

\* The checks handleApprovalCallback makes of the record before the decision;
\* a stale record passes them again.
CallbackOpen(c) ==
  /\ prompt[c] \notin {"none", "approved", "denied", "cancelled"}
  /\ ~Expired(c)

\* The policy was reloaded, or the callback names another policy hash.
CallbackStale(c, sameHash) ==
  /\ CallbackOpen(c)
  /\ captured[c] # current \/ ~sameHash
  /\ Resolve(c, "stale", "denied")

CallbackDeny(c) ==
  /\ CallbackOpen(c)
  /\ captured[c] = current
  /\ Resolve(c, "denied", "denied")

\* An approve callback asks the rail to mint and waits.
CallbackApprove(c) ==
  /\ CallbackOpen(c)
  /\ captured[c] = current
  /\ approving[c] < MaxCallbacks
  /\ approving' = [approving EXCEPT ![c] = @ + 1]
  /\ UNCHANGED <<now, restarts, current, snaps, refs, idem, pc, captured,
                 consumed, res, prompt, held, row, cred, rail>>

\* Mutant of ApproveReturns: a commit that changed no row does not throw.
ApproveUnchecked(c) ==
  /\ approving[c] > 0
  /\ rail[c] # "none"
  /\ approving' = [approving EXCEPT ![c] = @ - 1]
  /\ res' = IF CanCommit(c) THEN [res EXCEPT ![c] = Committed(c)] ELSE res
  /\ prompt' = [prompt EXCEPT ![c] = "approved"]
  /\ row' = [row EXCEPT ![c] = "approved"]
  /\ cred' = [cred EXCEPT ![c] = "open"]
  /\ UNCHANGED <<now, restarts, current, snaps, refs, idem, pc, captured,
                 consumed, held, rail>>

\* Its mint answers.  The record is not looked at again: commit throws when the
\* reservation was let go meanwhile or another callback has committed it.
ApproveReturns(c) ==
  /\ approving[c] > 0
  /\ rail[c] # "none"
  /\ approving' = [approving EXCEPT ![c] = @ - 1]
  /\ IF held[c] /\ CanCommit(c)
     THEN /\ res' = [res EXCEPT ![c] = Committed(c)]
          /\ prompt' = [prompt EXCEPT ![c] = "approved"]
          /\ row' = [row EXCEPT ![c] = "approved"]
          /\ cred' = [cred EXCEPT ![c] = "open"]
     ELSE UNCHANGED <<res, prompt, row, cred>>
  /\ UNCHANGED <<now, restarts, current, snaps, refs, idem, pc, captured,
                 consumed, held, rail>>

ApproveFails(c) ==
  /\ approving[c] > 0
  /\ approving' = [approving EXCEPT ![c] = @ - 1]
  /\ UNCHANGED <<now, restarts, current, snaps, refs, idem, pc, captured,
                 consumed, res, prompt, held, row, cred, rail>>

-----------------------------------------------------------------------------
(* Credentials, policy reloads and restarts.                               *)

\* releaseCredentialSnapshot works once per credential record.
CloseCredential(c) ==
  IF cred[c] = "open"
  THEN cred' = [cred EXCEPT ![c] = "closed"] /\ ReleaseSnapshot(captured[c])
  ELSE UNCHANGED <<cred, snaps, refs>>

RevokeCredential(c) ==
  /\ cred[c] # "none"
  /\ rail' = [rail EXCEPT ![c] = "revoked"]
  /\ CloseCredential(c)
  /\ UNCHANGED <<now, restarts, current, idem, pc, captured, consumed, res,
                 prompt, held, approving, row>>

AckSettlement(c) ==
  /\ cred[c] # "none"
  /\ CloseCredential(c)
  /\ UNCHANGED <<now, restarts, current, idem, pc, captured, consumed, res,
                 prompt, held, approving, row, rail>>

ReloadPolicy(p) ==
  /\ current' = p
  /\ snaps' = Kept(snaps \cup {p}, refs, p)
  /\ UNCHANGED <<now, restarts, refs, memory, res, row, rail>>

\* The process stops or dies and starts again on policy file p: the maps are
\* gone, the tables stay, and start sweeps the expired reservations.
Restart(p) ==
  /\ restarts < MaxRestarts
  /\ restarts' = restarts + 1
  /\ current' = p
  /\ snaps' = {p}
  /\ refs' = [q \in Policy |-> 0]
  /\ idem' = [k \in Key |-> NoEnvelope]
  /\ pc' = [c \in Call |-> IF pc[c] = "idle" THEN "idle" ELSE "lost"]
  /\ consumed' = [c \in Call |-> Never]
  /\ res' = [c \in Call |-> IF res[c].expires < now THEN Released(c) ELSE res[c]]
  /\ prompt' = [c \in Call |-> "none"]
  /\ held' = [c \in Call |-> FALSE]
  /\ approving' = [c \in Call |-> 0]
  /\ cred' = [c \in Call |-> "none"]
  /\ UNCHANGED <<now, captured, row, rail>>

-----------------------------------------------------------------------------
\* What the engine runs when a wait ends.
Continue(c) ==
  \/ FactsFail(c)
  \/ \E audited \in BOOLEAN : \/ DecideDeny(c, audited)
                              \/ DecideAllow(c, audited)
                              \/ DecideApproval(c, audited)
                              \/ MintReturns(c, audited)
                              \/ PromptReturns(c, audited)
  \/ MintFails(c)
  \/ PromptFails(c)

FinishApproval(c) == ApproveReturns(c) \/ ApproveFails(c)

\* What the caller, the approver and the rail do.
Environment(c) ==
  \/ Propose(c)
  \/ RailMints(c)
  \/ \E audited \in BOOLEAN : CancelIntent(c, audited)
  \/ ExpirePrompt(c)
  \/ \E sameHash \in BOOLEAN : CallbackStale(c, sameHash)
  \/ CallbackDeny(c)
  \/ CallbackApprove(c)
  \/ RevokeCredential(c)
  \/ AckSettlement(c)

Next ==
  \/ Tick
  \/ \E c \in Call : Continue(c) \/ FinishApproval(c) \/ Environment(c)
  \/ \E p \in Policy : ReloadPolicy(p) \/ Restart(p)

\* No fairness: the engine awaits the FX service, the rail and the channel
\* without a timeout, so nothing in it makes a wait end.
Spec == Init /\ [][Next]_vars

-----------------------------------------------------------------------------
(* Properties.                                                             *)

\* Every variable stays in its type, and the two tables agree on which calls
\* hold a reservation at all.
TypeOK ==
  /\ now \in 0..MaxTime
  /\ restarts \in 0..MaxRestarts
  /\ current \in Policy
  /\ snaps \in SUBSET Policy
  /\ refs \in [Policy -> Nat]
  /\ idem \in [Key -> Envelopes]
  /\ pc \in [Call -> {"idle"} \cup Waiting \cup Settled]
  /\ captured \in [Call -> Policy]
  /\ consumed \in [Call -> {Never} \cup 0..MaxTime]
  /\ res \in [Call -> [status  : {"none", "pending", "committed", "released"},
                        created : 0..MaxTime, expires : Nat, late : BOOLEAN]]
  /\ prompt \in [Call -> {"none", "pending_approval", "approved", "denied",
                           "cancelled", "expired", "stale"}]
  /\ held \in [Call -> BOOLEAN]
  /\ approving \in [Call -> 0..MaxCallbacks]
  /\ row \in [Call -> {"none", "pending", "approved", "denied", "expired"}]
  /\ cred \in [Call -> {"none", "open", "closed"}]
  /\ rail \in [Call -> {"none", "live", "revoked"}]

\* The reservations that were not committed after their expiry.
OnTime(S) == {c \in S : ~(res[c].status = "committed" /\ res[c].late)}

\* per_day_count: whatever interleaving of proposals, approvals, reloads and
\* restarts, the intents a rule has in its rolling window never exceed the
\* count of some policy that ran, late commits left aside.
CountCap == \A r \in Rule : \E p \in Policy :
              Cardinality(OnTime(DaySet(r))) <= MaxCount[p][r]

\* per_day_usd, the same for the sum of the amounts.
UsdCap == \A r \in Rule : \E p \in Policy : Usd(OnTime(DaySet(r))) <= MaxUsd[p][r]

\* per_purchase_usd: intents that share a purchase_id stay within the cap.
PurchaseCap == \A q \in {PurchaseOf[c] : c \in Call} : \E p \in Policy, r \in Rule :
                 Usd(OnTime(PurchaseSet(q))) <= MaxPurchase[p][r]

\* Who needs a snapshot: a proposal waiting for the rail or the channel (or
\* stranded after its commit), an undecided prompt, an unsettled credential.
Holder(c) == \/ pc[c] \in {"minting", "prompting", "stranded"}
             \/ held[c] /\ prompt[c] = "pending_approval"
             \/ cred[c] = "open"

Holders(p) == {c \in Call : Holder(c) /\ captured[c] = p}

\* Snapshot refcounts are exact: nothing that needs a snapshot loses it, none
\* is kept for nobody, and release never runs without a retain.
RefsExact == \A p \in Policy : refs[p] = Cardinality(Holders(p))
HeldAreKept == \A p \in Policy : (Holders(p) # {} \/ p = current) => p \in snaps

\* A credential a caller can name, and an approval the table calls approved,
\* are backed by a committed reservation, also after a restart.
HandedOutIsCommitted == \A c \in Call :
  cred[c] # "none" \/ row[c] = "approved" => res[c].status = "committed"

\* A cached envelope tells a retry the truth about the intent it names.
EnvelopeTrue == \A k \in Key :
  /\ idem[k].decision = "allow" =>
       cred[idem[k].intent] # "none" /\ res[idem[k].intent].status = "committed"
  /\ idem[k].decision = "pending_approval" => prompt[idem[k].intent] # "none"
  /\ idem[k].decision = "deny" => res[idem[k].intent].status = "none"

\* A proposal that failed without leaving a prompt behind holds no budget.
FailedHoldsNothing == \A c \in Call :
  pc[c] = "failed" /\ prompt[c] = "none" => res[c].status # "pending"

\* Decisions are final: a decided prompt never changes its mind while the
\* process lives, and a ledger row that was committed or released stays so.
DecisionsFinal == [][\A c \in Call :
  /\ prompt[c] \in {"approved", "denied", "cancelled", "expired"} =>
       prompt'[c] = prompt[c] \/ restarts' # restarts
  /\ res[c].status \in {"committed", "released"} => res'[c] = res[c]]_vars

-----------------------------------------------------------------------------
(* What the documents say and the code does not do.                        *)

\* per_day_count read literally: late commits count too.
RollingCountCap == \A r \in Rule : \E p \in Policy :
                     Cardinality(DaySet(r)) <= MaxCount[p][r]

\* An intent in flight keeps its snapshot: a reload never makes its retain
\* throw and leave its reservation behind.
ReloadDropsNoIntent == \A c \in Call : pc[c] # "dropped"

\* The rail mints for a prompt only while the prompt is undecided.
MintsOnlyUndecided == [][\A c \in Call :
  rail[c] = "none" /\ rail'[c] = "live" /\ prompt[c] # "none"
    => prompt[c] = "pending_approval"]_vars
=============================================================================
