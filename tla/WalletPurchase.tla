----------------------------- MODULE WalletPurchase -----------------------------
(***************************************************************************)
(* The buyer's purchase flow over the spend ledger:                        *)
(*   packages/buyer/src/wallet/index.ts     purchase, manual sessions,     *)
(*                                          reconcile, rotatePassword      *)
(*   packages/buyer/src/client/{index,acp,ucp,driver-common}.ts            *)
(*                                          the drivers that call merchants*)
(*   packages/buyer/src/vault/vault.ts      open                           *)
(*                                                                         *)
(* A call is one Wallet.purchase (or one browser-manual session) in a      *)
(* process of its own; all of them share the vault directory.  Merchants   *)
(* are the environment: they act on a request, and the answer may be lost  *)
(* or be one the driver rejects.  A step is what runs between two awaits;  *)
(* a ledger operation is one step (VaultLedger), with the time its caller  *)
(* read before it waited for the lock.                                     *)
(***************************************************************************)
EXTENDS VaultLedger

CONSTANTS
    Calls,         \* the calls, each also the id of the reservation it makes
    Protocol,      \* Protocol[c]: "acp" or "ucp", what the merchant speaks
    ByHand,        \* the calls that may be a browser-manual session instead
    KeyOf,         \* KeyOf[c]: the idempotency key of the call
    Price,         \* Price[c]: the amount of the intent
    Total,         \* Total[k]: what the merchant may quote for the order of key k
    Home,          \* the currency of the intents
    MaxTime,       \* bound: the clock stops there
    MaxRotations,  \* bound: password rotations
    MaxMishaps,    \* bound: crashes, rotations and reconciliations together
    Fault          \* what may fail: "ledger", or only where a receipt is kept
                   \* ("settle"), "merchant", "answer"

ASSUME WalletAssumption ==
    /\ Calls \cup DOMAIN Legacy = Ids
    /\ Calls \cap DOMAIN Legacy = {}
    /\ Protocol \in [Calls -> {"acp", "ucp"}]
    /\ ByHand \subseteq Calls
    /\ Home \in Currency
    /\ KeyOf \in [Calls -> DOMAIN Total]
    /\ Price \in [Calls -> Nat]
    /\ \A c \in Calls : Total[KeyOf[c]] \subseteq Nat
    /\ MaxTime \in Nat /\ MaxRotations \in Nat /\ MaxMishaps \in Nat
    /\ MasterKey = 0 .. MaxRotations

VARIABLES
    pc,         \* where each call is
    res,        \* the reservation it works on
    at,         \* the time it read for its next ledger operation
    quote,      \* the total the merchant told it
    handle,     \* the master key it opened the vault with
    shared,     \* history: reservations two calls were at work on at once
    vaultKey,   \* the master key of the vault file
    now,        \* the clock
    order,      \* the merchant's side: one order per idempotency key, with the
                \* reservation whose token paid it
    blind,      \* reservations released on an error after the charge
    crashes, reconciles

callVars == <<pc, res, at, quote, handle, shared>>
worldVars == <<vaultKey, now, order, blind, crashes, reconciles>>
vars == <<header, book, ragged, joined, legacy, pc, res, at, quote, handle, shared,
          vaultKey, now, order, blind, crashes, reconciles>>

Keys == {KeyOf[c] : c \in Calls}

Over == {"done", "failed", "refused", "escalated", "unpersisted", "crashed"}

\* Where a call works on a reservation.
Working == {"create", "update", "adjust", "token", "complete", "answer",
            "release", "escalate", "settle", "shadow"}

AtLedger == {"open", "reserve", "reattach", "adjust", "mismatch", "escalate",
             "release", "settle", "shadow", "record"}

Init ==
    /\ LedgerInit
    /\ pc = [c \in Calls |-> "open"]
    /\ res = [c \in Calls |-> c]
    /\ at = [c \in Calls |-> 0]
    /\ quote = [c \in Calls |-> 0]
    /\ handle = [c \in Calls |-> 0]
    /\ shared = {}
    /\ vaultKey = 0
    /\ now = 0
    /\ order = [k \in Keys |->
                  [state |-> "none", total |-> 0, currency |-> Home, by |-> {}]]
    /\ blind = {}
    /\ crashes = 0
    /\ reconciles = 0

--------------------------------------------------------------------------------
\* Helpers

Mine(c) == book[handle[c]][res[c]]

Holds(c) == IsActive(handle[c], res[c])

AnotherMishap == crashes + reconciles + vaultKey < MaxMishaps

\* The ledger operations that use the time the caller read.
Timed == {"reserve", "reattach", "adjust", "escalate", "settle", "record"}

\* Another call is at work on the reservation.
Joins(c) == \E d \in Calls \ {c} : res[d] = res[c] /\ pc[d] \in Working

\* The call goes on; what it will not use again is forgotten.
To(c, next) ==
    /\ pc' = [pc EXCEPT ![c] = next]
    /\ at' = [at EXCEPT ![c] = IF next \in Timed THEN now ELSE 0]
    /\ shared' = IF next = "create" /\ Joins(c) THEN shared \cup {res[c]} ELSE shared

Only(c, next) ==
    /\ To(c, next)
    /\ quote' = [quote EXCEPT ![c] = IF next \in {"token", "complete"} THEN @ ELSE 0]
    /\ UNCHANGED <<res, handle>>

\* A ledger operation that appends a row, and one that leaves the file alone.
Writes(c, row, next) ==
    /\ appendRows(handle[c], {row})
    /\ Only(c, next)
    /\ UNCHANGED <<legacy, worldVars>>

Leaves(c, next) ==
    /\ Only(c, next)
    /\ UNCHANGED <<ledgerVars, worldVars>>

\* The lock is held by someone else for too long, the header is cut off, or
\* the disk refuses: the operation throws.
LedgerThrows(c) ==
    \/ "ledger" \in Fault
    \/ "settle" \in Fault /\ pc[c] \in {"settle", "shadow"}
    \/ ~Usable

\* After an operation that needs an active reservation did not find it, or threw.
Fails(c, next) ==
    /\ LedgerThrows(c) \/ ~Holds(c)
    /\ Leaves(c, next)

--------------------------------------------------------------------------------
\* Opening the wallet, and deciding

\* BuyerVault.open reads the master key, migrates the old ledger when the new
\* one does not exist, and releases what is overdue; the resume token of a
\* call that was escalated may come with it, whoever else has that token.
Resumable(c) == {res[d] : d \in {e \in Calls \ {c} : pc[e] = "escalated"}}

OpenWallet(c) ==
    /\ pc[c] = "open"
    /\ \E r \in {c} \cup Resumable(c) : res' = [res EXCEPT ![c] = r]
    /\ handle' = [handle EXCEPT ![c] = vaultKey]
    /\ IF MigrationDue
       THEN appendRows(vaultKey, migrateLegacyIfNeeded(Home)) /\ legacy' = {}
       ELSE /\ IF header = "absent"
               THEN UNCHANGED <<header, book, ragged, joined>>
               ELSE appendRows(vaultKey, releaseExpiredEscalations(vaultKey, now))
            /\ UNCHANGED legacy
    /\ To(c, "decide")
    /\ UNCHANGED <<quote, worldVars>>

OpenFails(c) == pc[c] = "open" /\ LedgerThrows(c) /\ Leaves(c, "refused")

\* evaluateLimits: the caps on top of what the ledger has now, the call's own
\* reservation included when it resumes one.
limitsAllow(c) ==
    \A w \in Window :
        Home \in DOMAIN Limits[w] =>
            LET usage == usageForWindow(handle[c], w, Home, now, {})
            IN usage.pending + usage.captured + Price[res[c]] <= Limits[w][Home]

\* The policy is asked and the merchant's page is opened: nothing is reserved.
prepareBrowserManualSession(c) == res[c] = c /\ c \in ByHand /\ Leaves(c, "record")

\* The rules of the policy may deny as well, or ask for an approval that the
\* caller does not have.
Decide(c) ==
    /\ pc[c] = "decide"
    /\ \/ Leaves(c, "refused")
       \/ /\ Usable
          /\ limitsAllow(c)
          /\ \/ res[c] = c /\ Leaves(c, "reserve")
             \/ res[c] # c /\ Leaves(c, "reattach")
             \/ prepareBrowserManualSession(c)

--------------------------------------------------------------------------------
\* Reserving

Reserve(c) ==
    /\ pc[c] = "reserve"
    /\ \/ /\ withinLimits(handle[c], Price[c], Home, at[c], {})
          /\ Writes(c, reserveRow(c, Price[c], Home, at[c]), "create")
       \/ /\ \/ LedgerThrows(c)
             \/ ~withinLimits(handle[c], Price[c], Home, at[c], {})
          /\ Leaves(c, "failed")

\* A resume goes on with the reservation the escalated call left, unless its
\* time is over: then it is released.  The reservation stays escalated, so another
\* call may resume it as well.
Reattach(c) ==
    LET r == Mine(c)
        escalated == r.status = "pending_escalated"
    IN /\ pc[c] = "reattach"
       /\ \/ escalated /\ r.expires > at[c] /\ Leaves(c, "create")
          \/ /\ escalated /\ r.expires <= at[c]
             /\ Writes(c, releaseRow(res[c], "resume_expired"), "failed")
          \/ (~escalated \/ LedgerThrows(c)) /\ Leaves(c, "failed")

--------------------------------------------------------------------------------
\* The drivers

TheOrder(c) == order[KeyOf[res[c]]]

\* Requests that fail before the merchant was asked to charge: a network error,
\* an HTTP error, a status or a handler the driver does not support, no card.
DriverThrows(c) ==
    /\ pc[c] \in {"create", "update", "token", "complete"}
    /\ "merchant" \in Fault
    /\ Leaves(c, "release")

\* The merchant opens one order per idempotency key; a repeated request gets
\* the order as it is.
Create(c) ==
    /\ pc[c] = "create"
    /\ \E t \in Total[KeyOf[res[c]]], cur \in Currency :
         LET opened == IF TheOrder(c).state = "none"
                       THEN [state |-> "open", total |-> t, currency |-> cur, by |-> {}]
                       ELSE TheOrder(c)
         IN /\ order' = [order EXCEPT ![KeyOf[res[c]]] = opened]
            /\ quote' = [quote EXCEPT ![c] = opened.total]
    /\ To(c, IF Protocol[c] = "ucp" THEN "update" ELSE "adjust")
    /\ UNCHANGED <<ledgerVars, res, handle, vaultKey, now, blind, crashes, reconciles>>

\* UCP sends the buyer and the instrument first, and the merchant may answer
\* with another total.
Update(c) ==
    /\ pc[c] = "update"
    /\ \E t \in Total[KeyOf[res[c]]] :
         LET updated == IF TheOrder(c).state = "open"
                        THEN [TheOrder(c) EXCEPT !.total = t]
                        ELSE TheOrder(c)
         IN /\ order' = [order EXCEPT ![KeyOf[res[c]]] = updated]
            /\ quote' = [quote EXCEPT ![c] = updated.total]
    /\ To(c, "adjust")
    /\ UNCHANGED <<ledgerVars, res, handle, vaultKey, now, blind, crashes, reconciles>>

\* Mutants of OnTotalsKnown: the total is taken as it comes; a reservation that
\* is not there is no error.
OnTotalsUnchecked(c) ==
    /\ pc[c] = "adjust"
    /\ \/ Fails(c, "release")
       \/ Holds(c) /\ Writes(c, adjustRow(res[c], quote[c]), "token")

OnTotalsUnheld(c) ==
    /\ pc[c] = "adjust"
    /\ \/ ~Holds(c) /\ Only(c, "token") /\ UNCHANGED <<ledgerVars, worldVars>>
       \/ Holds(c) /\ Writes(c, adjustRow(res[c], quote[c]), "token")

\* VaultLedger.adjust: a total above what is reserved, or no longer under a cap
\* beside the others, releases the reservation and ends the call.
adjust(c, total) ==
    LET r == Mine(c)
        fits == withinLimits(handle[c], total, r.currency, at[c], {res[c]})
    IN CASE total > r.amount -> Writes(c, releaseRow(res[c], "amount_exceeded"), "failed")
         [] total <= r.amount /\ ~fits -> Writes(c, releaseRow(res[c], "cap_exceeded"), "failed")
         [] OTHER -> Writes(c, adjustRow(res[c], total), "token")

\* notifyTotals calls the wallet's onTotalsKnown before any token exists.  A total in
\* another currency ends the call too.
OnTotalsKnown(c) ==
    /\ pc[c] = "adjust"
    /\ \/ Fails(c, "release")
       \/ /\ Holds(c)
          /\ IF TheOrder(c).currency # Mine(c).currency
             THEN Writes(c, releaseRow(res[c], "currency_mismatch"), "failed")
             ELSE adjust(c, quote[c])

\* delegateVaultToken, or the issuer's mandate: a token for that total and no more.
Token(c) == pc[c] = "token" /\ Leaves(c, "complete")

\* The merchant charges the token for the total it was made for; an order that
\* is charged already is answered again, or the new token is refused.
Complete(c) ==
    LET o == TheOrder(c)
        charged == IF o.state = "charged" THEN o
                   ELSE [o EXCEPT !.state = "charged", !.by = {res[c]}]
    IN /\ pc[c] = "complete"
       /\ \/ o.state = "open" /\ o.total = quote[c]
          \/ o.state = "charged"
       /\ order' = [order EXCEPT ![KeyOf[res[c]]] = charged]
       /\ Only(c, "answer")
       /\ UNCHANGED <<ledgerVars, vaultKey, now, blind, crashes, reconciles>>

Refused(c) ==
    /\ pc[c] = "complete"
    /\ TheOrder(c).state = "charged" \/ TheOrder(c).total # quote[c]
    /\ Leaves(c, "release")

\* A merchant may ask for a human's approval instead, and the call be resumed later.
Escalates(c) ==
    /\ pc[c] = "complete"
    /\ TheOrder(c).state = "open"
    /\ Leaves(c, "escalate")

\* The receipt arrives; or the connection breaks, the response's signature is
\* not valid, the body is not the protocol's: the driver throws.
Answer(c) ==
    /\ pc[c] = "answer"
    /\ \/ Leaves(c, "settle")
       \/ "answer" \in Fault /\ Leaves(c, "release")

--------------------------------------------------------------------------------
\* What the wallet does with the outcome

\* Any error but the wallet's own and a resumable one releases the reservation.
Release(c) ==
    /\ pc[c] = "release"
    /\ \/ Fails(c, "failed")
       \/ /\ Holds(c)
          /\ appendRows(handle[c], {releaseRow(res[c], "error")})
          /\ blind' = IF TheOrder(c).state = "charged" THEN blind \cup {res[c]} ELSE blind
          /\ Only(c, "failed")
          /\ UNCHANGED <<legacy, vaultKey, now, order, crashes, reconciles>>

\* The expiry is the merchant's; here the next instant.
MarkEscalated(c) ==
    /\ pc[c] = "escalate"
    /\ \/ Fails(c, "failed")
       \/ /\ Holds(c)
          /\ Writes(c, escalateRow(res[c], at[c] + 1), "escalated")

Receipt(c) == [total |-> TheOrder(c).total, currency |-> TheOrder(c).currency]

Settle(c) ==
    /\ pc[c] = "settle"
    /\ \/ Fails(c, "shadow")
       \/ /\ Holds(c)
          /\ Writes(c, settleRow(res[c], Receipt(c), at[c]), "done")

\* ReceiptPersistenceFailed is thrown either way.
WriteShadowReceipt(c) ==
    /\ pc[c] = "shadow"
    /\ \/ Fails(c, "unpersisted")
       \/ /\ Holds(c)
          /\ Writes(c, shadowRow(res[c]), "unpersisted")

\* VaultLedger.recordSpend looks at no cap.
recordSpend(c) == Writes(c, spendRow(c, Price[c], Home, at[c]), "done")

\* What a human bought by hand is recorded when they say so; or the session is
\* cancelled, or failed, which books nothing that counts.
ManualSession(c) ==
    /\ pc[c] = "record"
    /\ \/ recordSpend(c)
       \/ Leaves(c, "failed")

--------------------------------------------------------------------------------
\* Operators, time and failures

\* Wallet.reconcile, from a wallet opened now; complete takes the receipt the
\* error carried, or the shadow copy.
Reconcile(r) ==
    LET paid == order[KeyOf[r]]
        receipt == [total |-> paid.total, currency |-> paid.currency]
    IN /\ AnotherMishap
       /\ IsActive(vaultKey, r)
       /\ \/ appendRows(vaultKey, {releaseRow(r, "reconciled_release")})
          \/ /\ book[vaultKey][r].shadow \/ (pc[r] = "unpersisted" /\ paid.state = "charged")
             /\ appendRows(vaultKey, {settleRow(r, receipt, now)})
       /\ reconciles' = reconciles + 1
       /\ UNCHANGED <<legacy, callVars, vaultKey, now, order, blind, crashes>>

\* The vault is sealed under a key derived from the new password; the ledger's
\* rows are left as they are.
RotatePassword ==
    /\ AnotherMishap /\ vaultKey < MaxRotations
    /\ vaultKey' = vaultKey + 1
    /\ UNCHANGED <<ledgerVars, callVars, now, order, blind, crashes, reconciles>>

Tick ==
    /\ now < MaxTime
    /\ now' = now + 1
    /\ UNCHANGED <<ledgerVars, callVars, vaultKey, order, blind, crashes, reconciles>>

\* A process dies; inside a ledger operation it may leave half a line, and
\* inside the migration some of the rows.
Crash(c) ==
    /\ AnotherMishap
    /\ pc[c] \notin Over
    /\ crashes' = crashes + 1
    /\ pc' = [pc EXCEPT ![c] = "crashed"]
    /\ \/ UNCHANGED ledgerVars
       \/ pc[c] \in AtLedger /\ CrashInAppend
       \/ /\ pc[c] = "open" /\ MigrationDue
          /\ \E written \in SUBSET migrateLegacyIfNeeded(Home) :
               appendRows(vaultKey, written)
          /\ UNCHANGED legacy
    /\ UNCHANGED <<res, at, quote, handle, shared, vaultKey, now, order, blind, reconciles>>

\* Nothing is left to do: any other state without a step is a deadlock.
Finished ==
    /\ \A c \in Calls : pc[c] \in Over
    /\ UNCHANGED vars

Step(c) ==
    \/ OpenWallet(c) \/ OpenFails(c) \/ Decide(c)
    \/ Reserve(c) \/ Reattach(c)
    \/ Create(c) \/ Update(c) \/ OnTotalsKnown(c) \/ Token(c) \/ DriverThrows(c)
    \/ Complete(c) \/ Refused(c) \/ Escalates(c) \/ Answer(c)
    \/ Release(c) \/ MarkEscalated(c) \/ Settle(c) \/ WriteShadowReceipt(c)
    \/ ManualSession(c)

Next ==
    \/ \E c \in Calls : Step(c) \/ Crash(c)
    \/ \E r \in Calls : Reconcile(r)
    \/ RotatePassword \/ Tick
    \/ Finished

Spec == Init /\ [][Next]_vars
--------------------------------------------------------------------------------
\* Properties

\* For a holder of the first key, the log and its fold are a reservation book: entries
\* are opened only under the caps, whatever the other processes do meanwhile,
\* and what is captured or released stays so, crashes and torn lines included.
Entry(k) ==
    [i \in Ids |->
        LET r == book[k][i]
        IN IF r = Unknown THEN [status |-> "none"]
           ELSE [status |-> r.status, amount |-> r.amount,
                 currency |-> r.currency, stamp |-> reservationTimestamp(r)]]

Book == INSTANCE ReservationBook WITH book <- Entry(0), Cap <- Limits

IsReservationBook == Book!Spec

Made(r) == book[handle[r]][r]

Live(r) == Made(r).status \in Active \cup {"captured"}

ReleasedFor(r, whys) == Made(r).status = "released" /\ Made(r).why \in whys

\* The known ways for a charge to leave the spend totals: the driver reported an
\* error after the merchant had charged (the wallet releases on any error), the
\* escalation's time ran out while a resumed call was paying, an operator released
\* it, a call that resumes it after a crash finds that other spend has filled the
\* cap meanwhile, or two calls resumed one escalation at once.
Lost(r) ==
    \/ r \in blind \cup shared
    \/ ReleasedFor(r, {"resume_expired", "reconciled_release", "cap_exceeded"})

\* A charge never leaves the spend totals but by those ways: the reservation that
\* paid it is live and covers it.
ChargeIsBooked ==
    \A k \in Keys : order[k].state = "charged" =>
        \E r \in order[k].by :
            Lost(r) \/ (Live(r) /\ Made(r).amount >= order[k].total)

\* The reservations of calls that opened the wallet with key k whose token was
\* charged, in the home currency, and whose charge left the totals no known way.
Paid(k) ==
    {r \in Calls : /\ handle[r] = k
                   /\ r \in order[KeyOf[r]].by
                   /\ order[KeyOf[r]].currency = Home
                   /\ ~Lost(r)}

\* Over the windows that reach back to the start, what merchants charged for
\* calls that see one another's reservations stays under the cap: the total is
\* quoted, checked and lowered before a token exists.  Every charge counts, also of a
\* reservation that was released, but those that left the totals a known way.
ChargesWithinCap ==
    \A k \in MasterKey, w \in Window :
        (Length[w] >= MaxTime /\ Home \in DOMAIN Limits[w]) =>
            SumFunction([r \in Paid(k) |-> order[KeyOf[r]].total]) <= Limits[w][Home]

\* A purchase that returned its receipt is captured in the ledger, for whoever
\* holds the key it was settled under; only a line a crash had cut off can
\* have taken the row with it.
ReceiptIsKept ==
    \A c \in Calls :
        pc[c] = "done" =>
            \/ Mine(c).status = "captured"
            \/ joined

\* docs/concepts/reservations.md: settled receipts count as captured spend.
SettledCounts ==
    \A c \in Calls :
        (pc[c] = "done" /\ crashes = 0) => book[vaultKey][res[c]].status = "captured"
================================================================================
