--------------------------- MODULE MandateCheckout ---------------------------
(***************************************************************************)
(* Mandates, from the buyer's UCP driver to the charge.  The merchant      *)
(* opens a checkout, signs its terms (merchant_authorization) and, when    *)
(* the buyer's profile advertises AP2, locks it and issues two nonces; the *)
(* buyer signs a checkout mandate and a payment mandate over the terms it  *)
(* was shown; the merchant verifies the first and spends its nonce, the    *)
(* payment provider verifies the second and charges.                       *)
(*                                                                         *)
(* A signature, a hash and an SD-JWT are the facts they stand for: what    *)
(* was signed, and whether it still verifies (form).  The total stands for *)
(* the line items, the currency and the totals of a checkout.  Retries of  *)
(* one request, the merchant policy and crashes are in MerchantCheckout:   *)
(* here an attempt is one request under an idempotency key of its own.     *)
(***************************************************************************)
EXTENDS Integers, FiniteSets

CONSTANTS
  Checkout,    \* checkout ids
  Locked,      \* the ones whose buyer's profile advertises AP2
  Terms,       \* totals
  FirstTerms,  \* what the catalogue makes of the items a checkout opens with
  Attempt,     \* completion requests
  Choices(_),  \* Choices(a): the checkout, form, handler, credential and nonce a may use
  NonceTtl,    \* nonceTtlSeconds
  MandateTtl,  \* checkoutMandateExpiresInSeconds
  PaymentTtl,  \* paymentMandateExpiresInSeconds
  MaxTime,     \* bound on the clock
  MaxUpdates   \* bound on updates

\* A mandate verifies, is missing, is signed by a key outside the trust model, or
\* no longer matches its signatures; the handler is one the provider has or not.
Choice == [checkout : Checkout,
           form     : {"good", "absent", "foreign", "tampered"},
           handler  : {"supported", "unsupported"},
           pays     : {"ap2_payment_mandate", "token"},
           nonce    : Checkout]

MandateAssumption ==
  /\ Locked \subseteq Checkout
  /\ Terms \subseteq Nat \ {0} /\ FirstTerms \in Terms
  /\ \A a \in Attempt : Choices(a) \subseteq Choice
  /\ {NonceTtl, MandateTtl, PaymentTtl} \subseteq Nat \ {0}
  /\ {MaxTime, MaxUpdates} \subseteq Nat

VARIABLES
  now,       \* the clocks of the buyer, the merchant and the provider
  row,       \* the merchant's session store
  nonce,     \* the nonce store, by nonce
  shown,     \* the terms each buyer was last answered, 0 for none
  request,   \* what each attempt carries
  pc,        \* where the merchant is with it
  answer,    \* how it was answered
  update,    \* an update between its read and its write
  updates,   \* how many there were
  charge,    \* the provider's record under psp:ucp:<id>:capture
  accepted   \* history: the attempts whose mandate was accepted

vars == <<now, row, nonce, shown, request, pc, answer, update, updates, charge, accepted>>

Absent == [status |-> "none", terms |-> 0]
NoRecord == [session |-> "none", expires |-> 0, consumed |-> FALSE]
NoUpdate == [checkout |-> "none", row |-> Absent, terms |-> 0]
NoCharge == [terms |-> 0, at |-> 0]

Nonce == Checkout \X {"checkout", "payment"}

\* What the buyer signs, and what a completion carries.
NoMandate == [form |-> "none", terms |-> 0, nonce |-> "none", iat |-> 0, exp |-> 0]
NoPayment == [kind |-> "none", transaction |-> [sha256 |-> 0], amount |-> 0, exp |-> 0]
Blank == [checkout |-> "none", handler |-> "none", mandate |-> NoMandate, payment |-> NoPayment]

Init ==
  /\ now = 0
  /\ row = [c \in Checkout |-> Absent]
  /\ nonce = [n \in Nonce |-> NoRecord]
  /\ shown = [c \in Checkout |-> 0]
  /\ request = [a \in Attempt |-> Blank]
  /\ pc = [a \in Attempt |-> "idle"]
  /\ answer = [a \in Attempt |-> "none"]
  /\ update = NoUpdate /\ updates = 0
  /\ charge = [c \in Checkout |-> NoCharge]
  /\ accepted = {}

(***************************************************************************)
(* The nonce store                                                         *)
(***************************************************************************)
isExpired(record) == record.expires <= now

pruneExpired == [n \in Nonce |-> IF isExpired(nonce[n]) THEN NoRecord ELSE nonce[n]]

\* Both nonces of a checkout; each issue prunes first.
issued(c) == [n \in Nonce |->
  IF n[1] = c THEN [session |-> c, expires |-> now + NonceTtl, consumed |-> FALSE]
  ELSE pruneExpired[n]]

\* The first reason consumeRecord gives, or "ok".
consumed(n, session) ==
  IF nonce[n] = NoRecord THEN "missing"
  ELSE IF isExpired(nonce[n]) THEN "expired"
  ELSE IF nonce[n].session # session THEN "session_mismatch"
  ELSE IF nonce[n].consumed THEN "already_consumed" ELSE "ok"

\* Mutant of AfterConsume: a nonce is checked and never marked.
AfterCheck(n, session) ==
  IF consumed(n, session) = "expired" THEN [nonce EXCEPT ![n] = NoRecord] ELSE nonce

\* What consuming does to the store: spend the nonce, or drop it when stale.
AfterConsume(n, session) ==
  CASE consumed(n, session) = "ok" -> [nonce EXCEPT ![n].consumed = TRUE]
    [] consumed(n, session) = "expired" -> [nonce EXCEPT ![n] = NoRecord]
    [] OTHER -> nonce

(***************************************************************************)
(* The merchant's checkout.  A transition holds the session's queue from   *)
(* its claim to its last write; a put waits for it.                        *)
(***************************************************************************)
Holds(a) == pc[a] \in {"claimed", "verified", "paying"}
Free(c) == \A a \in Attempt : Holds(a) => request[a].checkout # c

\* The merchant's signer over a checkout: the default one is only built from an
\* active key that can sign, one that the merchant supplies may throw.
merchantAuthorization == {"signed", "thrown"}

\* How the answer to a request that has already been handled ends: a locked
\* checkout is answered with its merchant_authorization, or with an error.
prepareUcpCheckoutResponse(c) == IF c \in Locked THEN merchantAuthorization ELSE {"signed"}

\* The buyer is shown terms, unless the answer could not be signed.
Shown(c, terms) == \E end \in prepareUcpCheckoutResponse(c) :
  shown' = IF end = "signed" THEN [shown EXCEPT ![c] = terms] ELSE shown

\* createCheckout: store the session, locked and with nonces when AP2 is on, then
\* answer it.
createCheckout(c) ==
  /\ row[c] = Absent
  /\ row' = [row EXCEPT ![c] = [status |-> "ready", terms |-> FirstTerms]]
  /\ nonce' = IF c \in Locked THEN issued(c) ELSE nonce
  /\ Shown(c, FirstTerms)
  /\ UNCHANGED <<now, request, pc, answer, update, updates, charge, accepted>>

getCheckout(c) ==
  /\ row[c] # Absent /\ shown[c] # row[c].terms
  /\ Shown(c, row[c].terms)
  /\ UNCHANGED <<now, row, nonce, request, pc, answer, update, updates, charge, accepted>>

\* updateCheckout reads the session, waits for the policy and puts what it read,
\* changed: the nonces and the lock stay as they were issued.  It is stored before
\* the answer is signed.
updateRead(c, t) ==
  /\ update = NoUpdate /\ updates < MaxUpdates
  /\ row[c] # Absent /\ t # row[c].terms
  /\ update' = [checkout |-> c, row |-> row[c], terms |-> t]
  /\ updates' = updates + 1
  /\ UNCHANGED <<now, row, nonce, shown, request, pc, answer, charge, accepted>>

updateWrite ==
  LET c == update.checkout IN
  /\ update # NoUpdate /\ Free(c)
  /\ row' = [row EXCEPT ![c] = [update.row EXCEPT !.terms = update.terms]]
  /\ Shown(c, update.terms)
  /\ update' = NoUpdate
  /\ UNCHANGED <<now, nonce, request, pc, answer, updates, charge, accepted>>

(***************************************************************************)
(* The buyer verifies the merchant's authorization of what it was shown    *)
(* (which holds of all the merchant answers) and signs over it.  A nonce   *)
(* configured in its options is used for every checkout.                   *)
(***************************************************************************)
\* Nothing is signed over a checkout that carries no merchant_authorization.
carriesMerchantAuthorization(choice) == shown[choice.checkout] # 0

signCompactJws(choice, terms, exp) ==
  [form |-> choice.form, terms |-> terms, nonce |-> choice.nonce, iat |-> now, exp |-> exp]

\* The terms are always disclosed; what may be withheld is the buyer's own.
issueSdJwtKbPresentation(choice, ttl) ==
  signCompactJws(choice, shown[choice.checkout], now + ttl)

checkoutMandate(choice) == issueSdJwtKbPresentation(choice, MandateTtl)

\* transaction_id is the hash of the authorization, so of the terms it covers.
ucpAp2PaymentTransactionId(terms) == [sha256 |-> terms]

paymentMandate(choice) == LET m == issueSdJwtKbPresentation(choice, PaymentTtl) IN
  [kind |-> choice.pays, transaction |-> ucpAp2PaymentTransactionId(m.terms), amount |-> m.terms, exp |-> m.exp]

purchase(a, choice) ==
  /\ pc[a] = "idle" /\ carriesMerchantAuthorization(choice)
  /\ request' = [request EXCEPT ![a] =
       [checkout |-> choice.checkout, handler |-> choice.handler,
        mandate |-> checkoutMandate(choice), payment |-> paymentMandate(choice)]]
  /\ pc' = [pc EXCEPT ![a] = "sent"]
  /\ UNCHANGED <<now, row, nonce, shown, answer, update, updates, charge, accepted>>

(***************************************************************************)
(* The merchant's completeCheckout                                         *)
(***************************************************************************)
\* An attempt is answered; the session moves to a status, or stays.
Answered(a, status, what) ==
  /\ row' = [row EXCEPT ![request[a].checkout].status = status]
  /\ pc' = [pc EXCEPT ![a] = "ended"]
  /\ answer' = [answer EXCEPT ![a] = what]

\* The same, through prepareUcpCheckoutResponse: the session has already moved.
Prepared(a, status, what) == \E end \in prepareUcpCheckoutResponse(request[a].checkout) :
  Answered(a, status, IF end = "signed" THEN what ELSE "internal_error")

Stays(a) == row[request[a].checkout].status

\* The envelope is there: what it holds is for the verifier.
isValidAp2EnvelopeOnRequest(m) == m.form # "absent"

MandateRequired(a) ==
  request[a].checkout \in Locked /\ ~isValidAp2EnvelopeOnRequest(request[a].mandate)

\* A locked session answers a request without a mandate before any claim.
\* Else the transition claims a ready session, or conflicts.
completeCheckout(a) ==
  LET c == request[a].checkout IN
  /\ pc[a] = "sent" /\ Free(c)
  /\ \/ /\ MandateRequired(a)
        /\ Answered(a, Stays(a), "mandate_required")
     \/ /\ ~MandateRequired(a) /\ row[c].status # "ready"
        /\ Answered(a, Stays(a), "conflict")
     \/ /\ ~MandateRequired(a) /\ row[c].status = "ready"
        /\ row' = [row EXCEPT ![c].status = "complete_in_progress"]
        /\ pc' = [pc EXCEPT ![a] = "claimed"]
        /\ UNCHANGED answer
  /\ UNCHANGED <<now, nonce, shown, request, update, updates, charge, accepted>>

\* The code of the first check that fails, in the order of the verifiers; the
\* nonce comes last and in a step of its own.
Failing(checks) == {i \in DOMAIN checks : checks[i].fails}

FirstFailure(checks) ==
  IF Failing(checks) = {} THEN "ok"
  ELSE checks[CHOOSE i \in Failing(checks) : \A j \in Failing(checks) : i <= j].code

\* Mutant of checkoutTermsMatch: the totals are left out of the comparison.
checkoutIdsMatch(a) == request[a].mandate.terms # 0

\* What the merchant signed and the buyer embedded is the session as it is now.
checkoutTermsMatch(a) == request[a].mandate.terms = row[request[a].checkout].terms

trustedIssuer(m) == m.form # "foreign"
validSignatures(m) == m.form # "tampered"
trustedKey(m) == m.form # "foreign"
validJws(m) == m.form # "tampered"

sdJwtKbChecks(a) == LET m == request[a].mandate IN
  << [code |-> "agent_missing_key",         fails |-> ~trustedIssuer(m)],
     [code |-> "mandate_invalid_signature", fails |-> ~validSignatures(m) \/ m.iat > now],
     [code |-> "mandate_expired",           fails |-> m.exp <= now],
     [code |-> "mandate_scope_mismatch",    fails |-> ~checkoutTermsMatch(a)] >>

steelyardJwsChecks(a) == LET m == request[a].mandate IN
  << [code |-> "mandate_required",  fails |-> m.form = "absent"],
     [code |-> "untrusted_key",     fails |-> ~trustedKey(m)],
     [code |-> "invalid_signature", fails |-> ~validJws(m)],
     [code |-> "issued_in_future",  fails |-> m.iat > now],
     [code |-> "expired",           fails |-> m.exp <= now],
     [code |-> "checkout_mismatch", fails |-> ~checkoutTermsMatch(a)] >>

verdict(a) ==
  FirstFailure(IF request[a].checkout \in Locked THEN sdJwtKbChecks(a) ELSE steelyardJwsChecks(a))

\* The handler is checked first; a failed mandate cancels the checkout.
verify(a) ==
  /\ pc[a] = "claimed"
  /\ \/ /\ request[a].handler = "unsupported"
        /\ Prepared(a, "canceled", "payment_handler_mismatch")
        /\ UNCHANGED accepted
     \/ /\ request[a].handler = "supported" /\ verdict(a) # "ok"
        /\ Prepared(a, "canceled", verdict(a))
        /\ UNCHANGED accepted
     \/ /\ request[a].handler = "supported" /\ verdict(a) = "ok"
        /\ pc' = [pc EXCEPT ![a] =
             IF request[a].checkout \in Locked THEN "verified" ELSE "paying"]
        /\ accepted' = IF request[a].checkout \in Locked THEN accepted ELSE accepted \cup {a}
        /\ UNCHANGED <<row, answer>>
  /\ UNCHANGED <<now, nonce, shown, request, update, updates, charge>>

consumeNonce(a) ==
  LET n == <<request[a].mandate.nonce, "checkout">>  c == request[a].checkout IN
  /\ pc[a] = "verified"
  /\ nonce' = AfterConsume(n, c)
  /\ IF consumed(n, c) = "ok"
     THEN /\ pc' = [pc EXCEPT ![a] = "paying"]
          /\ accepted' = accepted \cup {a}
          /\ UNCHANGED <<row, answer>>
     ELSE /\ Prepared(a, "canceled", "mandate_invalid_signature")
          /\ UNCHANGED accepted
  /\ UNCHANGED <<now, shown, request, update, updates, charge>>

(***************************************************************************)
(* The provider's capture, with the session's terms and under its capture  *)
(* key.  verifyAp2PaymentMandate also wants the checkout mandate's expiry  *)
(* (payment_intent.expires_at) ahead; a mandate that fails it throws, and  *)
(* so does a lost answer: the session keeps its claim.                     *)
(***************************************************************************)
\* ap2PaymentMandateForCapture needs what an AP2 verification returns.
paymentMandateHolds(a) ==
  LET r == request[a]  terms == row[r.checkout].terms IN
  /\ r.checkout \in Locked
  /\ r.payment.exp > now
  /\ r.payment.transaction = ucpAp2PaymentTransactionId(r.mandate.terms)
  /\ r.payment.amount = terms
  /\ r.mandate.exp > now

\* The provider charges once under a key, and repeats its result.
Charged(c) ==
  IF charge[c] # NoCharge THEN charge
  ELSE [charge EXCEPT ![c] = [terms |-> row[c].terms, at |-> now]]

WithMandate(a) == request[a].payment.kind = "ap2_payment_mandate"

capture(a) ==
  LET c == request[a].checkout IN
  /\ pc[a] = "paying"
  /\ \/ /\ WithMandate(a) /\ ~paymentMandateHolds(a)
        /\ Answered(a, Stays(a), "payment_mandate_invalid")
        /\ UNCHANGED charge
     \/ /\ WithMandate(a) => paymentMandateHolds(a)
        /\ \/ /\ charge[c] = NoCharge
              /\ Prepared(a, "canceled", "payment_declined")
              /\ UNCHANGED charge
           \/ /\ charge' = Charged(c)
              /\ \/ Prepared(a, "completed", "completed")
                 \/ Answered(a, Stays(a), "answer_lost")
  /\ UNCHANGED <<now, nonce, shown, request, update, updates, accepted>>

Tick == /\ now < MaxTime
        /\ now' = now + 1
        /\ UNCHANGED <<row, nonce, shown, request, pc, answer, update, updates, charge, accepted>>

Next ==
  \/ \E c \in Checkout : createCheckout(c) \/ getCheckout(c)
  \/ \E c \in Checkout, t \in Terms : updateRead(c, t)
  \/ updateWrite
  \/ \E a \in Attempt : \E choice \in Choices(a) : purchase(a, choice)
  \/ \E a \in Attempt : completeCheckout(a) \/ verify(a) \/ consumeNonce(a) \/ capture(a)
  \/ Tick

Spec == Init /\ [][Next]_vars

(***************************************************************************)
(* Properties                                                              *)
(***************************************************************************)

\* Every charge is for terms the buyer signed, in this checkout and as they stood
\* when it was charged, whatever updates ran since the mandate was issued; and when
\* it was paid with a payment mandate, both mandates were still in force.
ChargeIsMandated ==
  \A c \in Checkout : charge[c] # NoCharge =>
    \E a \in accepted :
      LET r == request[a] IN
      /\ r.checkout = c
      /\ r.mandate.form = "good"
      /\ r.mandate.terms = charge[c].terms
      /\ WithMandate(a) => charge[c].at < r.mandate.exp /\ charge[c].at < r.payment.exp

\* A nonce lets one mandate of a locked checkout through, even when an update that
\* read the session before the completion puts it back to ready afterwards.
MandateUsedOnce ==
  \A a, b \in accepted :
    a # b /\ {request[a].checkout, request[b].checkout} \subseteq Locked
      => request[a].mandate.nonce # request[b].mandate.nonce
==============================================================================
