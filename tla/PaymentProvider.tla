---------------------------- MODULE PaymentProvider ----------------------------
(***************************************************************************)
(* The three payment providers a merchant may use.  capture is called with *)
(* a key for each session, again when a completion is recovered; it waits  *)
(* while it verifies a mandate and a token, or for Stripe.  The mock and   *)
(* the reference provider remember results in the process's memory, the    *)
(* Stripe one leaves that to Stripe.                                       *)
(*                                                                         *)
(* A session has its terms for good (a claimed checkout is not updated);   *)
(* what differs between its captures is the payment.  A payment is the     *)
(* token that is charged, and the payment mandate it comes in, if any.     *)
(***************************************************************************)
EXTENDS Integers, Sequences, FiniteSets

CONSTANTS
  Call,         \* calls of capture
  Session,      \* sessions, each with its key "psp:protocol:id:capture"
  Terms(_),     \* Terms(s): its merchant, transaction, amount and currency
  Payment(_),   \* Payment(s): what buyers present to pay it
  AcceptSpts,   \* acceptSharedPaymentTokens
  Outcome,      \* what else may come of a payment at Stripe, or fail at the mock provider
  MaxTime,      \* bound on the clock
  MaxRestarts,  \* bound on restarts
  MaxAnswers    \* bound on captures that return

\* kind: the prefix of its id.  scope: what a dpt_ or an spt_ was issued for.
TokenRecord == [kind : {"dpt", "spt", "vt", "other"}, signed : BOOLEAN, exp : Nat,
                scope : [merchant : STRING, session : STRING, transaction : STRING, amount : Nat,
                         currency : STRING, handler : STRING, instrument : STRING]]

ProviderAssumption ==
  /\ AcceptSpts \in BOOLEAN /\ {MaxTime, MaxRestarts, MaxAnswers} \subseteq Nat
  /\ \A s \in Session : \A p \in Payment(s) :
       /\ p.token \in TokenRecord /\ p.mandated \in BOOLEAN /\ p.holds \in BOOLEAN
       /\ p.mandateExp \in Nat /\ p.handler \in STRING /\ p.instrument \in STRING

VARIABLES
  provider, \* the adapter: "mock", "reference" or "stripe"
  clock,
  restarts,
  call,     \* call[c]: a capture under way
  captures, \* what the process remembers, by session
  asked,    \* the requests that were sent to Stripe: the session of the key, the token
  stripe,   \* Stripe's idempotency keys: the token it was asked to charge, its decision
  spent,    \* what Stripe took from each shared payment token
  issued,   \* the reference tokens that buyers have signed
  answers   \* history: what captures returned, in order

vars == <<provider, clock, restarts, call, captures, asked, stripe, spent, issued, answers>>

Unknown == [ok |-> FALSE, reason |-> "none", id |-> <<>>]
Captured(id) == [ok |-> TRUE, reason |-> "captured", id |-> id]
Failed(reason) == [ok |-> FALSE, reason |-> reason, id |-> <<>>]

\* The arguments of a capture, and how far it is.
Idle == [at |-> "idle", session |-> "none", payment |-> [none |-> 0], alone |-> TRUE]

Init ==
  /\ provider \in {"mock", "reference", "stripe"}
  /\ clock = 0 /\ restarts = 0
  /\ call = [c \in Call |-> Idle]
  /\ captures = [s \in Session |-> Unknown]
  /\ asked = {} /\ stripe = {} /\ spent = {} /\ issued = {} /\ answers = <<>>

(***************************************************************************)
(* The reference provider's tokens                                         *)
(***************************************************************************)
\* What a buyer's issuer signs: a token for a handler's delegated payments, of an
\* amount that is owed, that has not expired.
referenceTokenPayload(token) ==
  /\ "" \notin {token.scope[f] : f \in {"merchant", "session", "transaction", "currency", "handler"}}
  /\ token.scope.instrument = "delegated_payment_token"
  /\ token.exp > clock

\* The issuer has the key that the provider verifies with, unless it has another one.  With
\* Stripe a merchant supports no handler that takes these tokens.
issueMandate(p) ==
  /\ provider # "stripe"
  /\ p.token.kind = "dpt" /\ referenceTokenPayload(p.token)
  /\ issued' = issued \cup {p.token}
  /\ UNCHANGED <<provider, clock, restarts, call, captures, asked, stripe, spent, answers>>

Scope(s, p) ==
  [merchant |-> Terms(s).merchant, session |-> s,
   transaction |-> IF p.mandated THEN Terms(s).transaction ELSE s,
   amount |-> Terms(s).amount, currency |-> Terms(s).currency,
   handler |-> p.handler, instrument |-> p.instrument]

\* A token is for exactly what is captured, under the provider's key.
verifyReferencePaymentToken(s, p) ==
  IF p.token.kind # "dpt" THEN "shape_invalid"
  ELSE IF ~p.token.signed THEN "signature_invalid"
  ELSE IF p.token.exp <= clock THEN "expired"
  ELSE IF p.token.scope # Scope(s, p) THEN "mismatch" ELSE "ok"

referenceFailure(reason) == Failed(IF reason = "expired" THEN "expired" ELSE "other")

(***************************************************************************)
(* Stripe                                                                  *)
(***************************************************************************)
Spent(token) == {x \in spent : x.token = token}

\* What Stripe says of a shared payment token: its limits, then its own view.
SptVerdict(s, token) ==
  IF token.exp <= clock THEN {"spt_expired"}
  ELSE IF Spent(token) # {} \/ Terms(s).amount > token.scope.amount THEN {"spt_max_amount_exceeded"}
  ELSE IF token.scope.merchant # Terms(s).merchant THEN {"spt_seller_mismatch"}
  ELSE Outcome \cup {"succeeded"}

\* Money that Stripe has, or will have of its own; and what the buyer may still allow it.
Taken == {"succeeded", "requires_capture", "processing"}
Waiting == {"requires_action", "requires_authentication"}

\* A payment intent's status, or the error it was refused with.
paymentResult(status, id) ==
  CASE status \in {"succeeded", "requires_capture"} -> Captured(id)
    [] status = "requires_action" -> Failed("requires_authentication")
    [] status = "card_declined" -> Failed("declined")
    [] status \in {"expired_card", "insufficient_funds"} -> Failed(status)
    [] OTHER -> Failed("other")

\* Of a shared payment token there is more to say.
sharedTokenResult(status, id) ==
  CASE status \in {"requires_authentication", "spt_expired", "spt_revoked", "spt_seller_mismatch"} ->
         Failed(status)
    [] status = "spt_max_amount_exceeded" -> Failed("amount_exceeded")
    [] OTHER -> paymentResult(status, id)

\* In the words that all providers use.
neutralStripeResult(result) ==
  CASE result.reason = "spt_expired" -> Failed("expired")
    [] result.reason = "amount_exceeded" -> Failed("limit_exceeded")
    [] result.reason = "spt_revoked" -> Failed("revoked")
    [] result.reason = "spt_seller_mismatch" -> Failed("seller_mismatch")
    [] OTHER -> result

StripeResult(status, spt, id) ==
  IF spt THEN neutralStripeResult(sharedTokenResult(status, id)) ELSE paymentResult(status, id)

\* What the mock provider may be told to fail with.
mockFailure == Outcome \cap {"insufficient_funds", "expired_card", "requires_authentication"}

(***************************************************************************)
(* capture                                                                 *)
(***************************************************************************)
\* decided: the result is what the provider decided, not what was made of an error.
Answered(c, result, decided) ==
  /\ call' = [call EXCEPT ![c] = Idle]
  /\ answers' = Append(answers, [session |-> call[c].session, token |-> call[c].payment.token,
                                 result |-> result, decided |-> decided,
                                 life |-> restarts, alone |-> call[c].alone])

Returned(c, result) == Answered(c, result, TRUE)

Throws(c) == call' = [call EXCEPT ![c] = Idle] /\ UNCHANGED answers

At(c, at) == call' = [call EXCEPT ![c].at = at] /\ UNCHANGED answers

\* Capturing is asked for, by itself or while another capture of the session is under way.
capture(c, s, p) ==
  /\ call[c].at = "idle" /\ (p.token.kind = "dpt" => p.token \in issued)
  /\ Len(answers) + Cardinality({d \in Call : call[d].at # "idle"}) < MaxAnswers
  /\ LET others == {d \in Call : call[d].at # "idle" /\ call[d].session = s}
     IN call' = [d \in Call |->
          IF d = c THEN [at |-> "validating", session |-> s, payment |-> p, alone |-> others = {}]
          ELSE IF d \in others THEN [call[d] EXCEPT !.alone = FALSE] ELSE call[d]]
  /\ UNCHANGED <<provider, clock, restarts, captures, asked, stripe, spent, issued, answers>>

MandateHolds(p) == p.mandated => p.holds /\ p.mandateExp > clock

\* Mutant of remembered: the map is written and not read.
notRemembered(s) == Unknown

remembered(s) == captures[s]

Remember(c, result) ==
  /\ captures' = [captures EXCEPT ![call[c].session] = result]
  /\ Returned(c, result)

\* The mandate is verified before the map is looked at; a mandate that has expired
\* since its capture is an error.
validateCaptureArgs(c) ==
  /\ call[c].at = "validating"
  /\ LET s == call[c].session
         p == call[c].payment
         known == remembered(s) # Unknown
     IN \/ ~MandateHolds(p) /\ Throws(c) /\ UNCHANGED <<captures, asked>>
        \/ /\ MandateHolds(p) /\ provider # "stripe" /\ known
           /\ Returned(c, remembered(s)) /\ UNCHANGED <<captures, asked>>
        \/ /\ MandateHolds(p) /\ provider = "mock" /\ ~known
           /\ \/ Remember(c, Captured(<<p.token, s>>))
              \/ \E failOn \in mockFailure : Remember(c, Failed(failOn))
           /\ UNCHANGED asked
        \/ /\ MandateHolds(p) /\ provider = "reference" /\ ~known
           /\ At(c, "verifying") /\ UNCHANGED <<captures, asked>>
        \/ /\ MandateHolds(p) /\ provider = "stripe"
           /\ \/ p.token.kind = "spt" /\ ~AcceptSpts /\ Throws(c) /\ UNCHANGED asked
              \/ /\ p.token.kind = "spt" => AcceptSpts
                 /\ At(c, "charging")
                 /\ asked' = asked \cup {[session |-> s, token |-> p.token]}
           /\ UNCHANGED captures
  /\ UNCHANGED <<provider, clock, restarts, stripe, spent, issued>>

\* Whatever the map has got meanwhile is replaced.
referenceCapture(c) ==
  /\ call[c].at = "verifying"
  /\ LET s == call[c].session
         p == call[c].payment
         verdict == verifyReferencePaymentToken(s, p)
     IN Remember(c, IF verdict = "ok" THEN Captured(<<p.token, s>>) ELSE referenceFailure(verdict))
  /\ UNCHANGED <<provider, clock, restarts, asked, stripe, spent, issued>>

\* Stripe decides on a key once, while the capture waits or after it gave up.
stripeCharges(q) ==
  /\ \A k \in stripe : k.session # q.session
  /\ \E status \in IF q.token.kind = "spt" THEN SptVerdict(q.session, q.token)
                                           ELSE Outcome \cup {"succeeded"} :
       /\ stripe' = stripe \cup {[session |-> q.session, token |-> q.token, status |-> status]}
       /\ spent' = IF status \in Taken
                   THEN spent \cup {[session |-> q.session, token |-> q.token,
                                     amount |-> Terms(q.session).amount]}
                   ELSE spent
  /\ UNCHANGED <<provider, clock, restarts, call, captures, asked, issued, answers>>

\* The buyer authenticates a payment that waits for it.
authenticates(k) ==
  /\ k.status \in Waiting
  /\ \A x \in spent : x.session # k.session
  /\ k.token.kind = "spt" => Spent(k.token) = {}
  /\ spent' = spent \cup {[session |-> k.session, token |-> k.token, amount |-> Terms(k.session).amount]}
  /\ UNCHANGED <<provider, clock, restarts, call, captures, asked, stripe, issued, answers>>

\* What Stripe says to a token under a key it has: an error if it was another one.
ReplyOf(k, token) == IF k.token = token THEN k.status ELSE "idempotency_error"

\* An answer that does not arrive is an error.  One that is not a decision, or whose body
\* cannot be read, counts as a payment that failed.
stripeCapture(c) ==
  /\ call[c].at = "charging"
  /\ LET s == call[c].session
         token == call[c].payment.token
     IN \/ \E k \in stripe :
             /\ k.session = s
             /\ Returned(c, StripeResult(ReplyOf(k, token), token.kind = "spt", <<s>>))
        \/ Answered(c, Failed("other"), FALSE)
        \/ Throws(c)
  /\ UNCHANGED <<provider, clock, restarts, captures, asked, stripe, spent, issued>>

restart ==
  /\ restarts < MaxRestarts /\ restarts' = restarts + 1
  /\ call' = [c \in Call |-> Idle]
  /\ captures' = [s \in Session |-> Unknown]
  /\ UNCHANGED <<provider, clock, asked, stripe, spent, issued, answers>>

tick ==
  /\ clock < MaxTime /\ clock' = clock + 1
  /\ UNCHANGED <<provider, restarts, call, captures, asked, stripe, spent, issued, answers>>

Next ==
  \/ \E c \in Call :
       \/ \E s \in Session : \E p \in Payment(s) : capture(c, s, p)
       \/ validateCaptureArgs(c) \/ referenceCapture(c) \/ stripeCapture(c)
  \/ \E q \in asked : stripeCharges(q)
  \/ \E k \in stripe : authenticates(k)
  \/ \E s \in Session : \E p \in Payment(s) : issueMandate(p)
  \/ restart \/ tick

Spec == Init /\ [][Next]_vars

(***************************************************************************)
(* Properties                                                              *)
(***************************************************************************)
\* The provider can tell that i and j are one capture: Stripe by key and token, the
\* others by the map, which overlapping captures read too early and a restart empties.
Linked(i, j) ==
  /\ answers[i].session = answers[j].session
  /\ IF provider = "stripe" THEN answers[i].token = answers[j].token
     ELSE answers[i].life = answers[j].life /\ answers[i].alone /\ answers[j].alone

RepeatsAgree ==
  \A i, j \in DOMAIN answers :
    i < j /\ Linked(i, j) /\ answers[i].decided /\ answers[j].decided =>
      answers[j].result = answers[i].result

TokensAreForTheSession ==
  provider = "reference" =>
    \A i \in DOMAIN answers : answers[i].result.ok =>
      LET taken == answers[i].result.id[1].scope
          s == answers[i].session
      IN taken.session = s /\ taken.amount = Terms(s).amount /\ taken.currency = Terms(s).currency

TakenOnce ==
  \A x, y \in spent :
    x.session = y.session \/ (x.token = y.token /\ x.token.kind = "spt") => x = y

\* "other" is what a payment that is processing is called, and one of another token under
\* the key; a payment that waits for the buyer may be made yet.
AnswersFitTheMoney ==
  provider = "stripe" => \A i \in DOMAIN answers :
    LET told == answers[i].result
        money == {x \in spent : x.session = answers[i].session}
    IN /\ told.ok => money # {}
       /\ answers[i].decided /\ ~told.ok /\ told.reason \notin {"other", "requires_authentication"}
            => money = {}

\* A capture that is repeated, with a token that has expired since or with another
\* one, has the answer it had.  The reference provider takes tokens for the terms of
\* the session only.  However captures overlap, whatever was restarted and however late
\* requests arrive, Stripe takes a session's money, and a shared payment token's, once,
\* a capture that succeeded has the money, and a refusal in Stripe's own words has none.
\* Answers that were no decision are left aside: the adapter calls them failures.
CaptureIsFinal == RepeatsAgree /\ TokensAreForTheSession /\ TakenOnce /\ AnswersFitTheMoney
==============================================================================
