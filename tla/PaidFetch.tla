------------------------------ MODULE PaidFetch ------------------------------
(***************************************************************************)
(* x402: a buyer's fetch that pays for an HTTP resource, and the paywall   *)
(* that protects it.  The fetch is answered with a challenge, the wallet's *)
(* policy decides, the instrument signs, the request is sent again with    *)
(* the payment; the paywall has a facilitator verify and settle it,        *)
(* remembers the settlement under the payment, and runs the route.  Every  *)
(* await is a step of its own, so requests overlap anywhere in between.    *)
(*                                                                         *)
(* A requirement is its amount, with whether the buyer's schemes, networks *)
(* and assets admit it.  A payment payload is the requirement it pays, the *)
(* request and, where the signer puts it in, when it expires, which is the *)
(* time of signing and a constant: the paywall knows a payment again by    *)
(* all of it.  The signer, the facilitator and the ledger behind it are    *)
(* external: they sign what they are given and settle what is valid each   *)
(* time they are asked; so is a client that presents a paid request again. *)
(***************************************************************************)
EXTENDS Integers, FiniteSets

CONSTANTS
  Call,          \* calls of the paying fetch
  Resource(_),   \* Resource(c): method, URL and body c asks for
  Requirement,   \* what the route may ask, over time
  FirstAsked,    \* what it asks first
  MaxAmount(_),  \* MaxAmount(c): opts.maxAmount, 0 for none
  Allows(_),     \* Allows(q): how the wallet's policy decides on q
  Durable,       \* the paywall's idempotency store survives a restart
  MaxReprices, MaxRestarts, MaxTime

Amount == Nat \ {0}

PaidFetchAssumption ==
  /\ Requirement \subseteq [amount : Amount, listed : BOOLEAN, signable : BOOLEAN]
  /\ FirstAsked \in Requirement
  /\ \A c \in Call : MaxAmount(c) \in Nat
  /\ \A q \in Requirement : Allows(q) \in {"allowed", "approval_required", "denied"}
  /\ Durable \in BOOLEAN
  /\ {MaxReprices, MaxRestarts, MaxTime} \subseteq Nat

VARIABLES
  asked,      \* what the route asks now
  reprices,   \* how often that changed
  clock,
  challenge,  \* challenge[c]: the requirement c selected
  signed,     \* signed[c]: when what c signed for was dated, Undated for never
  pc,         \* pc[c]: where c, or the paywall with its paid request, is
  route,      \* route[c]: what the route asked when the paid request came
  outcome,    \* outcome[c]: how the call ended for the buyer
  store,      \* the paywall's settlements, by payload and requirement
  settled,    \* the facilitator's, by the call whose request caused them
  served,     \* history: the calls whose route handler ran
  restarts,
  tainted     \* history: the payloads with two requests at once, or one cut short

vars == <<asked, reprices, clock, challenge, signed, pc, route, outcome, store, settled, served, restarts,
          tainted>>

Undated == 0
None == [amount |-> 0, listed |-> FALSE, signable |-> FALSE]

Init ==
  /\ asked = FirstAsked /\ reprices = 0 /\ clock = 1
  /\ challenge = [c \in Call |-> None]
  /\ signed = [c \in Call |-> Undated]
  /\ pc = [c \in Call |-> "idle"]
  /\ route = [c \in Call |-> None]
  /\ outcome = [c \in Call |-> "none"]
  /\ store = {} /\ settled = {} /\ served = {}
  /\ restarts = 0
  /\ tainted = {}

Buying == <<asked, reprices, clock, store, settled, served, restarts>>

(***************************************************************************)
(* The buyer                                                               *)
(***************************************************************************)
Ends(c, how) ==
  /\ pc' = [pc EXCEPT ![c] = "done"]
  /\ outcome' = [outcome EXCEPT ![c] = how]

\* selectPaymentRequirement of the paywall's only requirement.
selectPaymentRequirement(q) == q.listed

assertAmountWithinLimit(c, q) == MaxAmount(c) = 0 \/ q.amount <= MaxAmount(c)

\* The first fetch, answered with the challenge of that moment.
fetch(c) ==
  /\ pc[c] = "idle"
  /\ IF selectPaymentRequirement(asked) /\ assertAmountWithinLimit(c, asked)
     THEN /\ challenge' = [challenge EXCEPT ![c] = asked]
          /\ pc' = [pc EXCEPT ![c] = "deciding"]
          /\ UNCHANGED outcome
     ELSE Ends(c, "unsupported") /\ UNCHANGED challenge
  /\ UNCHANGED <<Buying, signed, route, tainted>>

\* Mutant of decide: only a denial stops the payment.
decideUnlessDenied(c) ==
  /\ pc[c] = "deciding"
  /\ IF Allows(challenge[c]) # "denied"
     THEN pc' = [pc EXCEPT ![c] = "signing"] /\ UNCHANGED outcome
     ELSE Ends(c, "not_allowed")
  /\ UNCHANGED <<Buying, challenge, signed, route, tainted>>

\* wallet.decide: anything but "allowed" stops the payment.
decide(c) ==
  /\ pc[c] = "deciding"
  /\ IF Allows(challenge[c]) = "allowed"
     THEN pc' = [pc EXCEPT ![c] = "signing"] /\ UNCHANGED outcome
     ELSE Ends(c, "not_allowed")
  /\ UNCHANGED <<Buying, challenge, signed, route, tainted>>

\* What the wallet hands the request's instrument and the paywall takes as the payment.
payload(c) == <<challenge[c], Resource(c), signed[c]>>

AtPaywall == {"received", "verifying", "settling", "storing", "handling"}
SamePayload(c) == {d \in Call \ {c} : pc[d] \in AtPaywall /\ payload(d) = payload(c)}

\* The paid request of c is sent: if another of its payload is there, they overlap.
Sends(c) ==
  /\ pc' = [pc EXCEPT ![c] = "received"]
  /\ tainted' = (IF SamePayload(c)' = {} THEN tainted ELSE tainted \cup {payload(c)'})

\* issueMandate signs for what the instrument and its signer support, with the date
\* or without it; the request is sent again with the payment.
issueMandate(c) ==
  /\ pc[c] = "signing"
  /\ UNCHANGED <<Buying, challenge, route>>
  /\ IF challenge[c].signable
     THEN /\ \E date \in {clock, Undated} : signed' = [signed EXCEPT ![c] = date]
          /\ Sends(c)
          /\ UNCHANGED outcome
     ELSE Ends(c, "signer_unavailable") /\ UNCHANGED <<signed, tainted>>

\* The payment of d was sent, whatever became of it.
Sent(d) == pc[d] \in AtPaywall \/ outcome[d] \in {"receipt", "ambiguous", "network_error"}

\* A client presents the paid request of d again, as it was, in a call of its own.
repeat(c, d) ==
  /\ pc[c] = "idle" /\ Sent(d)
  /\ Resource(c) = Resource(d) /\ MaxAmount(c) = MaxAmount(d)
  /\ challenge' = [challenge EXCEPT ![c] = challenge[d]]
  /\ signed' = [signed EXCEPT ![c] = signed[d]]
  /\ Sends(c)
  /\ UNCHANGED <<Buying, route, outcome>>

(***************************************************************************)
(* The paywall                                                             *)
(***************************************************************************)
\* How the fetch takes an answer; an answer may be lost.
Answered(c, ok) ==
  /\ \/ Ends(c, IF ok THEN "receipt" ELSE "ambiguous")
     \/ Ends(c, "network_error")

serverIdempotencyKey(c, q) == <<payload(c), q>>

\* The route's requirement of this moment, and what the store remembers of it.
receive(c) ==
  /\ pc[c] = "received"
  /\ route' = [route EXCEPT ![c] = asked]
  /\ pc' = [pc EXCEPT ![c] = IF serverIdempotencyKey(c, asked) \in store
                             THEN "handling" ELSE "verifying"]
  /\ UNCHANGED <<Buying, challenge, signed, outcome, tainted>>

\* The facilitator finds the payment valid for what the route asks, or not.
verify(c) ==
  /\ pc[c] = "verifying"
  /\ \/ /\ challenge[c] = route[c]
        /\ pc' = [pc EXCEPT ![c] = "settling"]
        /\ UNCHANGED outcome
     \/ Answered(c, FALSE)
  /\ UNCHANGED <<Buying, challenge, signed, route, tainted>>

settle(c) ==
  /\ pc[c] = "settling"
  /\ \/ /\ settled' = settled \cup {c}
        /\ pc' = [pc EXCEPT ![c] = "storing"]
        /\ UNCHANGED outcome
     \/ Answered(c, FALSE) /\ UNCHANGED settled
  /\ UNCHANGED <<asked, reprices, clock, store, served, restarts, challenge, signed, route, tainted>>

\* Mutant of remember: the settlement is kept under the call, not the payment.
rememberCall(c) ==
  /\ pc[c] = "storing"
  /\ store' = store \cup {<<c, route[c]>>}
  /\ pc' = [pc EXCEPT ![c] = "handling"]
  /\ UNCHANGED <<asked, reprices, clock, settled, served, restarts, challenge, signed, route, outcome, tainted>>

remember(c) ==
  /\ pc[c] = "storing"
  /\ store' = store \cup {serverIdempotencyKey(c, route[c])}
  /\ pc' = [pc EXCEPT ![c] = "handling"]
  /\ UNCHANGED <<asked, reprices, clock, settled, served, restarts, challenge, signed, route, outcome, tainted>>

\* The route's handler answers, or throws: 500 after the settlement.
handle(c) ==
  /\ pc[c] = "handling"
  /\ served' = served \cup {c}
  /\ Answered(c, TRUE) \/ Answered(c, FALSE)
  /\ UNCHANGED <<asked, reprices, clock, store, settled, restarts, challenge, signed, route, tainted>>

(***************************************************************************)
(* What goes wrong                                                         *)
(***************************************************************************)
Cut == {c \in Call : pc[c] \in AtPaywall}

\* The process stops, of itself or because the facilitator failed: requestJson
\* throws outside the handler's try, and nothing handles the rejection.  A
\* settlement asked for may have taken place.
restart ==
  /\ restarts < MaxRestarts
  /\ restarts' = restarts + 1
  /\ \E lost \in SUBSET {c \in Call : pc[c] = "settling"} : settled' = settled \cup lost
  /\ pc' = [c \in Call |-> IF c \in Cut THEN "done" ELSE pc[c]]
  /\ outcome' = [c \in Call |-> IF c \in Cut THEN "network_error" ELSE outcome[c]]
  /\ store' = (IF Durable THEN store ELSE {})
  /\ tainted' = tainted \cup {payload(c) : c \in IF Durable THEN Cut ELSE Cut \cup settled}
  /\ UNCHANGED <<asked, reprices, clock, served, challenge, signed, route>>

reprice ==
  /\ reprices < MaxReprices
  /\ reprices' = reprices + 1
  /\ \E q \in Requirement \ {asked} : asked' = q
  /\ UNCHANGED <<clock, challenge, signed, pc, route, outcome, store, settled, served, restarts, tainted>>

tick ==
  /\ clock < MaxTime
  /\ clock' = clock + 1
  /\ UNCHANGED <<asked, reprices, challenge, signed, pc, route, outcome, store, settled, served, restarts, tainted>>

Next ==
  \/ \E c \in Call : fetch(c) \/ decide(c) \/ issueMandate(c)
  \/ \E c \in Call : receive(c) \/ verify(c) \/ settle(c) \/ remember(c) \/ handle(c)
  \/ \E c, d \in Call : repeat(c, d)
  \/ restart \/ reprice \/ tick

Spec == Init /\ [][Next]_vars

(***************************************************************************)
(* Properties                                                              *)
(***************************************************************************)

\* Whatever the route comes to ask while a payment is on its way: what is settled
\* is an amount the policy allowed and the call's limit admits, a route that ran
\* was paid what it asked then, and a call that got no further than the wallet
\* has nothing settled in its name.
PaidAsAgreed ==
  /\ \A c \in settled :
       /\ Allows(challenge[c]) = "allowed" /\ assertAmountWithinLimit(c, challenge[c])
       /\ outcome[c] \notin {"unsupported", "not_allowed", "signer_unavailable"}
  /\ \A c \in served :
       \E d \in settled : payload(d) = payload(c) /\ challenge[d] = route[c]

\* A payment is settled once, however often it is presented, as long as its requests
\* do not overlap and none is cut short.  A call made again that signs again is the
\* same payment only under a signer that leaves the date out, or within its instant.
RepeatsPayOnce ==
  \A c, d \in settled :
    payload(c) = payload(d) /\ payload(c) \notin tainted => c = d
==============================================================================
