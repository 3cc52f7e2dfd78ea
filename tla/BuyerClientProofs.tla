--------------------------- MODULE BuyerClientProofs ---------------------------
(***************************************************************************)
(* What a purchase costs, for any calls, keys, sites, configurations and   *)
(* bounds: it is charged at most once, at a total that the wallet was      *)
(* told.  Three parties hold the argument together.  What the merchant     *)
(* keeps for a key is true of its checkouts; what a call has heard is what *)
(* is kept for its key; and what the wallet agreed to is what a call has   *)
(* heard.  A driver goes on to complete a checkout only at a price that no *)
(* later request changes: an ACP checkout's is the one it was opened at, a *)
(* UCP checkout's the one of the only update its key has.                  *)
(***************************************************************************)
EXTENDS BuyerClient, TLAPS

Fields == {"at", "via", "key", "auth", "request", "answer", "handler", "receipt"}
AnswerFields == {"status", "order", "checkout", "total", "authorized", "handlers", "signed"}
Row == [protocol : {"acp", "ucp"}, status : {"ready", "completed", "canceled"},
        order : {"none", "confirmed", "created"}, locked : BOOLEAN,
        handlers : SUBSET {"delegate", "issuer"}, total : Nat]

TypeOK ==
  /\ site \in SiteRecord /\ row \in Seq(Row)
  /\ DOMAIN call = Attempt /\ \A a \in Attempt : DOMAIN call[a] = Fields

\* A handle with a checkout is a driver's; ACP has no AP2.
HandleTrue ==
  /\ handle.checkout => handle.protocol \in {"acp", "ucp"}
  /\ handle.protocol = "acp" => ~handle.locked

\* An answer that is kept: for which key and step, and that it is not a refusal.
Made(k, key, step) == k.request.key = key /\ k.request.step = step
Granted(k) == k.answer.status # "error"

\* The checkout c was opened with the key, over the protocol.
OpenedBy(key, protocol, c) ==
  \E o \in kept : Made(o, key, "create") /\ o.request.protocol = protocol /\ o.answer.checkout = c

Charged(key, total) == \E c \in charges : purchaseKey(c.by) = key /\ c.total = total

\* What an answer that was kept says still holds of its checkout.
AnswerTrue(k) ==
  LET c == k.answer.checkout IN
    /\ DOMAIN k.answer = AnswerFields /\ k.answer.status # "none"
    /\ k.request.step \in {"create", "update", "complete"}
    /\ k.request.step \in {"create", "update"} => Granted(k)
    /\ Granted(k) => c \in DOMAIN row /\ (k.answer.authorized # "none" => row[c].locked)
    /\ k.request.step = "create" /\ k.request.protocol = "acp" => row[c].total = k.answer.total
    /\ k.request.step = "update" =>
         /\ k.request.protocol = "ucp" /\ row[c].total = k.answer.total
         /\ OpenedBy(k.request.key, "ucp", c)
    /\ k.request.step = "complete" /\ Granted(k) =>
         /\ k.answer.status = "completed"
         /\ k.request.protocol = "acp" => k.answer.order \in {"confirmed", "created"}
         /\ Charged(k.request.key, k.answer.total)

\* A key has one answer for a step, a checkout one request that opened it.
KeptOnce == \A k, l \in kept : Made(k, l.request.key, l.request.step) => k = l
OneOpening ==
  \A k, l \in kept :
    k.request.step = "create" /\ l.request.step = "create" /\ k.answer.checkout = l.answer.checkout => k = l

KeptTrue == (\A k \in kept : AnswerTrue(k)) /\ KeptOnce /\ OneOpening

\* A charge is of a total that the wallet was told, and its key's only one.
AgreedTo(c) ==
  \E g \in agreed : /\ g.by \in Attempt /\ purchaseKey(g.by) = purchaseKey(c.by)
                    /\ g.checkout = c.checkout /\ g.total = c.total
                    /\ g.locked => g.signed /\ c.locked

ChargesTrue ==
  /\ \A c \in charges : /\ c.by \in Attempt /\ AgreedTo(c)
                        /\ \E k \in kept : Made(k, purchaseKey(c.by), "complete")
  /\ \A c, d \in charges : purchaseKey(c.by) = purchaseKey(d.by) => c = d

Same(x, y) ==
  x.status = y.status /\ x.order = y.order /\ x.checkout = y.checkout /\ x.total = y.total
  /\ x.authorized = y.authorized

\* The answer that a call has is the one that is kept for its key and the step.
From(a, step) ==
  \E k \in kept : /\ Made(k, purchaseKey(a), step) /\ Granted(k)
                  /\ k.request.protocol = call[a].via.protocol
                  /\ Same(call[a].answer, k.answer)

PricedBy(protocol) == IF protocol = "acp" THEN "create" ELSE "update"

\* The wallet agreed to the total, in this call of the purchase.
Agreement(a, c, total) ==
  \E g \in agreed : /\ g.by = a /\ g.checkout = c /\ g.total = total
                    /\ g.locked = call[a].via.locked /\ (g.locked => g.signed)

\* The checkout that a call completes has the price the wallet agreed to.
Payable(a, c) ==
  \E k \in kept : /\ Made(k, purchaseKey(a), PricedBy(call[a].via.protocol)) /\ Granted(k)
                  /\ k.request.protocol = call[a].via.protocol
                  /\ k.answer.checkout = c /\ Agreement(a, c, k.answer.total)
                  /\ call[a].via.locked => k.answer.authorized # "none"

StepAt(at) == CASE at = "creating" -> "create" [] at = "updating" -> "update" [] OTHER -> "complete"

\* What a call's request is about.
RequestTrue(a) ==
  LET r == call[a].request IN
    r # NoRequest =>
      /\ call[a].at \in {"creating", "updating", "completing"}
      /\ r.key = purchaseKey(a) /\ r.step = StepAt(call[a].at)
      /\ r.protocol = call[a].via.protocol /\ call[a].answer = NoAnswer
      /\ r.step = "create" => r.amount \in Nat
      /\ r.step = "update" => OpenedBy(purchaseKey(a), "ucp", r.checkout)
      /\ r.step = "complete" => Payable(a, r.checkout)

\* What it knows of its checkout, from the answers it has had.
AnswerHeard(a) ==
  /\ call[a].at \in {"creating", "updating", "completing"} /\ call[a].answer # NoAnswer
       /\ call[a].answer.status # "error" => From(a, StepAt(call[a].at))
  /\ call[a].at \in {"telling", "issuing"} =>
       /\ From(a, PricedBy(call[a].via.protocol))
       /\ call[a].via.locked =>
            call[a].answer.authorized \in call[a].via.keys /\ call[a].answer.authorized # "none"
  /\ call[a].at = "issuing" => Agreement(a, call[a].answer.checkout, call[a].answer.total)

CallTrue(a) ==
  /\ call[a].at \in {"creating", "updating", "telling", "issuing", "completing"} =>
       /\ call[a].key = purchaseKey(a)
       /\ call[a].via.protocol \in {"acp", "ucp"}
       /\ call[a].via.protocol = "acp" => ~call[a].via.locked
  /\ call[a].at = "idle" => call[a].answer = NoAnswer
  /\ call[a].at = "updating" => call[a].via.protocol = "ucp"
  /\ RequestTrue(a) /\ AnswerHeard(a)
  /\ call[a].at = "bought" =>
       /\ call[a].receipt.status \in {"captured", "completed"}
       /\ \E c \in charges : purchaseKey(c.by) = purchaseKey(a) /\ c.total = call[a].receipt.charged

IInv ==
  /\ TypeOK /\ HandleTrue /\ KeptTrue /\ ChargesTrue
  /\ \A a \in Attempt : CallTrue(a)

-------------------------------------------------------------------------------
LEMMA KeysAgree ==
  ASSUME NEW a \in Attempt, NEW b \in Attempt
  PROVE  (purchaseKey(a) = purchaseKey(b)) <=> SamePurchase(a, b)
  BY DEF purchaseKey, SamePurchase

\* A call that does not move hears nothing new.
LEMMA StillTrue ==
  ASSUME NEW b \in Attempt, kept \subseteq kept', charges \subseteq charges', agreed \subseteq agreed',
         call'[b] = call[b], CallTrue(b)
  PROVE  CallTrue(b)'
<1>1. \A key, protocol, c : OpenedBy(key, protocol, c) => OpenedBy(key, protocol, c)'
  BY DEF OpenedBy, Made
<1>2. \A c, total : Agreement(b, c, total) => Agreement(b, c, total)'
  BY DEF Agreement
<1>3. \A c : Payable(b, c) => Payable(b, c)'
  <2> SUFFICES ASSUME NEW c, Payable(b, c) PROVE Payable(b, c)'
    OBVIOUS
  <2>1. PICK k \in kept : /\ Made(k, purchaseKey(b), PricedBy(call[b].via.protocol)) /\ Granted(k)
                          /\ k.request.protocol = call[b].via.protocol
                          /\ k.answer.checkout = c /\ Agreement(b, c, k.answer.total)
                          /\ call[b].via.locked => k.answer.authorized # "none"
    BY DEF Payable
  <2>2. Agreement(b, c, k.answer.total)'
    BY <2>1 DEF Agreement
  <2> QED BY <2>1, <2>2 DEF Payable, Made, Granted, PricedBy
<1>4. \A step : From(b, step) => From(b, step)'
  BY DEF From, Made, Granted, Same
<1>5. RequestTrue(b)'
  <2>1. RequestTrue(b) /\ call'[b] = call[b]
    BY DEF CallTrue
  <2>2. ASSUME NEW r, r = call[b].request, r # NoRequest
        PROVE  /\ call[b].at \in {"creating", "updating", "completing"}
               /\ r.key = purchaseKey(b) /\ r.step = StepAt(call[b].at)
               /\ r.protocol = call[b].via.protocol /\ call[b].answer = NoAnswer
               /\ r.step = "create" => r.amount \in Nat
               /\ r.step = "update" => OpenedBy(purchaseKey(b), "ucp", r.checkout)'
               /\ r.step = "complete" => Payable(b, r.checkout)'
    BY <1>1, <1>3, <2>1, <2>2 DEF RequestTrue
  <2>3. ASSUME NEW r, r = call[b].request
        PROVE  /\ OpenedBy(purchaseKey(b), "ucp", r.checkout)'
                  <=> OpenedBy(purchaseKey(b), "ucp", call[b].request.checkout)'
               /\ Payable(b, r.checkout)' <=> Payable(b, call[b].request.checkout)'
    BY <2>1, <2>3
  <2> QED BY <2>1, <2>2, <2>3 DEF RequestTrue
<1>6. AnswerHeard(b)'
  BY <1>2, <1>4 DEF CallTrue, AnswerHeard, StepAt, PricedBy, Agreement
<1> QED BY <1>5, <1>6 DEF CallTrue

\* The merchant's side, when only what the wallet agreed to grows.
LEMMA MerchantStill ==
  ASSUME KeptTrue, ChargesTrue, UNCHANGED <<kept, row, charges>>, agreed \subseteq agreed'
  PROVE  KeptTrue' /\ ChargesTrue'
<1>1. \A k : AnswerTrue(k) => AnswerTrue(k)'
  BY DEF AnswerTrue, Granted, OpenedBy, Made, Charged
<1>2. KeptTrue'
  BY <1>1 DEF KeptTrue, KeptOnce, OneOpening, Made
<1>3. \A c : AgreedTo(c) => AgreedTo(c)'
  BY DEF AgreedTo
<1> QED BY <1>2, <1>3 DEF ChargesTrue, Made

\* A step of one call that the merchant has no part in.
LEMMA DriverKeeps ==
  ASSUME IInv, NEW a \in Attempt, DOMAIN call' = Attempt, DOMAIN call'[a] = Fields,
         \A b \in Attempt \ {a} : call'[b] = call[b],
         UNCHANGED <<site, handle, kept, row, charges>>, agreed \subseteq agreed', CallTrue(a)'
  PROVE  IInv'
<1>1. TypeOK' /\ HandleTrue'
  BY DEF IInv, TypeOK, HandleTrue
<1>2. KeptTrue' /\ ChargesTrue'
  BY MerchantStill DEF IInv
<1>3. \A b \in Attempt \ {a} : CallTrue(b)'
  BY StillTrue DEF IInv
<1> QED BY <1>1, <1>2, <1>3 DEF IInv

\* A call that is over, refused or failed.
LEMMA EndKeeps ==
  ASSUME IInv, NEW a \in Attempt, NEW how \in {"failed", "refused"}, Ends(a, how),
         UNCHANGED <<site, handle, kept, row, charges, agreed>>
  PROVE  IInv'
<1>1. /\ DOMAIN call' = Attempt /\ call'[a] = [NoCall EXCEPT !.at = how]
      /\ \A b \in Attempt \ {a} : call'[b] = call[b]
  BY DEF IInv, TypeOK, Ends
<1>2. DOMAIN call'[a] = Fields /\ call'[a].at = how /\ call'[a].request = NoRequest
  BY <1>1 DEF NoCall, Fields
<1>3. CallTrue(a)'
  BY <1>2 DEF CallTrue, RequestTrue, AnswerHeard
<1> QED BY <1>1, <1>2, <1>3, DriverKeeps

LEMMA PurchaseKeeps ==
  ASSUME ClientAssumption, IInv, NEW a \in Attempt, purchase(a) PROVE IInv'
<1>0. /\ UNCHANGED <<site, handle, kept, row, charges, agreed>> /\ call[a].at = "idle"
      /\ CallTrue(a) /\ TypeOK /\ HandleTrue /\ Amount(a) \in Nat
  BY DEF purchase, driving, IInv, ClientAssumption
<1>1. PICK auth :
        IF handle.checkout /\ CompatiblePaymentHandler(handle) /\ auth # "missing"
        THEN call' = [call EXCEPT ![a].at = "creating", ![a].via = handle, ![a].key = purchaseKey(a),
               ![a].auth = auth,
               ![a].request = [NoRequest EXCEPT !.key = purchaseKey(a), !.step = "create",
                 !.protocol = handle.protocol, !.auth = auth,
                 !.amount = IF handle.protocol = "acp" THEN Amount(a) ELSE 0]]
        ELSE Ends(a, "refused")
  BY DEF purchase
<1>2. CASE ~(handle.checkout /\ CompatiblePaymentHandler(handle) /\ auth # "missing")
  BY <1>0, <1>1, <1>2, EndKeeps
<1>3. CASE handle.checkout /\ CompatiblePaymentHandler(handle) /\ auth # "missing"
  <2>1. PICK request : request = [NoRequest EXCEPT !.key = purchaseKey(a), !.step = "create",
                 !.protocol = handle.protocol, !.auth = auth,
                 !.amount = IF handle.protocol = "acp" THEN Amount(a) ELSE 0]
    OBVIOUS
  <2>2. /\ request.key = purchaseKey(a) /\ request.step = "create" /\ request.protocol = handle.protocol
        /\ request.amount \in Nat
    BY <1>0, <2>1 DEF NoRequest
  <2>3. call' = [call EXCEPT ![a].at = "creating", ![a].via = handle, ![a].key = purchaseKey(a),
               ![a].auth = auth, ![a].request = request]
    BY <1>1, <1>3, <2>1
  <2>4. /\ DOMAIN call' = Attempt /\ DOMAIN call'[a] = Fields
        /\ \A b \in Attempt \ {a} : call'[b] = call[b]
        /\ call'[a].at = "creating" /\ call'[a].via = handle /\ call'[a].key = purchaseKey(a)
        /\ call'[a].request = request /\ call'[a].answer = call[a].answer
    BY <1>0, <2>3 DEF TypeOK, Fields
  <2>5. RequestTrue(a)'
    BY <1>0, <2>2, <2>4 DEF RequestTrue, StepAt, CallTrue
  <2>6. AnswerHeard(a)'
    BY <1>0, <2>4 DEF AnswerHeard, CallTrue
  <2>7. CallTrue(a)'
    BY <1>0, <1>3, <2>4, <2>5, <2>6 DEF CallTrue, HandleTrue
  <2> QED BY <1>0, <2>4, <2>7, DriverKeeps
<1> QED BY <1>2, <1>3

LEMMA FromOpens ==
  ASSUME NEW a, From(a, "create")
  PROVE  OpenedBy(purchaseKey(a), call[a].via.protocol, call[a].answer.checkout)
  BY DEF From, OpenedBy, Same

LEMMA CreatedKeeps ==
  ASSUME ClientAssumption, IInv, NEW a \in Attempt, created(a) PROVE IInv'
<1>0. /\ UNCHANGED <<site, handle, kept, row, charges, agreed>>
      /\ call[a].at = "creating" /\ call[a].answer # NoAnswer
      /\ CallTrue(a) /\ TypeOK
  BY DEF created, driving, IInv, Answered, Throws
<1>1. CASE Throws(a)
  BY <1>0, <1>1, EndKeeps DEF Throws
<1>2. CASE /\ call[a].answer.status # "error" /\ call[a].via.protocol = "acp"
           /\ call' = [call EXCEPT ![a].at = "telling"]
  <2>1. /\ DOMAIN call' = Attempt /\ DOMAIN call'[a] = Fields
        /\ \A b \in Attempt \ {a} : call'[b] = call[b]
        /\ call'[a].at = "telling" /\ call'[a].via = call[a].via /\ call'[a].key = call[a].key
        /\ call'[a].request = call[a].request /\ call'[a].answer = call[a].answer
    BY <1>0, <1>2 DEF TypeOK, Fields
  <2>2. call[a].request = NoRequest /\ From(a, "create") /\ ~call[a].via.locked
    BY <1>0, <1>2 DEF CallTrue, RequestTrue, AnswerHeard, StepAt
  <2>3. From(a, "create")'
    BY <1>0, <2>1, <2>2 DEF From, Made, Granted, Same
  <2>4. CallTrue(a)'
    BY <1>0, <1>2, <2>1, <2>2, <2>3 DEF CallTrue, RequestTrue, AnswerHeard, PricedBy
  <2> QED BY <1>0, <2>1, <2>4, DriverKeeps
<1>3. CASE /\ call[a].answer.status # "error" /\ call[a].via.protocol # "acp"
           /\ call' = [call EXCEPT ![a].at = "updating", ![a].answer = NoAnswer,
                ![a].handler = selectedUcpHandler(a),
                ![a].request = Request(a, "update", call[a].answer.checkout, 0, NoToken)]
  <2>1. PICK request, h : /\ request = Request(a, "update", call[a].answer.checkout, 0, NoToken)
                          /\ h = selectedUcpHandler(a)
    OBVIOUS
  <2>2. /\ request.key = call[a].key /\ request.step = "update" /\ request.protocol = call[a].via.protocol
        /\ request.checkout = call[a].answer.checkout
    BY <2>1 DEF Request
  <2>3. /\ DOMAIN call' = Attempt /\ DOMAIN call'[a] = Fields
        /\ \A b \in Attempt \ {a} : call'[b] = call[b]
        /\ call'[a].at = "updating" /\ call'[a].via = call[a].via /\ call'[a].key = call[a].key
        /\ call'[a].request = request /\ call'[a].answer = NoAnswer
    BY <1>0, <1>3, <2>1 DEF TypeOK, Fields
  <2>4. call[a].via.protocol = "ucp" /\ From(a, "create") /\ call[a].key = purchaseKey(a)
    BY <1>0, <1>3 DEF CallTrue, AnswerHeard, StepAt
  <2>5. OpenedBy(purchaseKey(a), "ucp", request.checkout)'
    BY <1>0, <2>2, <2>4, FromOpens DEF OpenedBy, Made
  <2>6. RequestTrue(a)'
    <3>1. OpenedBy(purchaseKey(a), "ucp", call[a].request.checkout)'
      BY <2>3, <2>5 DEF OpenedBy
    <3> QED BY <2>2, <2>3, <2>4, <3>1 DEF RequestTrue, StepAt
  <2>7. AnswerHeard(a)'
    BY <2>3 DEF AnswerHeard
  <2>8. CallTrue(a)'
    BY <1>0, <2>3, <2>4, <2>6, <2>7 DEF CallTrue
  <2> QED BY <1>0, <2>3, <2>8, DriverKeeps
<1> QED BY <1>1, <1>2, <1>3 DEF created

LEMMA UpdatedKeeps ==
  ASSUME ClientAssumption, IInv, NEW a \in Attempt, updated(a) PROVE IInv'
<1>0. /\ UNCHANGED <<site, handle, kept, row, charges, agreed>>
      /\ call[a].at = "updating" /\ call[a].answer # NoAnswer
      /\ CallTrue(a) /\ TypeOK
  BY DEF updated, driving, IInv, Answered, Throws
<1>1. CASE Throws(a)
  BY <1>0, <1>1, EndKeeps DEF Throws
<1>2. CASE /\ call[a].answer.status # "error" /\ verifyAp2MerchantAuthorization(a)
           /\ call' = [call EXCEPT ![a].at = "telling"]
  <2>1. /\ DOMAIN call' = Attempt /\ DOMAIN call'[a] = Fields
        /\ \A b \in Attempt \ {a} : call'[b] = call[b]
        /\ call'[a].at = "telling" /\ call'[a].via = call[a].via /\ call'[a].key = call[a].key
        /\ call'[a].request = call[a].request /\ call'[a].answer = call[a].answer
    BY <1>0, <1>2 DEF TypeOK, Fields
  <2>2. call[a].request = NoRequest /\ From(a, "update") /\ call[a].via.protocol = "ucp"
    BY <1>0, <1>2 DEF CallTrue, RequestTrue, AnswerHeard, StepAt
  <2>3. From(a, "update")'
    BY <1>0, <2>1, <2>2 DEF From, Made, Granted, Same
  <2>4. call[a].via.locked =>
          call[a].answer.authorized \in call[a].via.keys /\ call[a].answer.authorized # "none"
    BY <1>2 DEF verifyAp2MerchantAuthorization
  <2>5. CallTrue(a)'
    BY <1>0, <1>2, <2>1, <2>2, <2>3, <2>4 DEF CallTrue, RequestTrue, AnswerHeard, PricedBy
  <2> QED BY <1>0, <2>1, <2>5, DriverKeeps
<1> QED BY <1>1, <1>2 DEF updated

LEMMA NotifyKeeps ==
  ASSUME ClientAssumption, IInv, NEW a \in Attempt, notifyTotals(a) PROVE IInv'
<1>0. /\ UNCHANGED <<site, handle, kept, row, charges>>
      /\ call[a].at = "telling" /\ CallTrue(a) /\ TypeOK
  BY DEF notifyTotals, driving, IInv
<1>1. CASE Throws(a)
  BY <1>0, <1>1, EndKeeps DEF Throws
<1>2. CASE /\ call' = [call EXCEPT ![a].at = "issuing"]
           /\ agreed' = agreed \cup
             {[by |-> a, total |-> call[a].answer.total, checkout |-> call[a].answer.checkout,
               locked |-> call[a].via.locked, signed |-> call[a].answer.authorized \in call[a].via.keys]}
  <2>1. /\ DOMAIN call' = Attempt /\ DOMAIN call'[a] = Fields
        /\ \A b \in Attempt \ {a} : call'[b] = call[b]
        /\ call'[a].at = "issuing" /\ call'[a].via = call[a].via /\ call'[a].key = call[a].key
        /\ call'[a].request = call[a].request /\ call'[a].answer = call[a].answer
    BY <1>0, <1>2 DEF TypeOK, Fields
  <2>2. /\ call[a].request = NoRequest /\ From(a, PricedBy(call[a].via.protocol))
        /\ call[a].via.locked =>
            call[a].answer.authorized \in call[a].via.keys /\ call[a].answer.authorized # "none"
    BY <1>0 DEF CallTrue, RequestTrue, AnswerHeard
  <2>3. From(a, PricedBy(call[a].via.protocol))'
    BY <1>0, <2>1, <2>2 DEF From, Made, Granted, Same, PricedBy
  <2>4. Agreement(a, call[a].answer.checkout, call[a].answer.total)'
    <3>1. PICK g \in agreed' :
            g = [by |-> a, total |-> call[a].answer.total, checkout |-> call[a].answer.checkout,
                 locked |-> call[a].via.locked, signed |-> call[a].answer.authorized \in call[a].via.keys]
      BY <1>2
    <3>2. /\ g.by = a /\ g.total = call'[a].answer.total /\ g.checkout = call'[a].answer.checkout
          /\ g.locked = call'[a].via.locked /\ (g.locked => g.signed)
      BY <2>1, <2>2, <3>1
    <3> QED BY <3>1, <3>2 DEF Agreement
  <2>5. CallTrue(a)'
    BY <1>0, <1>2, <2>1, <2>2, <2>3, <2>4 DEF CallTrue, RequestTrue, AnswerHeard
  <2> QED BY <1>0, <1>2, <2>1, <2>5, DriverKeeps
<1> QED BY <1>1, <1>2 DEF notifyTotals

LEMMA IssueKeeps ==
  ASSUME ClientAssumption, IInv, NEW a \in Attempt, issue(a) PROVE IInv'
<1>0. /\ UNCHANGED <<site, handle, kept, row, charges, agreed>>
      /\ call[a].at = "issuing" /\ CallTrue(a) /\ TypeOK
  BY DEF issue, driving, IInv, Throws
<1>1. CASE Throws(a)
  BY <1>0, <1>1, EndKeeps DEF Throws
<1>2. CASE call' = [call EXCEPT ![a].at = "completing", ![a].answer = NoAnswer,
             ![a].request = Request(a, "complete", call[a].answer.checkout, 0, PaymentRequest(a))]
  <2>1. PICK request : request = Request(a, "complete", call[a].answer.checkout, 0, PaymentRequest(a))
    OBVIOUS
  <2>2. /\ request.key = call[a].key /\ request.step = "complete" /\ request.protocol = call[a].via.protocol
        /\ request.checkout = call[a].answer.checkout
    BY <2>1 DEF Request
  <2>3. /\ DOMAIN call' = Attempt /\ DOMAIN call'[a] = Fields
        /\ \A b \in Attempt \ {a} : call'[b] = call[b]
        /\ call'[a].at = "completing" /\ call'[a].via = call[a].via /\ call'[a].key = call[a].key
        /\ call'[a].request = request /\ call'[a].answer = NoAnswer
    BY <1>0, <1>2, <2>1 DEF TypeOK, Fields
  <2>4. /\ From(a, PricedBy(call[a].via.protocol)) /\ call[a].key = purchaseKey(a)
        /\ Agreement(a, call[a].answer.checkout, call[a].answer.total)
        /\ call[a].via.locked => call[a].answer.authorized # "none"
    BY <1>0 DEF CallTrue, AnswerHeard
  <2>5. Payable(a, request.checkout)'
    <3>1. PICK k \in kept : /\ Made(k, purchaseKey(a), PricedBy(call[a].via.protocol)) /\ Granted(k)
                  /\ k.request.protocol = call[a].via.protocol /\ Same(call[a].answer, k.answer)
      BY <2>4 DEF From
    <3>2. Agreement(a, request.checkout, k.answer.total)'
      BY <1>0, <2>2, <2>3, <2>4, <3>1 DEF Agreement, Same
    <3> QED BY <1>0, <2>2, <2>3, <2>4, <3>1, <3>2 DEF Payable, Made, Granted, PricedBy, Same
  <2>6. RequestTrue(a)'
    <3>1. Payable(a, call[a].request.checkout)'
      BY <2>3, <2>5 DEF Payable, Agreement
    <3> QED BY <2>2, <2>3, <2>4, <3>1 DEF RequestTrue, StepAt
  <2>7. AnswerHeard(a)'
    BY <2>3 DEF AnswerHeard
  <2>8. CallTrue(a)'
    BY <1>0, <2>3, <2>4, <2>6, <2>7 DEF CallTrue
  <2> QED BY <1>0, <2>3, <2>8, DriverKeeps
<1> QED BY <1>1, <1>2 DEF issue

LEMMA CompletedKeeps ==
  ASSUME ClientAssumption, IInv, NEW a \in Attempt, completed(a) PROVE IInv'
<1>0. /\ UNCHANGED <<site, handle, kept, row, charges, agreed>>
      /\ call[a].at = "completing" /\ call[a].answer # NoAnswer
      /\ CallTrue(a) /\ TypeOK /\ KeptTrue
  BY DEF completed, driving, IInv, Answered, Throws
<1>1. CASE Throws(a)
  BY <1>0, <1>1, EndKeeps DEF Throws
<1>2. CASE /\ receiptOf(a).status # "throws"
           /\ call' = [call EXCEPT ![a] = [NoCall EXCEPT !.at = "bought", !.key = call[a].key,
                                            !.receipt = receiptOf(a)]]
  <2>1. PICK receipt : receipt = receiptOf(a)
    OBVIOUS
  <2>2. /\ receipt.charged = call[a].answer.total
        /\ receipt.status = (IF call[a].via.protocol = "acp"
                             THEN mapAcpToOrderState(call[a].answer.status, call[a].answer.order)
                             ELSE mapUcpCheckoutStatus(call[a].answer.status))
    BY <2>1 DEF receiptOf
  <2>3. /\ DOMAIN call' = Attempt /\ DOMAIN call'[a] = Fields
        /\ \A b \in Attempt \ {a} : call'[b] = call[b]
        /\ call'[a].at = "bought" /\ call'[a].request = NoRequest /\ call'[a].receipt = receipt
    BY <1>0, <1>2, <2>1 DEF TypeOK, Fields, NoCall
  <2>4. call[a].answer.status # "error"
    BY <1>2, <2>1, <2>2 DEF mapAcpToOrderState, mapUcpCheckoutStatus
  <2>5. PICK k \in kept : /\ Made(k, purchaseKey(a), "complete") /\ Granted(k)
                  /\ k.request.protocol = call[a].via.protocol /\ Same(call[a].answer, k.answer)
    BY <1>0, <2>4 DEF CallTrue, AnswerHeard, StepAt, From
  <2>6. /\ k.answer.status = "completed" /\ Charged(k.request.key, k.answer.total)
        /\ k.request.protocol = "acp" => k.answer.order \in {"confirmed", "created"}
    BY <1>0, <2>5 DEF KeptTrue, AnswerTrue, Made
  <2>7. receipt.status \in {"captured", "completed"}
    BY <2>2, <2>5, <2>6 DEF Same, mapAcpToOrderState, mapUcpCheckoutStatus, mapCompletedAcpOrderStatus
  <2>8. \E c \in charges : purchaseKey(c.by) = purchaseKey(a) /\ c.total = receipt.charged
    BY <2>2, <2>5, <2>6 DEF Charged, Made, Same
  <2>9. CallTrue(a)'
    BY <1>0, <2>3, <2>7, <2>8 DEF CallTrue, RequestTrue, AnswerHeard
  <2> QED BY <1>0, <2>3, <2>9, DriverKeeps
<1> QED BY <1>1, <1>2 DEF completed

LEMMA LoseKeeps ==
  ASSUME IInv, NEW a \in Attempt, lose(a) PROVE IInv'
  BY EndKeeps DEF lose

\* connect moves no call: what it returns is a handle of one of the three kinds.
LEMMA ConnectKeeps ==
  ASSUME IInv, startConnect \/ detectMcp \/ detectAcp \/ detectUcp PROVE IInv'
<1>1. UNCHANGED <<site, call, kept, row, charges, agreed>>
  BY DEF startConnect, detectMcp, detectAcp, detectUcp, buying
<1>2. HandleTrue'
  <2>1. ASSUME UNCHANGED handle PROVE HandleTrue'
    BY <2>1 DEF IInv, HandleTrue
  <2>2. ASSUME NEW error \in {"version_mismatch", "network_error", "protocol_mismatch", "mcp"},
               handle' = [NoHandle EXCEPT !.protocol = error]
        PROVE  HandleTrue'
    BY <2>2 DEF HandleTrue, NoHandle
  <2>3. ASSUME NEW document, handle' = acpMerchant(document) PROVE HandleTrue'
    BY <2>3 DEF HandleTrue, NoHandle, acpMerchant
  <2>4. ASSUME NEW doc, NEW ap2, handle' = ucpMerchant(doc, ap2) PROVE HandleTrue'
    BY <2>4 DEF HandleTrue, ucpMerchant
  <2>5. CASE startConnect
    BY <2>1, <2>5 DEF startConnect, Look
  <2>6. CASE detectMcp
    BY <2>1, <2>2, <2>6 DEF detectMcp, Look, Connected, Failure
  <2>7. CASE detectAcp
    <3>1. CASE site.acp = "unreachable" \/ site.feed = "unreachable"
      BY <2>1, <2>2, <2>3, <2>7, <3>1 DEF detectAcp, Look, Connected, Failure
    <3>2. CASE ~(site.acp = "unreachable" \/ site.feed = "unreachable")
      BY <2>1, <2>2, <2>3, <2>7, <3>2 DEF detectAcp, Look, Connected, Failure
    <3> QED BY <3>1, <3>2
  <2>8. CASE detectUcp
    <3>1. CASE connect.at = "ucp" /\ site.ucp = "unreachable"
      BY <2>2, <2>8, <3>1 DEF detectUcp, Connected, Failure
    <3>2. CASE connect.at = "ucp" /\ site.ucp = "absent"
      BY <2>2, <2>8, <3>2 DEF detectUcp, Connected, Failure
    <3>3. CASE connect.at = "ucp" /\ site.ucp \notin {"unreachable", "absent"} /\ Ap2
      BY <2>1, <2>8, <3>3 DEF detectUcp
    <3>4. CASE connect.at = "ucp" /\ site.ucp \notin {"unreachable", "absent"} /\ ~Ap2
      BY <2>4, <2>8, <3>4 DEF detectUcp, Connected
    <3>5. CASE connect.at = "buyer"
      BY <2>2, <2>4, <2>8, <3>5 DEF detectUcp, Connected, Failure
    <3> QED BY <2>8, <3>1, <3>2, <3>3, <3>4, <3>5 DEF detectUcp
  <2> QED BY <2>5, <2>6, <2>7, <2>8
<1>3. TypeOK' /\ KeptTrue' /\ ChargesTrue'
  BY <1>1, MerchantStill DEF IInv, TypeOK
<1>4. \A b \in Attempt : CallTrue(b)'
  BY <1>1, StillTrue DEF IInv
<1> QED BY <1>2, <1>3, <1>4 DEF IInv

LEMMA WorldKeeps ==
  ASSUME ClientAssumption, IInv, changeSite \/ tick \/ UNCHANGED vars PROVE IInv'
<1>1. /\ UNCHANGED <<handle, call, kept, row, charges, agreed>> /\ site' \in SiteRecord
  <2>1. site \in SiteRecord
    BY DEF IInv, TypeOK
  <2> QED BY <2>1 DEF changeSite, tick, vars, ClientAssumption
<1>2. TypeOK' /\ HandleTrue' /\ KeptTrue' /\ ChargesTrue'
  BY <1>1, MerchantStill DEF IInv, TypeOK, HandleTrue
<1>3. \A b \in Attempt : CallTrue(b)'
  BY <1>1, StillTrue DEF IInv
<1> QED BY <1>2, <1>3 DEF IInv

\* The answer that the merchant gives a request of a call is the one it keeps for it,
\* or a refusal.
LEMMA ReplyHeard ==
  ASSUME TypeOK, NEW a \in Attempt, CallTrue(a), call[a].request # NoRequest, kept \subseteq kept',
         NEW answer, DOMAIN answer = AnswerFields, answer.status # "none", Reply(a, answer),
         answer.status # "error" =>
           \E k \in kept' : /\ Made(k, call[a].request.key, call[a].request.step) /\ Granted(k)
                            /\ k.request.protocol = call[a].request.protocol /\ k.answer = answer
  PROVE  /\ DOMAIN call' = Attempt /\ DOMAIN call'[a] = Fields
         /\ \A b \in Attempt \ {a} : call'[b] = call[b]
         /\ CallTrue(a)'
<1>1. PICK signed : call' = [call EXCEPT ![a].request = NoRequest,
                               ![a].answer = [answer EXCEPT !.signed = signed]]
  BY DEF Reply
<1>2. PICK heard : heard = [answer EXCEPT !.signed = signed]
  OBVIOUS
<1>3. Same(heard, answer)
  BY <1>2 DEF Same, AnswerFields
<1>4. call' = [call EXCEPT ![a].request = NoRequest, ![a].answer = heard]
  BY <1>1, <1>2
<1>5. /\ DOMAIN call' = Attempt /\ DOMAIN call'[a] = Fields
      /\ \A b \in Attempt \ {a} : call'[b] = call[b]
      /\ call'[a].at = call[a].at /\ call'[a].via = call[a].via /\ call'[a].key = call[a].key
      /\ call'[a].request = NoRequest /\ call'[a].answer = heard
  BY <1>4 DEF TypeOK, Fields
<1>6. /\ call[a].at \in {"creating", "updating", "completing"}
      /\ call[a].request.key = purchaseKey(a) /\ call[a].request.step = StepAt(call[a].at)
      /\ call[a].request.protocol = call[a].via.protocol
  BY DEF CallTrue, RequestTrue
<1>7. ASSUME answer.status # "error" PROVE From(a, StepAt(call[a].at))'
  BY <1>3, <1>5, <1>6, <1>7 DEF From, Made, Granted, Same, StepAt
<1>8. AnswerHeard(a)'
  <2>1. StepAt(call[a].at)' = StepAt(call[a].at)
    BY <1>5
  <2>2. heard.status # "error" => From(a, StepAt(call[a].at))'
    BY <1>3, <1>7 DEF Same
  <2> QED BY <1>5, <1>6, <2>1, <2>2 DEF AnswerHeard
<1> QED BY <1>5, <1>6, <1>8 DEF CallTrue, RequestTrue

\* A step of the merchant, which has answered one call.
LEMMA MerchantKeeps ==
  ASSUME IInv, NEW a \in Attempt, DOMAIN call' = Attempt, DOMAIN call'[a] = Fields,
         \A b \in Attempt \ {a} : call'[b] = call[b], CallTrue(a)',
         UNCHANGED <<site, handle, agreed>>, kept \subseteq kept', charges \subseteq charges',
         row' \in Seq(Row), KeptTrue', ChargesTrue'
  PROVE  IInv'
<1>1. TypeOK' /\ HandleTrue'
  BY DEF IInv, TypeOK, HandleTrue
<1>2. \A b \in Attempt \ {a} : CallTrue(b)'
  BY StillTrue DEF IInv
<1> QED BY <1>1, <1>2 DEF IInv

LEMMA RefusalIs ==
  DOMAIN Refusal = AnswerFields /\ Refusal.status = "error"
  BY DEF Refusal, NoAnswer, AnswerFields

\* A request that is refused, and of which nothing is kept.
LEMMA RefusedKeeps ==
  ASSUME IInv, NEW a \in Attempt, call[a].request # NoRequest, Reply(a, Refusal),
         UNCHANGED <<site, handle, agreed, kept, row, charges>>
  PROVE  IInv'
<1>1. TypeOK /\ CallTrue(a) /\ KeptTrue' /\ ChargesTrue' /\ row' \in Seq(Row)
  BY MerchantStill DEF IInv, TypeOK
<1>2. /\ DOMAIN call' = Attempt /\ DOMAIN call'[a] = Fields
      /\ \A b \in Attempt \ {a} : call'[b] = call[b]
      /\ CallTrue(a)'
  BY <1>1, RefusalIs, ReplyHeard
<1> QED BY <1>1, <1>2, MerchantKeeps

\* A request that was answered before.
LEMMA RepeatKeeps ==
  ASSUME IInv, NEW a \in Attempt, NEW k \in kept, call[a].request # NoRequest,
         Made(k, call[a].request.key, call[a].request.step), k.request = call[a].request,
         Reply(a, k.answer), UNCHANGED <<site, handle, agreed, kept, row, charges>>
  PROVE  IInv'
<1>1. TypeOK /\ CallTrue(a) /\ KeptTrue' /\ ChargesTrue' /\ row' \in Seq(Row) /\ AnswerTrue(k)
  BY MerchantStill DEF IInv, TypeOK, KeptTrue
<1>2. /\ DOMAIN k.answer = AnswerFields /\ k.answer.status # "none"
      /\ k.answer.status # "error" => Granted(k)
  BY <1>1 DEF AnswerTrue, Granted
<1>3. /\ DOMAIN call' = Attempt /\ DOMAIN call'[a] = Fields
      /\ \A b \in Attempt \ {a} : call'[b] = call[b]
      /\ CallTrue(a)'
  BY <1>1, <1>2, ReplyHeard
<1> QED BY <1>1, <1>3, MerchantKeeps

\* What is kept, when one more answer is.
LEMMA KeptGrows ==
  ASSUME KeptTrue, NEW n, kept' = kept \cup {n}, charges \subseteq charges', AnswerTrue(n)',
         \A k \in kept : ~Made(k, n.request.key, n.request.step),
         \A k \in kept : Granted(k) =>
           /\ k.answer.checkout \in DOMAIN row'
           /\ row'[k.answer.checkout].locked = row[k.answer.checkout].locked,
         \A k \in kept :
           (k.request.step = "create" /\ k.request.protocol = "acp") \/ k.request.step = "update" =>
             row'[k.answer.checkout].total = row[k.answer.checkout].total,
         n.request.step = "create" =>
           \A k \in kept : k.request.step = "create" => k.answer.checkout # n.answer.checkout
  PROVE  KeptTrue'
<1>1. \A key, protocol, c : OpenedBy(key, protocol, c) => OpenedBy(key, protocol, c)'
  BY DEF OpenedBy, Made
<1>2. \A key, total : Charged(key, total) => Charged(key, total)'
  BY DEF Charged
<1>3. ASSUME NEW k \in kept PROVE AnswerTrue(k)'
  <2>1. AnswerTrue(k)
    BY DEF KeptTrue
  <2>2. k.request.step = "update" => OpenedBy(k.request.key, "ucp", k.answer.checkout)'
    BY <1>1, <2>1 DEF AnswerTrue
  <2>3. k.request.step = "complete" /\ Granted(k) => Charged(k.request.key, k.answer.total)'
    BY <1>2, <2>1 DEF AnswerTrue
  <2>4. Granted(k)' <=> Granted(k)
    BY DEF Granted
  <2> QED BY <2>1, <2>2, <2>3, <2>4 DEF AnswerTrue
<1>4. KeptOnce'
  BY DEF KeptTrue, KeptOnce, Made
<1>5. OneOpening'
  BY DEF KeptTrue, OneOpening
<1> QED BY <1>3, <1>4, <1>5 DEF KeptTrue

\* Nothing is charged.
LEMMA ChargesStill ==
  ASSUME ChargesTrue, UNCHANGED <<charges, agreed>>, kept \subseteq kept' PROVE ChargesTrue'
<1>1. \A c : AgreedTo(c) => AgreedTo(c)'
  BY DEF AgreedTo
<1> QED BY <1>1 DEF ChargesTrue, Made

LEMMA AnswerIs ==
  ASSUME NEW c, NEW r
  PROVE  /\ DOMAIN Answer(c, r) = AnswerFields
         /\ Answer(c, r).status = r.status /\ Answer(c, r).order = r.order
         /\ Answer(c, r).checkout = c /\ Answer(c, r).total = r.total
         /\ Answer(c, r).authorized # "none" => r.locked
  BY DEF Answer, NoAnswer, AnswerFields

\* A checkout that is there is stored again.
LEMMA StoreAgain ==
  ASSUME row \in Seq(Row), NEW c \in DOMAIN row, NEW r \in Row, NEW answer, NEW request,
         Store(c, r, answer, request)
  PROVE  /\ row' \in Seq(Row) /\ DOMAIN row' = DOMAIN row /\ row'[c] = r
         /\ \A d \in DOMAIN row \ {c} : row'[d] = row[d]
         /\ kept' = kept \cup {[request |-> request, answer |-> answer]}
<1>1. c # Len(row) + 1
  OBVIOUS
<1>2. row' = [row EXCEPT ![c] = r] /\ kept' = kept \cup {[request |-> request, answer |-> answer]}
  BY <1>1 DEF Store
<1> QED BY <1>2

LEMMA CreateKeeps ==
  ASSUME ClientAssumption, IInv, NEW a \in Attempt, NEW request, request = call[a].request,
         request # NoRequest, request.step = "create",
         \A k \in kept : ~Made(k, request.key, request.step),
         NEW r \in Row, r.status = "ready",
         request.protocol = "acp" => r.protocol = "acp",
         Store(Len(row) + 1, r, Answer(Len(row) + 1, r), request),
         Reply(a, Answer(Len(row) + 1, r)), UNCHANGED <<site, handle, agreed, charges>>
  PROVE  IInv'
<1>0. TypeOK /\ CallTrue(a) /\ row \in Seq(Row) /\ KeptTrue /\ ChargesTrue
  BY DEF IInv, TypeOK
<1>1. PICK c, answer, n : /\ c = Len(row) + 1 /\ answer = Answer(c, r)
                          /\ n = [request |-> request, answer |-> answer]
  OBVIOUS
<1>2. row' = Append(row, r) /\ kept' = kept \cup {n}
  BY <1>1 DEF Store
<1>3. /\ row' \in Seq(Row) /\ c \notin DOMAIN row /\ c \in DOMAIN row' /\ row'[c] = r
      /\ DOMAIN row \subseteq DOMAIN row' /\ \A d \in DOMAIN row : row'[d] = row[d]
  BY <1>0, <1>1, <1>2
<1>4. /\ DOMAIN answer = AnswerFields /\ answer.status = "ready" /\ answer.checkout = c
      /\ answer.total = r.total /\ (answer.authorized # "none" => r.locked)
  BY <1>1, AnswerIs
<1>5. AnswerTrue(n)'
  BY <1>1, <1>3, <1>4 DEF AnswerTrue, Granted
<1>6. \A k \in kept : /\ Granted(k) => k.answer.checkout \in DOMAIN row
                      /\ k.request.step \in {"create", "update"} => Granted(k)
  BY <1>0 DEF KeptTrue, AnswerTrue
<1>7. KeptTrue'
  <2>1. \A k \in kept : Granted(k) =>
           /\ k.answer.checkout \in DOMAIN row'
           /\ row'[k.answer.checkout].locked = row[k.answer.checkout].locked
    BY <1>3, <1>6
  <2>2. \A k \in kept :
           (k.request.step = "create" /\ k.request.protocol = "acp") \/ k.request.step = "update" =>
             row'[k.answer.checkout].total = row[k.answer.checkout].total
    BY <1>3, <1>6
  <2>3. \A k \in kept : k.request.step = "create" => k.answer.checkout # n.answer.checkout
    BY <1>1, <1>3, <1>4, <1>6
  <2>4. \A k \in kept : ~Made(k, n.request.key, n.request.step)
    BY <1>1
  <2> QED BY <1>0, <1>2, <1>5, <2>1, <2>2, <2>3, <2>4, KeptGrows
<1>8. ChargesTrue'
  BY <1>0, <1>2, ChargesStill
<1>9. /\ DOMAIN call' = Attempt /\ DOMAIN call'[a] = Fields
      /\ \A b \in Attempt \ {a} : call'[b] = call[b]
      /\ CallTrue(a)'
  <2>1. n \in kept' /\ Made(n, call[a].request.key, call[a].request.step) /\ Granted(n)
        /\ n.request.protocol = call[a].request.protocol /\ n.answer = answer
    BY <1>1, <1>2, <1>4 DEF Made, Granted
  <2> QED BY <1>0, <1>1, <1>2, <1>4, <2>1, ReplyHeard
<1> QED BY <1>2, <1>3, <1>7, <1>8, <1>9, MerchantKeeps

\* A request about a checkout is about one that was opened.
LEMMA RequestRow ==
  ASSUME IInv, NEW a \in Attempt, call[a].request # NoRequest, call[a].request.step \in {"update", "complete"}
  PROVE  call[a].request.checkout \in DOMAIN row
<1>1. CallTrue(a) /\ \A k \in kept : AnswerTrue(k)
  BY DEF IInv, KeptTrue
<1>2. \E k \in kept : Granted(k) /\ k.answer.checkout = call[a].request.checkout
  BY <1>1 DEF CallTrue, RequestTrue, OpenedBy, Payable, Made, AnswerTrue
<1> QED BY <1>1, <1>2 DEF AnswerTrue

LEMMA UpdateKeeps ==
  ASSUME ClientAssumption, IInv, NEW a \in Attempt, NEW request, request = call[a].request,
         request # NoRequest, request.step = "update",
         \A k \in kept : ~Made(k, request.key, request.step),
         NEW c, c = request.checkout, NEW r \in Row, r.status = "ready", r.locked = row[c].locked,
         Store(c, r, Answer(c, r), request),
         Reply(a, Answer(c, r)), UNCHANGED <<site, handle, agreed, charges>>
  PROVE  IInv'
<1>0. /\ TypeOK /\ CallTrue(a) /\ row \in Seq(Row) /\ KeptTrue /\ ChargesTrue
      /\ \A k \in kept : AnswerTrue(k)
  BY DEF IInv, TypeOK, KeptTrue
<1>1. request.protocol = "ucp" /\ OpenedBy(request.key, "ucp", c)
  BY <1>0 DEF CallTrue, RequestTrue, StepAt
<1>2. PICK o \in kept : Made(o, request.key, "create") /\ o.request.protocol = "ucp" /\ o.answer.checkout = c
  BY <1>1 DEF OpenedBy
<1>3. c \in DOMAIN row
  BY <1>0, <1>2 DEF AnswerTrue, Made
<1>5. PICK answer, n : answer = Answer(c, r) /\ n = [request |-> request, answer |-> answer]
  OBVIOUS
<1>6. /\ row' \in Seq(Row) /\ DOMAIN row' = DOMAIN row /\ row'[c] = r
      /\ \A d \in DOMAIN row \ {c} : row'[d] = row[d]
      /\ kept' = kept \cup {n}
  BY <1>0, <1>3, <1>5, StoreAgain
<1>7. /\ DOMAIN answer = AnswerFields /\ answer.status = "ready" /\ answer.checkout = c
      /\ answer.total = r.total /\ (answer.authorized # "none" => r.locked)
  BY <1>5, AnswerIs
<1>8. AnswerTrue(n)'
  <2>1. OpenedBy(request.key, "ucp", c)'
    BY <1>2, <1>6 DEF OpenedBy, Made
  <2> QED BY <1>1, <1>3, <1>5, <1>6, <1>7, <2>1 DEF AnswerTrue, Granted
<1>9. ASSUME NEW k \in kept, k.answer.checkout = c
      PROVE  ~(k.request.step = "create" /\ k.request.protocol = "acp")
  BY <1>0, <1>2, <1>9 DEF KeptTrue, OneOpening, Made
<1>10. ASSUME NEW k \in kept, k.answer.checkout = c PROVE k.request.step # "update"
  <2> SUFFICES ASSUME k.request.step = "update" PROVE FALSE
    OBVIOUS
  <2>1. PICK p \in kept : Made(p, k.request.key, "create") /\ p.answer.checkout = c
    BY <1>0, <1>10 DEF AnswerTrue, OpenedBy
  <2>2. p = o
    BY <1>0, <1>2, <2>1 DEF KeptTrue, OneOpening, Made
  <2> QED BY <1>2, <2>1, <2>2 DEF Made
<1>11. KeptTrue'
  <2>1. ASSUME NEW k \in kept, Granted(k)
        PROVE  /\ k.answer.checkout \in DOMAIN row'
               /\ row'[k.answer.checkout].locked = row[k.answer.checkout].locked
    BY <1>0, <1>6, <2>1 DEF AnswerTrue
  <2>2. ASSUME NEW k \in kept,
               (k.request.step = "create" /\ k.request.protocol = "acp") \/ k.request.step = "update"
        PROVE  row'[k.answer.checkout].total = row[k.answer.checkout].total
    <3>1. k.answer.checkout \in DOMAIN row \ {c}
      BY <1>0, <1>9, <1>10, <2>2 DEF AnswerTrue
    <3> QED BY <1>6, <3>1
  <2>3. n.request.step # "create" /\ \A k \in kept : ~Made(k, n.request.key, n.request.step)
    BY <1>5
  <2> QED BY <1>0, <1>6, <1>8, <2>1, <2>2, <2>3, KeptGrows
<1>12. ChargesTrue'
  BY <1>0, <1>6, ChargesStill
<1>13. /\ DOMAIN call' = Attempt /\ DOMAIN call'[a] = Fields
       /\ \A b \in Attempt \ {a} : call'[b] = call[b]
       /\ CallTrue(a)'
  <2>1. n \in kept' /\ Made(n, call[a].request.key, call[a].request.step) /\ Granted(n)
        /\ n.request.protocol = call[a].request.protocol /\ n.answer = answer
    BY <1>5, <1>6, <1>7 DEF Made, Granted
  <2> QED BY <1>0, <1>5, <1>6, <1>7, <2>1, ReplyHeard
<1> QED BY <1>6, <1>11, <1>12, <1>13, MerchantKeeps

\* What is kept, when an attempt at completing a checkout is answered: neither its
\* price nor whether it is locked for AP2 changes by that.
LEMMA CompletionKept ==
  ASSUME KeptTrue, row \in Seq(Row), NEW c \in DOMAIN row, NEW r \in Row, r.locked = row[c].locked,
         r.total = row[c].total, NEW answer, NEW request, Store(c, r, answer, request),
         charges \subseteq charges', request.step = "complete",
         \A k \in kept : ~Made(k, request.key, request.step),
         NEW n, n = [request |-> request, answer |-> answer],
         row' \in Seq(Row) /\ DOMAIN row' = DOMAIN row /\ row'[c] = r => AnswerTrue(n)'
  PROVE  KeptTrue' /\ row' \in Seq(Row) /\ kept' = kept \cup {n}
<1>1. /\ row' \in Seq(Row) /\ DOMAIN row' = DOMAIN row /\ row'[c] = r
      /\ \A d \in DOMAIN row \ {c} : row'[d] = row[d]
      /\ kept' = kept \cup {n}
  BY StoreAgain
<1>2. \A k \in kept : /\ Granted(k) => k.answer.checkout \in DOMAIN row
                      /\ k.request.step \in {"create", "update"} => Granted(k)
  BY DEF KeptTrue, AnswerTrue
<1>3. \A k \in kept : Granted(k) =>
           /\ k.answer.checkout \in DOMAIN row'
           /\ row'[k.answer.checkout].locked = row[k.answer.checkout].locked
  BY <1>1, <1>2
<1>4. \A k \in kept :
           (k.request.step = "create" /\ k.request.protocol = "acp") \/ k.request.step = "update" =>
             row'[k.answer.checkout].total = row[k.answer.checkout].total
  BY <1>1, <1>2
<1>5. AnswerTrue(n)' /\ n.request.step # "create" /\ \A k \in kept : ~Made(k, n.request.key, n.request.step)
  BY <1>1
<1> QED BY <1>1, <1>3, <1>4, <1>5, KeptGrows

LEMMA DeniedKeeps ==
  ASSUME IInv, NEW a \in Attempt, NEW request, request = call[a].request,
         request # NoRequest, request.step = "complete",
         \A k \in kept : ~Made(k, request.key, request.step),
         NEW c, c = request.checkout, NEW r \in Row, r.locked = row[c].locked, r.total = row[c].total,
         Store(c, r, Refusal, request), Reply(a, Refusal), UNCHANGED <<site, handle, agreed, charges>>
  PROVE  IInv'
<1>0. TypeOK /\ CallTrue(a) /\ row \in Seq(Row) /\ KeptTrue /\ ChargesTrue /\ c \in DOMAIN row
  BY RequestRow DEF IInv, TypeOK
<1>1. PICK n : n = [request |-> request, answer |-> Refusal]
  OBVIOUS
<1>2. AnswerTrue(n)'
  BY <1>1, RefusalIs DEF AnswerTrue, Granted
<1>3. KeptTrue' /\ row' \in Seq(Row) /\ kept' = kept \cup {n}
  BY <1>0, <1>1, <1>2, CompletionKept
<1>4. ChargesTrue'
  BY <1>0, <1>3, ChargesStill
<1>5. /\ DOMAIN call' = Attempt /\ DOMAIN call'[a] = Fields
      /\ \A b \in Attempt \ {a} : call'[b] = call[b]
      /\ CallTrue(a)'
  BY <1>0, <1>3, RefusalIs, ReplyHeard
<1> QED BY <1>3, <1>4, <1>5, MerchantKeeps

\* What a checkout costs is what the wallet agreed to, when it is paid for.
LEMMA PaidAtPrice ==
  ASSUME IInv, NEW a \in Attempt, call[a].request # NoRequest, call[a].request.step = "complete",
         NEW c, c = call[a].request.checkout
  PROVE  \E g \in agreed : /\ g.by = a /\ g.checkout = c /\ g.total = row[c].total
                           /\ g.locked => g.signed /\ row[c].locked
<1>1. CallTrue(a) /\ \A k \in kept : AnswerTrue(k)
  BY DEF IInv, KeptTrue
<1>2. Payable(a, c) /\ call[a].via.protocol \in {"acp", "ucp"}
  BY <1>1 DEF CallTrue, RequestTrue
<1>3. PICK k \in kept : /\ Made(k, purchaseKey(a), PricedBy(call[a].via.protocol)) /\ Granted(k)
                        /\ k.request.protocol = call[a].via.protocol
                        /\ k.answer.checkout = c /\ Agreement(a, c, k.answer.total)
                        /\ call[a].via.locked => k.answer.authorized # "none"
  BY <1>2 DEF Payable
<1>4. row[c].total = k.answer.total /\ (call[a].via.locked => row[c].locked)
  BY <1>1, <1>2, <1>3 DEF AnswerTrue, Made, PricedBy
<1> QED BY <1>3, <1>4 DEF Agreement

LEMMA ChargeKeeps ==
  ASSUME IInv, NEW a \in Attempt, NEW request, request = call[a].request,
         request # NoRequest, request.step = "complete",
         \A k \in kept : ~Made(k, request.key, request.step),
         NEW c, c = request.checkout, NEW r \in Row, r.locked = row[c].locked, r.total = row[c].total,
         r.status = "completed", request.protocol = "acp" => r.order \in {"confirmed", "created"},
         Store(c, r, Answer(c, r), request), Reply(a, Answer(c, r)), UNCHANGED <<site, handle, agreed>>,
         charges' = charges \cup
              {[by |-> a, checkout |-> c, total |-> row[c].total, locked |-> row[c].locked]}
  PROVE  IInv'
<1>0. TypeOK /\ CallTrue(a) /\ row \in Seq(Row) /\ KeptTrue /\ ChargesTrue /\ c \in DOMAIN row
  BY RequestRow DEF IInv, TypeOK
<1>1. PICK n, answer, d :
        /\ answer = Answer(c, r) /\ n = [request |-> request, answer |-> answer]
        /\ d = [by |-> a, checkout |-> c, total |-> row[c].total, locked |-> row[c].locked]
  OBVIOUS
<1>2. /\ d.by = a /\ d.checkout = c /\ d.total = row[c].total /\ d.locked = row[c].locked
      /\ charges' = charges \cup {d} /\ request.key = purchaseKey(a)
  BY <1>0, <1>1 DEF CallTrue, RequestTrue
<1>3. /\ DOMAIN answer = AnswerFields /\ answer.status = "completed" /\ answer.checkout = c
      /\ answer.total = row[c].total /\ answer.order = r.order /\ (answer.authorized # "none" => r.locked)
  BY <1>1, AnswerIs
<1>4. row' \in Seq(Row) /\ DOMAIN row' = DOMAIN row /\ row'[c] = r => AnswerTrue(n)'
  <2>1. Charged(request.key, answer.total)'
    BY <1>2, <1>3 DEF Charged
  <2> QED BY <1>0, <1>1, <1>3, <2>1 DEF AnswerTrue, Granted
<1>5. KeptTrue' /\ row' \in Seq(Row) /\ kept' = kept \cup {n}
  <2>1. Store(c, r, answer, request) /\ charges \subseteq charges'
    BY <1>1
  <2> QED BY <1>0, <1>1, <1>4, <2>1, CompletionKept
<1>6. ChargesTrue'
  <2>1. \A e : AgreedTo(e) => AgreedTo(e)'
    BY DEF AgreedTo
  <2>2. AgreedTo(d)'
    BY <1>2, PaidAtPrice DEF AgreedTo
  <2>3. Made(n, purchaseKey(a), "complete")
    BY <1>1, <1>2 DEF Made
  <2>4. \A e \in charges : purchaseKey(e.by) # purchaseKey(a)
    BY <1>0, <1>2 DEF ChargesTrue, Made
  <2>5. \A e \in charges' : /\ e.by \in Attempt /\ AgreedTo(e)'
                            /\ \E k \in kept' : Made(k, purchaseKey(e.by), "complete")
    BY <1>0, <1>2, <1>5, <2>1, <2>2, <2>3 DEF ChargesTrue
  <2>6. \A e, f \in charges' : purchaseKey(e.by) = purchaseKey(f.by) => e = f
    BY <1>0, <1>2, <2>4 DEF ChargesTrue
  <2> QED BY <2>5, <2>6 DEF ChargesTrue, Made
<1>7. /\ DOMAIN call' = Attempt /\ DOMAIN call'[a] = Fields
      /\ \A b \in Attempt \ {a} : call'[b] = call[b]
      /\ CallTrue(a)'
  <2>1. n \in kept' /\ Made(n, call[a].request.key, call[a].request.step) /\ Granted(n)
        /\ n.request.protocol = call[a].request.protocol /\ n.answer = answer
    BY <1>1, <1>3, <1>5 DEF Made, Granted
  <2> QED BY <1>0, <1>1, <1>3, <1>5, <2>1, ReplyHeard
<1> QED BY <1>2, <1>5, <1>6, <1>7, MerchantKeeps

LEMMA ServeNewKeeps ==
  ASSUME ClientAssumption, IInv, NEW a \in Attempt, NEW request, request = call[a].request,
         request # NoRequest, \A k \in kept : ~Made(k, request.key, request.step),
         serveNew(a, request), UNCHANGED <<site, handle, agreed>>
  PROVE  IInv'
<1>0. /\ TypeOK /\ CallTrue(a) /\ row \in Seq(Row) /\ site \in SiteRecord
      /\ site.price \in Nat /\ site.handlers \subseteq {"delegate", "issuer"}
  BY DEF IInv, TypeOK, SiteRecord
<1>1. CASE request.step = "create"
  <2>1. PICK profile \in BuyerProfile :
          LET r == [protocol |-> request.protocol, status |-> "ready", order |-> "none",
                    locked |-> ucpAp2Locked(request, profile),
                    handlers |-> IF request.protocol = "ucp" THEN withUcpPaymentHandlers
                                                             ELSE withAcpPaymentHandlers,
                    total |-> IF request.protocol = "ucp" THEN site.price ELSE request.amount]
          IN /\ Store(Len(row) + 1, r, Answer(Len(row) + 1, r), request)
             /\ Reply(a, Answer(Len(row) + 1, r))
             /\ UNCHANGED charges
    BY <1>1 DEF serveNew
  <2>2. PICK locked, handlers, total, r :
          /\ locked = ucpAp2Locked(request, profile)
          /\ handlers = (IF request.protocol = "ucp" THEN withUcpPaymentHandlers ELSE withAcpPaymentHandlers)
          /\ total = (IF request.protocol = "ucp" THEN site.price ELSE request.amount)
          /\ r = [protocol |-> request.protocol, status |-> "ready", order |-> "none",
                  locked |-> locked, handlers |-> handlers, total |-> total]
    OBVIOUS
  <2>3. locked \in BOOLEAN
    <3>1. \A p \in BuyerProfile : p.ap2 \in BOOLEAN
      BY DEF BuyerProfile, createUcpBuyerProfile
    <3>2. site.ap2 \in BOOLEAN
      BY <1>0 DEF SiteRecord
    <3> QED BY <2>2, <3>1, <3>2 DEF ucpAp2Locked
  <2>4. handlers \in SUBSET {"delegate", "issuer"}
    BY <1>0, <2>2 DEF withUcpPaymentHandlers, withAcpPaymentHandlers
  <2>5. request.protocol \in {"acp", "ucp"} /\ total \in Nat
    BY <1>0, <1>1, <2>2 DEF CallTrue, RequestTrue
  <2>6. r \in Row /\ r.status = "ready" /\ r.protocol = request.protocol
    BY <2>2, <2>3, <2>4, <2>5 DEF Row
  <2>7. /\ Store(Len(row) + 1, r, Answer(Len(row) + 1, r), request)
        /\ Reply(a, Answer(Len(row) + 1, r)) /\ UNCHANGED charges
    BY <2>1, <2>2
  <2> QED BY <1>1, <2>6, <2>7, CreateKeeps
<1>2. CASE request.step = "update"
  <2>1. PICK c, r : c = request.checkout /\ r = [row[c] EXCEPT !.total = site.price, !.status = "ready"]
    OBVIOUS
  <2>2. Store(c, r, Answer(c, r), request) /\ Reply(a, Answer(c, r)) /\ UNCHANGED charges
    BY <1>2, <2>1 DEF serveNew
  <2>3. r \in Row /\ r.status = "ready" /\ r.locked = row[c].locked
    <3>1. row[c] \in Row
      BY <1>0, <1>2, <2>1, RequestRow
    <3> QED BY <1>0, <2>1, <3>1 DEF Row
  <2> QED BY <1>2, <2>1, <2>2, <2>3, UpdateKeeps
<1>3. CASE request.step = "complete"
  <2>1. PICK c : c = request.checkout
    OBVIOUS
  <2>2. row[c] \in Row
    BY <1>0, <1>3, <2>1, RequestRow
  <2>3. CASE Reply(a, Refusal) /\ UNCHANGED <<row, kept, charges>>
    BY <2>3, RefusedKeeps
  <2>4. CASE Store(c, row[c], Refusal, request) /\ Reply(a, Refusal) /\ UNCHANGED charges
    BY <1>3, <2>1, <2>2, <2>4, DeniedKeeps
  <2>5. CASE Store(c, checkoutCanceled(row[c]), Refusal, request) /\ Reply(a, Refusal) /\ UNCHANGED charges
    <3>1. PICK r : r = checkoutCanceled(row[c])
      OBVIOUS
    <3>2. r \in Row /\ r.locked = row[c].locked /\ r.total = row[c].total
      BY <2>2, <3>1 DEF Row, checkoutCanceled
    <3> QED BY <1>3, <2>1, <2>5, <3>1, <3>2, DeniedKeeps
  <2>6. ASSUME NEW r,
               \/ \E capture : r = applyCompleteRequest(row[c], capture)
               \/ r = applyUcpComplete(row[c]) /\ request.protocol # "acp",
               Store(c, r, Answer(c, r), request), Reply(a, Answer(c, r)),
               charges' = charges \cup
                    {[by |-> a, checkout |-> c, total |-> row[c].total, locked |-> row[c].locked]}
        PROVE  IInv'
    <3>1. /\ r \in Row /\ r.locked = row[c].locked /\ r.total = row[c].total /\ r.status = "completed"
          /\ request.protocol = "acp" => r.order \in {"confirmed", "created"}
      BY <2>2, <2>6 DEF Row, applyCompleteRequest, applyUcpComplete
    <3> QED BY <1>3, <2>1, <2>6, <3>1, ChargeKeeps
  <2>7. \/ Reply(a, Refusal) /\ UNCHANGED <<row, kept, charges>>
        \/ Store(c, row[c], Refusal, request) /\ Reply(a, Refusal) /\ UNCHANGED charges
        \/ Store(c, checkoutCanceled(row[c]), Refusal, request) /\ Reply(a, Refusal) /\ UNCHANGED charges
        \/ \E capture :
             LET r == IF request.protocol = "acp" THEN applyCompleteRequest(row[c], capture)
                                                  ELSE applyUcpComplete(row[c])
             IN /\ Store(c, r, Answer(c, r), request)
                /\ Reply(a, Answer(c, r))
                /\ charges' = charges \cup
                     {[by |-> a, checkout |-> c, total |-> row[c].total, locked |-> row[c].locked]}
    BY <1>3, <2>1 DEF serveNew
  <2>8. CASE \E capture :
             LET r == IF request.protocol = "acp" THEN applyCompleteRequest(row[c], capture)
                                                  ELSE applyUcpComplete(row[c])
             IN /\ Store(c, r, Answer(c, r), request)
                /\ Reply(a, Answer(c, r))
                /\ charges' = charges \cup
                     {[by |-> a, checkout |-> c, total |-> row[c].total, locked |-> row[c].locked]}
    <3>1. CASE request.protocol = "acp"
      BY <2>6, <2>8, <3>1
    <3>2. CASE request.protocol # "acp"
      BY <2>6, <2>8, <3>2
    <3> QED BY <3>1, <3>2
  <2> QED BY <2>3, <2>4, <2>5, <2>7, <2>8
<1> QED BY <1>1, <1>2, <1>3 DEF serveNew

LEMMA ServeKeeps ==
  ASSUME ClientAssumption, IInv, NEW a \in Attempt, serve(a) PROVE IInv'
<1>1. PICK request, same :
        /\ request = call[a].request
        /\ same = {k \in kept : k.request.key = request.key /\ k.request.step = request.step}
  OBVIOUS
<1>2. /\ request # NoRequest
      /\ \/ Reply(a, Refusal) /\ UNCHANGED <<kept, row, charges>>
         \/ same = {} /\ serveNew(a, request)
         \/ \E k \in same : /\ Reply(a, IF k.request = request THEN k.answer ELSE Refusal)
                            /\ UNCHANGED <<kept, row, charges>>
      /\ UNCHANGED asking
  BY <1>1 DEF serve
<1>3. UNCHANGED <<site, handle, agreed>>
  BY <1>2 DEF asking
<1>4. CASE Reply(a, Refusal) /\ UNCHANGED <<kept, row, charges>>
  BY <1>1, <1>2, <1>3, <1>4, RefusedKeeps
<1>5. CASE same = {} /\ serveNew(a, request)
  <2>1. \A k \in kept : ~Made(k, request.key, request.step)
    BY <1>1, <1>5 DEF Made
  <2> QED BY <1>1, <1>2, <1>3, <1>5, <2>1, ServeNewKeeps
<1>6. ASSUME NEW k \in same, Reply(a, k.answer), k.request = request, UNCHANGED <<kept, row, charges>>
      PROVE  IInv'
  <2>1. k \in kept /\ Made(k, call[a].request.key, call[a].request.step)
    BY <1>1 DEF Made
  <2> QED BY <1>1, <1>2, <1>3, <1>6, <2>1, RepeatKeeps
<1> QED BY <1>2, <1>4, <1>5, <1>6

LEMMA InitKeeps ==
  ASSUME ClientAssumption, Init PROVE IInv
<1>1. TypeOK /\ HandleTrue
  <2>1. FirstSite \in SiteRecord
    BY DEF ClientAssumption
  <2>2. DOMAIN NoCall = Fields
    BY DEF NoCall, Fields
  <2> QED BY <2>1, <2>2 DEF Init, TypeOK, HandleTrue, NoHandle
<1>2. KeptTrue /\ ChargesTrue
  BY DEF Init, KeptTrue, KeptOnce, OneOpening, ChargesTrue
<1>3. ASSUME NEW a \in Attempt PROVE CallTrue(a)
  <2>1. call[a] = NoCall
    BY DEF Init
  <2>2. call[a].at = "idle" /\ call[a].answer = NoAnswer /\ call[a].request = NoRequest
    BY <2>1 DEF NoCall
  <2> QED BY <2>2 DEF CallTrue, RequestTrue, AnswerHeard
<1> QED BY <1>1, <1>2, <1>3 DEF IInv

LEMMA StepKeeps ==
  ASSUME ClientAssumption, IInv, [Next]_vars PROVE IInv'
<1>1. CASE startConnect \/ detectMcp \/ detectAcp \/ detectUcp
  BY <1>1, ConnectKeeps
<1>2. ASSUME NEW a \in Attempt,
             \/ purchase(a) \/ created(a) \/ updated(a) \/ notifyTotals(a) \/ issue(a) \/ completed(a)
             \/ serve(a) \/ lose(a)
      PROVE  IInv'
  BY <1>2, PurchaseKeeps, CreatedKeeps, UpdatedKeeps, NotifyKeeps, IssueKeeps, CompletedKeeps, ServeKeeps,
     LoseKeeps
<1>3. CASE changeSite \/ tick \/ UNCHANGED vars
  BY <1>3, WorldKeeps
<1> QED BY <1>1, <1>2, <1>3 DEF Next

LEMMA SoCharged ==
  ASSUME IInv PROVE ChargedAsAgreed
<1>1. ASSUME NEW c \in charges PROVE \A d \in charges \ {c} : ~SamePurchase(c.by, d.by)
  BY KeysAgree DEF IInv, ChargesTrue
<1>2. ASSUME NEW c \in charges
      PROVE  \E g \in agreed : /\ SamePurchase(g.by, c.by) /\ g.checkout = c.checkout /\ g.total = c.total
                               /\ g.locked => g.signed /\ c.locked
  BY KeysAgree DEF IInv, ChargesTrue, AgreedTo
<1>3. ASSUME NEW a \in Attempt, call[a].at = "bought"
      PROVE  /\ call[a].receipt.status \in {"captured", "completed"}
             /\ \E c \in charges : SamePurchase(c.by, a) /\ c.total = call[a].receipt.charged
  <2>1. CallTrue(a) /\ \A c \in charges : c.by \in Attempt
    BY DEF IInv, ChargesTrue
  <2> QED BY <1>3, <2>1, KeysAgree DEF CallTrue
<1> QED BY <1>1, <1>2, <1>3 DEF ChargedAsAgreed

\* However often a purchase is called, through whichever handles and protocols and
\* whatever is lost of it, ACP's and UCP's drivers have it charged at most once, at a
\* total that the wallet was told for that checkout and, locked for AP2, one the
\* merchant signed; a receipt is of that charge (src/packages/buyer/src/client/).
THEOREM ChargesAreAgreed ==
  ASSUME ClientAssumption PROVE Spec => []ChargedAsAgreed
<1>1. Init => IInv
  BY InitKeeps
<1>2. IInv /\ [Next]_vars => IInv'
  BY StepKeeps
<1>3. IInv => ChargedAsAgreed
  BY SoCharged
<1> QED BY <1>1, <1>2, <1>3, PTL DEF Spec
=============================================================================
