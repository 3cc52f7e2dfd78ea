------------------------------ MODULE BuyerClient ------------------------------
(***************************************************************************)
(* The buyer's client.  connect asks a site, one document after the other, *)
(* which protocol it speaks and keeps what it learns in a handle; a        *)
(* purchase through a handle opens a checkout, lets the wallet agree to    *)
(* its total, has a payment token issued for it and completes it.  The     *)
(* site may change after it was asked, requests and answers are lost, and  *)
(* a purchase that failed is called again, with its key or without one,    *)
(* through the same handle or another.                                     *)
(*                                                                         *)
(* The merchant answers as MerchantCheckout and MandateCheckout have it,   *)
(* a request at a time and remembering keys for good.  One call of a       *)
(* purchase has one request under way: call[a].request, and its answer.    *)
(***************************************************************************)
EXTENDS Integers, Sequences, FiniteSets

CONSTANTS
  Attempt,     \* calls of merchant.purchase
  GivenKey(_), \* GivenKey(a): the idempotencyKey it is called with, or NoKey
  IntentId(_), \* IntentId(a): the intent_id of its intent, or NoKey
  Amount(_),   \* Amount(a): the amount of its intent
  Site,        \* what a site may serve
  FirstSite,   \* what it serves first
  Ap2,         \* whether the client is configured for AP2
  Preferred,   \* the request authentication it prefers, "hms" or "bearer"
  Credentials, \* what it may have to authenticate with at a purchase
  Issuer,      \* the wallet's payment mandate issuer: its instrument, or "none"
  DelegateUrl, \* whether the client has a delegatePaymentUrl
  MaxTime,     \* bound on the clock, in seconds
  MaxChanges,  \* bound on changes of the site
  MaxLost      \* bound on lost requests and answers

NoKey == "no_key"

\* The document at each place a client looks; version is of the read extension of its
\* MCP server; handlers stands for the kinds of payment handler on offer, key for the
\* merchant's signing key, which it publishes and signs answers with when hms is on.
SiteRecord ==
  [mcp : {"absent", "served", "unreachable"}, version : Nat \X Nat,
   acp : {"absent", "checkout", "catalogue", "unreachable"},
   feed : {"absent", "checkout", "catalogue", "unreachable"},
   ucp : {"absent", "checkout", "catalogue", "unreachable"},
   ap2 : BOOLEAN, handlers : SUBSET {"delegate", "issuer"}, key : STRING, hms : BOOLEAN,
   responseSigningPolicy : {"off", "high-value-only", "all"}, price : Nat]

ClientAssumption ==
  /\ Site \cup {FirstSite} \subseteq SiteRecord
  /\ Preferred \in {"hms", "bearer"} /\ Credentials \subseteq SUBSET {"hms", "bearer"}
  /\ Ap2 \in BOOLEAN /\ DelegateUrl \in BOOLEAN
  /\ Issuer \in {"none", "shared_payment_token", "delegated_payment_token"}
  /\ \A a \in Attempt : Amount(a) \in Nat
  /\ {MaxTime, MaxChanges, MaxLost} \subseteq Nat

VARIABLES
  clock,   \* seconds
  site,    \* what the site serves
  changes,
  connect, \* where connect is, and the profile it has read
  handle,  \* what it returned last
  call,    \* call[a]: a purchase
  lost,
  kept,    \* the merchant's answers by idempotency key
  row,     \* its checkouts, by number
  charges, \* what it was paid
  tokens,  \* payment tokens that were issued
  agreed   \* history: the totals the wallet agreed to

vars == <<clock, site, changes, connect, handle, call, lost, kept, row, charges, tokens, agreed>>

NoHandle == [protocol |-> "none", checkout |-> FALSE, locked |-> FALSE, handlers |-> {}, keys |-> {}]
Failure(error) == [NoHandle EXCEPT !.protocol = error]
NoToken == [way |-> "none", nonce |-> <<>>, iat |-> 0, max |-> 0, mandate |-> 0]
NoRequest == [key |-> <<>>, step |-> "none", protocol |-> "none", auth |-> "none", checkout |-> 0,
              amount |-> 0, token |-> NoToken]
NoAnswer == [status |-> "none", order |-> "none", checkout |-> 0, total |-> 0, authorized |-> "none",
             handlers |-> {}, signed |-> "none"]
NoReceipt == [charged |-> 0, status |-> "none"]
NoCall == [at |-> "idle", via |-> NoHandle, key |-> <<>>, auth |-> "none", request |-> NoRequest,
           answer |-> NoAnswer, handler |-> "none", receipt |-> NoReceipt]

(***************************************************************************)
(* Profiles                                                                *)
(***************************************************************************)
\* The handlers of a profile, which an unknown one has kept from being built.
buildUcpPaymentHandlers(s) == s.handlers

\* The site's profile: its signing keys are there when its answers can be signed.
buildUcpDiscovery(s) ==
  [checkout |-> s.ucp = "checkout", ap2 |-> s.ap2, handlers |-> buildUcpPaymentHandlers(s),
   signing_keys |-> IF s.hms THEN {s.key} ELSE {}]

\* A buyer's profile: AP2 is a capability of it or not, and it has some signing key.
Kid == "buyer_key"
createUcpBuyerProfile(ap2, signingKeys) == [ap2 |-> ap2, signing_keys |-> signingKeys]
BuyerProfile == {createUcpBuyerProfile(ap2, {kid}) : ap2 \in BOOLEAN, kid \in {Kid, "another"}}

buyerSupportsAp2(profile) == Ap2 /\ profile.ap2 /\ Kid \in profile.signing_keys

Init ==
  /\ clock = 0 /\ site = FirstSite /\ changes = 0
  /\ connect = [at |-> "idle", doc |-> buildUcpDiscovery(FirstSite)]
  /\ handle = NoHandle
  /\ call = [a \in Attempt |-> NoCall]
  /\ lost = 0
  /\ kept = {} /\ row = <<>> /\ charges = {} /\ tokens = {} /\ agreed = {}

(***************************************************************************)
(* connect                                                                 *)
(***************************************************************************)
buying == <<clock, site, changes, call, lost, kept, row, charges, tokens, agreed>>

Look(next) == connect' = [connect EXCEPT !.at = next] /\ UNCHANGED handle
Connected(h) == connect' = [connect EXCEPT !.at = "idle"] /\ handle' = h

startConnect ==
  /\ connect.at = "idle" /\ \E a \in Attempt : call[a].at = "idle"
  /\ Look("mcp")
  /\ UNCHANGED buying

COMMERCE_READ_VERSION == <<0, 1>>

\* Before 1.0 another minor is another protocol.
isCompatibleReadVersion(server) ==
  IF COMMERCE_READ_VERSION[1] = 0 THEN server = COMMERCE_READ_VERSION
                                  ELSE server[1] = COMMERCE_READ_VERSION[1]

detectMcp ==
  /\ connect.at = "mcp"
  /\ CASE site.mcp = "served" ->
              Connected(IF isCompatibleReadVersion(site.version)
                        THEN [NoHandle EXCEPT !.protocol = "mcp"] ELSE Failure("version_mismatch"))
       [] site.mcp = "unreachable" -> Connected(Failure("network_error"))
       [] OTHER -> Look("acp")
  /\ UNCHANGED buying

acpMerchant(document) ==
  [NoHandle EXCEPT !.protocol = "acp", !.checkout = document = "checkout"]

\* The discovery document, and where there is none the feed.
detectAcp ==
  /\ \/ /\ connect.at = "acp"
        /\ CASE site.acp = "unreachable" -> Connected(Failure("network_error"))
             [] site.acp = "absent" -> Look("feed")
             [] OTHER -> Connected(acpMerchant(site.acp))
     \/ /\ connect.at = "feed"
        /\ CASE site.feed = "unreachable" -> Connected(Failure("network_error"))
             [] site.feed = "absent" -> Look("ucp")
             [] OTHER -> Connected(acpMerchant(site.feed))
  /\ UNCHANGED buying

\* Locked when both profiles advertise AP2.
ucpMerchant(doc, buyerAp2) ==
  [protocol |-> "ucp", checkout |-> doc.checkout, locked |-> doc.checkout /\ buyerAp2 /\ doc.ap2,
   handlers |-> doc.handlers, keys |-> doc.signing_keys]

\* The site's profile; and when the client does AP2 the buyer's own, which advertises
\* AP2 and has the signing key, or not, or cannot be read.
detectUcp ==
  /\ \/ /\ connect.at = "ucp"
        /\ CASE site.ucp = "unreachable" -> Connected(Failure("network_error"))
             [] site.ucp = "absent" -> Connected(Failure("protocol_mismatch"))
             [] site.ucp \notin {"unreachable", "absent"} /\ Ap2 ->
                  connect' = [at |-> "buyer", doc |-> buildUcpDiscovery(site)] /\ UNCHANGED handle
             [] OTHER -> Connected(ucpMerchant(buildUcpDiscovery(site), FALSE))
     \/ /\ connect.at = "buyer"
        /\ \/ \E profile \in BuyerProfile :
                Connected(ucpMerchant(connect.doc, buyerSupportsAp2(profile)))
           \/ Connected(Failure("network_error"))
  /\ UNCHANGED buying

(***************************************************************************)
(* The merchant.  It is asked once for each key: a second request with the *)
(* same body has the same answer, one with another body an error.          *)
(***************************************************************************)
asking == <<clock, site, changes, connect, handle, lost, tokens, agreed>>

Refusal == [NoAnswer EXCEPT !.status = "error"]

Answer(c, r) ==
  [NoAnswer EXCEPT !.status = r.status, !.order = r.order, !.checkout = c, !.total = r.total,
                   !.handlers = r.handlers,
                   !.authorized = IF r.locked /\ site.ap2 THEN site.key ELSE "none"]

\* A completion is of high value.
shouldSignUcpResponse(step) ==
  \/ site.responseSigningPolicy = "all"
  \/ site.responseSigningPolicy = "high-value-only" /\ step = "complete"

activeUcpSigningKey == IF site.hms THEN site.key ELSE "none"

\* Every answer is signed as it is sent, a repeated one too.
Reply(a, answer) ==
  LET request == call[a].request
  IN call' = [call EXCEPT ![a].request = NoRequest,
       ![a].answer = [answer EXCEPT !.signed =
         IF request.protocol = "ucp" /\ shouldSignUcpResponse(request.step)
         THEN activeUcpSigningKey ELSE "none"]]

Store(c, r, answer, request) ==
  /\ row' = (IF c = Len(row) + 1 THEN Append(row, r) ELSE [row EXCEPT ![c] = r])
  /\ kept' = kept \cup {[request |-> request, answer |-> answer]}

Serves(protocol) ==
  IF protocol = "ucp" THEN site.ucp = "checkout" ELSE "checkout" \in {site.acp, site.feed}

\* What a checkout offers to be paid with, as it is created.
withAcpPaymentHandlers == site.handlers \cap {"issuer"}
withUcpPaymentHandlers == site.handlers
pspSupportsPayment(token) == token.way = "issuer" => "issuer" \in site.handlers

\* The merchant reads the profile of a buyer who signed its request itself.
ucpAp2Locked(request, profile) ==
  site.ap2 /\ request.protocol = "ucp" /\ request.auth = "hms" /\ profile.ap2

applyCompleteRequest(r, capture) ==
  [r EXCEPT !.status = "completed", !.order = IF capture = "captured" THEN "confirmed" ELSE "created"]
applyUcpComplete(r) == [r EXCEPT !.status = "completed"]
checkoutCanceled(r) == [r EXCEPT !.status = "canceled"]

serveNew(a, request) ==
  \/ \E profile \in BuyerProfile :
       LET r == [protocol |-> request.protocol, status |-> "ready", order |-> "none",
                 locked |-> ucpAp2Locked(request, profile),
                 handlers |-> IF request.protocol = "ucp" THEN withUcpPaymentHandlers
                                                          ELSE withAcpPaymentHandlers,
                 total |-> IF request.protocol = "ucp" THEN site.price ELSE request.amount]
       IN /\ request.step = "create"
          /\ Store(Len(row) + 1, r, Answer(Len(row) + 1, r), request)
          /\ Reply(a, Answer(Len(row) + 1, r))
          /\ UNCHANGED charges
  \/ LET c == request.checkout
         r == [row[c] EXCEPT !.total = site.price, !.status = "ready"]
     IN /\ request.step = "update"
        /\ Store(c, r, Answer(c, r), request)
        /\ Reply(a, Answer(c, r))
        /\ UNCHANGED charges
  \/ LET c == request.checkout
         token == request.token
         mandated == row[c].locked => token.mandate > 0
         payable == /\ row[c].locked => token.mandate = row[c].total
                    /\ row[c].total <= token.max /\ pspSupportsPayment(token)
     IN /\ request.step = "complete"
        /\ \/ /\ row[c].status # "ready"
              /\ Reply(a, Refusal) /\ UNCHANGED <<row, kept, charges>>
           \/ /\ row[c].status = "ready" /\ ~mandated
              /\ Store(c, row[c], Refusal, request) /\ Reply(a, Refusal) /\ UNCHANGED charges
           \/ /\ row[c].status = "ready" /\ mandated
              /\ Store(c, checkoutCanceled(row[c]), Refusal, request)
              /\ Reply(a, Refusal) /\ UNCHANGED charges
           \/ \E capture \in IF request.protocol = "acp" THEN {"captured", "authorized"} ELSE {"captured"} :
              LET r == IF request.protocol = "acp" THEN applyCompleteRequest(row[c], capture)
                                                   ELSE applyUcpComplete(row[c])
              IN /\ row[c].status = "ready" /\ mandated /\ payable
                 /\ Store(c, r, Answer(c, r), request)
                 /\ Reply(a, Answer(c, r))
                 /\ charges' = charges \cup {[by |-> a, checkout |-> c, total |-> row[c].total, locked |-> row[c].locked]}

\* The key of a request is its purchase's with its step: protocols share them.
serve(a) ==
  LET request == call[a].request
      same == {k \in kept : k.request.key = request.key /\ k.request.step = request.step}
  IN /\ request # NoRequest
     /\ \/ /\ ~Serves(request.protocol)
           /\ Reply(a, Refusal) /\ UNCHANGED <<kept, row, charges>>
        \/ /\ Serves(request.protocol) /\ same = {}
           /\ serveNew(a, request)
        \/ \E k \in same :
             /\ Serves(request.protocol)
             /\ Reply(a, IF k.request = request THEN k.answer ELSE Refusal)
             /\ UNCHANGED <<kept, row, charges>>
     /\ UNCHANGED asking

(***************************************************************************)
(* merchant.purchase                                                       *)
(***************************************************************************)
driving == <<clock, site, changes, connect, handle, lost, kept, row, charges>>

\* Mutant of purchaseKey: a call's key is its own.
callKey(a) == <<"random", a>>

purchaseKey(a) ==
  IF GivenKey(a) # NoKey THEN <<"given", GivenKey(a)>>
  ELSE IF IntentId(a) # NoKey THEN <<"intent", IntentId(a)>>
  ELSE <<"random", a>>

Ends(a, how) == call' = [call EXCEPT ![a] = [NoCall EXCEPT !.at = how]]
Throws(a) == Ends(a, "failed") /\ UNCHANGED <<tokens, agreed>>

Request(a, step, checkout, amount, token) ==
  [key |-> call[a].key, step |-> step, protocol |-> call[a].via.protocol, auth |-> call[a].auth,
   checkout |-> checkout, amount |-> amount, token |-> token]

\* A profile without handlers says nothing; a delegatePaymentUrl serves any.
CompatiblePaymentHandler(h) ==
  \/ h.protocol = "acp" \/ h.handlers = {} \/ DelegateUrl
  \/ Issuer # "none" /\ "issuer" \in h.handlers

\* The preferred authentication of a UCP request, or the other, or none that will do.
resolveUcpRequestAuth(has) ==
  IF Preferred \in has THEN Preferred
  ELSE IF "hms" \in has THEN "hms"
  ELSE IF "bearer" \in has THEN "bearer" ELSE "missing"

\* A handle of another protocol, without checkout or without a handler refuses, and one
\* that has nothing to authenticate with; the prices of a UCP checkout are the merchant's,
\* of an ACP one the intent's.
purchase(a) ==
  /\ call[a].at = "idle" /\ connect.at = "idle" /\ handle # NoHandle
  /\ \E has \in Credentials :
       LET auth == IF handle.protocol = "ucp" THEN resolveUcpRequestAuth(has) ELSE "none"
       IN IF handle.checkout /\ CompatiblePaymentHandler(handle) /\ auth # "missing"
          THEN call' = [call EXCEPT ![a].at = "creating", ![a].via = handle, ![a].key = purchaseKey(a),
                 ![a].auth = auth,
                 ![a].request = [NoRequest EXCEPT !.key = purchaseKey(a), !.step = "create",
                   !.protocol = handle.protocol, !.auth = auth,
                   !.amount = IF handle.protocol = "acp" THEN Amount(a) ELSE 0]]
          ELSE Ends(a, "refused")
  /\ UNCHANGED driving /\ UNCHANGED <<tokens, agreed>>

Answered(a, at) == call[a].at = at /\ call[a].answer # NoAnswer

\* The authorization of an answer must be by a key of the profile the handle was made
\* from; a locked handle must have one.
verifyAp2MerchantAuthorization(a) ==
  LET answer == call[a].answer
  IN IF answer.authorized = "none" THEN ~call[a].via.locked ELSE answer.authorized \in call[a].via.keys

\* The first handler that delegates, else one the issuer has a token for.
selectedUcpHandler(a) ==
  LET handlers == call[a].answer.handlers \cup call[a].via.handlers
  IN IF (handlers # {} /\ DelegateUrl) \/ "delegate" \in handlers THEN "delegate"
     ELSE IF Issuer # "none" /\ "issuer" \in handlers THEN "issuer" ELSE "none"

created(a) ==
  /\ Answered(a, "creating")
  /\ LET answer == call[a].answer
         acp == call[a].via.protocol = "acp"
     IN \/ /\ answer.status = "error" \/ (~acp /\ (~verifyAp2MerchantAuthorization(a)
                                                  \/ selectedUcpHandler(a) = "none"))
           /\ Throws(a)
        \/ /\ answer.status # "error" /\ acp
           /\ call' = [call EXCEPT ![a].at = "telling"]
        \/ /\ answer.status # "error" /\ ~acp /\ verifyAp2MerchantAuthorization(a)
           /\ selectedUcpHandler(a) # "none"
           /\ call' = [call EXCEPT ![a].at = "updating", ![a].answer = NoAnswer,
                ![a].handler = selectedUcpHandler(a),
                ![a].request = Request(a, "update", answer.checkout, 0, NoToken)]
  /\ UNCHANGED driving /\ UNCHANGED <<tokens, agreed>>

updated(a) ==
  /\ Answered(a, "updating")
  /\ IF call[a].answer.status # "error" /\ verifyAp2MerchantAuthorization(a)
     THEN call' = [call EXCEPT ![a].at = "telling"] /\ UNCHANGED <<tokens, agreed>>
     ELSE Throws(a)
  /\ UNCHANGED driving

\* The wallet agrees to the total, or throws.
notifyTotals(a) ==
  /\ call[a].at = "telling"
  /\ \/ /\ call' = [call EXCEPT ![a].at = "issuing"]
        /\ agreed' = agreed \cup
             {[by |-> a, total |-> call[a].answer.total, checkout |-> call[a].answer.checkout,
               locked |-> call[a].via.locked, signed |-> call[a].answer.authorized \in call[a].via.keys]}
        /\ UNCHANGED tokens
     \/ Throws(a)
  /\ UNCHANGED driving

\* A handler that needs no delegation.
selectedAcpHandler(a) == "issuer" \in call[a].answer.handlers

\* How the payment is made, "none" when it cannot be.
Way(a) ==
  IF call[a].via.protocol = "acp"
  THEN IF selectedAcpHandler(a) /\ Issuer = "shared_payment_token" THEN "issuer" ELSE "none"
  ELSE IF Issuer # "none" /\ (call[a].via.locked \/ call[a].handler = "issuer") THEN "issuer"
  ELSE IF call[a].handler = "delegate" THEN "delegate" ELSE "none"

\* The nonce an issuer is asked with: the merchant's for a locked checkout, else the
\* checkout's with the purchase's.
resolveAp2Nonce(a) ==
  IF call[a].via.locked THEN <<"ap2", call[a].answer.checkout>>
  ELSE <<call[a].via.protocol, call[a].answer.checkout, call[a].key>>

\* A token is for the total; a locked checkout has a mandate for it too.
Token(a) ==
  [way |-> Way(a), iat |-> clock, max |-> call[a].answer.total, nonce |-> resolveAp2Nonce(a),
   mandate |-> IF call[a].via.locked THEN call[a].answer.total ELSE 0]

\* A delegated one is asked for with the purchase's key.
delegatePaymentRequest(a) == [Token(a) EXCEPT !.nonce = <<"delegate", call[a].key>>]

PaymentRequest(a) == IF Way(a) = "delegate" THEN delegatePaymentRequest(a) ELSE Token(a)

\* An issuer's idempotency key is its request: the same one again is the same token.
Issued(token) == tokens \cup {token}

\* An issuer that fails, or returns another scope than was asked for, ends the purchase.
issue(a) ==
  /\ call[a].at = "issuing"
  /\ \/ /\ Way(a) # "none"
        /\ tokens' = Issued(PaymentRequest(a))
        /\ call' = [call EXCEPT ![a].at = "completing", ![a].answer = NoAnswer,
             ![a].request = Request(a, "complete", call[a].answer.checkout, 0, PaymentRequest(a))]
        /\ UNCHANGED agreed
     \/ Throws(a)
  /\ UNCHANGED driving

\* A signed answer must be by a key of the profile.
verifySignedUcpCompleteResponse(a) == call[a].answer.signed \in {"none"} \cup call[a].via.keys

\* An order status that is not known counts as captured.
mapCompletedAcpOrderStatus(order) ==
  CASE order \in {"completed", "shipped"} -> "completed"
    [] order = "manual_review" -> "pending_approval"
    [] order = "canceled" -> "canceled"
    [] OTHER -> "captured"

mapAcpToOrderState(status, order) ==
  CASE status = "completed" -> mapCompletedAcpOrderStatus(order)
    [] status \in {"complete_in_progress", "in_progress"} -> "captured"
    [] status \in {"canceled", "pending_approval"} -> status
    [] status \in {"authentication_required", "requires_escalation"} -> "escalation_required"
    [] status = "expired" -> "failed"
    [] OTHER -> "throws"

mapUcpCheckoutStatus(status) ==
  CASE status \in {"completed", "canceled"} -> status
    [] status = "complete_in_progress" -> "captured"
    [] status = "requires_escalation" -> "escalation_required"
    [] OTHER -> "throws"

receiptOf(a) ==
  LET answer == call[a].answer
  IN [charged |-> answer.total,
      status |-> IF call[a].via.protocol = "acp" THEN mapAcpToOrderState(answer.status, answer.order)
                                                 ELSE mapUcpCheckoutStatus(answer.status)]

completed(a) ==
  /\ Answered(a, "completing")
  /\ IF receiptOf(a).status # "throws" /\ verifySignedUcpCompleteResponse(a)
     THEN /\ call' = [call EXCEPT ![a] = [NoCall EXCEPT !.at = "bought", !.key = call[a].key,
                                            !.receipt = receiptOf(a)]]
          /\ UNCHANGED <<tokens, agreed>>
     ELSE Throws(a)
  /\ UNCHANGED driving

(***************************************************************************)
(* The world                                                               *)
(***************************************************************************)
\* A request is lost before it is served, or its answer is.
lose(a) ==
  /\ lost < MaxLost /\ call[a].at \in {"creating", "updating", "completing"}
  /\ lost' = lost + 1
  /\ Ends(a, "failed")
  /\ UNCHANGED <<clock, site, changes, connect, handle, kept, row, charges, tokens, agreed>>

changeSite ==
  /\ changes < MaxChanges /\ changes' = changes + 1
  /\ site' \in Site \ {site}
  /\ UNCHANGED <<clock, connect, handle, call, lost, kept, row, charges, tokens, agreed>>

tick ==
  /\ clock < MaxTime /\ clock' = clock + 1
  /\ UNCHANGED <<site, changes, connect, handle, call, lost, kept, row, charges, tokens, agreed>>

Next ==
  \/ startConnect \/ detectMcp \/ detectAcp \/ detectUcp
  \/ \E a \in Attempt :
       \/ purchase(a) \/ created(a) \/ updated(a) \/ notifyTotals(a) \/ issue(a) \/ completed(a)
       \/ serve(a) \/ lose(a)
  \/ changeSite \/ tick

Spec == Init /\ [][Next]_vars

(***************************************************************************)
(* Properties                                                              *)
(***************************************************************************)
\* Calls of one purchase: called with the same key, or without one for one intent.
SamePurchase(a, b) ==
  \/ a = b \/ (GivenKey(a) # NoKey /\ GivenKey(a) = GivenKey(b))
  \/ GivenKey(a) = NoKey /\ GivenKey(b) = NoKey /\ IntentId(a) # NoKey /\ IntentId(a) = IntentId(b)

\* However often a purchase is called, whatever is lost and whichever protocol the
\* site speaks by then, it is charged at most once, at a total the wallet agreed to
\* for that checkout; a buyer who is locked for AP2 has agreed to terms signed with a
\* key of the profile it connected by, and has paid with a mandate; and a receipt is
\* of the purchase's one charge and tells of an order that went through.
ChargedAsAgreed ==
  /\ \A c \in charges :
       /\ \A d \in charges \ {c} : ~SamePurchase(c.by, d.by)
       /\ \E g \in agreed :
            /\ SamePurchase(g.by, c.by) /\ g.checkout = c.checkout /\ g.total = c.total
            /\ g.locked => g.signed /\ c.locked
  /\ \A a \in Attempt : call[a].at = "bought" =>
       /\ call[a].receipt.status \in {"captured", "completed"}
       /\ \E c \in charges : SamePurchase(c.by, a) /\ c.total = call[a].receipt.charged
==============================================================================
