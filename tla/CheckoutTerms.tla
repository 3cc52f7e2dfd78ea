----------------------------- MODULE CheckoutTerms -----------------------------
(***************************************************************************)
(* What a merchant's checkout costs and what its policy is asked about it. *)
(* Requests create, update and complete ACP and UCP checkouts; each reads  *)
(* the checkout, asks the policy, whose file is read again when it has     *)
(* changed, and writes.  Between these three the others run, and the       *)
(* merchant edits the policy file.  MerchantCheckout has what this leaves  *)
(* out: keys of idempotency, leases, providers; a completion's claim and   *)
(* capture are one step here.                                              *)
(*                                                                         *)
(* A body is [lines, currency]: no lines are a request without line_items, *)
(* "" is a field it does not have.  A line is [id, item, quantity, unit]   *)
(* when asked for (UCP omits the price of an item, ACP its quantity) and   *)
(* [id, item, quantity, unit, total] when stored.                          *)
(***************************************************************************)
EXTENDS PolicyRules

CONSTANTS
  Checkout,      \* checkouts
  Offer,         \* the catalogue: Offer[id] is [price, currency, categories]
  Currency,      \* the merchant's first currency
  MaxRequests,   \* bound on the calls of the routes, numbered as they arrive
  Body(_),       \* Body(p): what a buyer may send by protocol p
  Document,      \* policy documents the merchant may write
  FirstDocument, \* the one the file begins with
  MaxWrites      \* bound on the merchant's edits

Protocol == {"acp", "ucp"}

TermsAssumption ==
  /\ FirstDocument \in Document /\ {MaxRequests, MaxWrites} \subseteq Nat
  /\ \A p \in Protocol : \A body \in Body(p) : \A i \in DOMAIN body.lines : body.lines[i].quantity > 0

VARIABLES
  row,     \* row[c]: the stored checkout
  file,    \* the policy file: [mtime, doc], doc Torn when it does not parse
  cached,  \* the policy in memory: [mtime, doc]
  call,    \* call[r]: a request, where it is and what it has read
  charges, \* what providers took: the row that was claimed, with what the history knew
  asked,   \* history: asked[c]: the lines of the last request that changed them
  raced    \* history: checkouts that two overlapping updates wrote

Request == 1..MaxRequests

vars == <<row, file, cached, call, charges, asked, raced>>

Torn == [default |-> "torn", rules |-> <<>>, limits |-> <<>>]
NoRow == [status |-> "absent", protocol |-> "none", lines |-> <<>>, currency |-> "", total |-> 0]
NoBody == [lines |-> <<>>, currency |-> ""]
NoCall == [at |-> "idle", kind |-> "none", checkout |-> "none", protocol |-> "none", body |-> NoBody, seen |-> NoRow,
           before |-> 0, old |-> [mtime |-> 0, doc |-> Torn], live |-> {}]
Done == [NoCall EXCEPT !.at = "done"]

Init ==
  /\ row = [c \in Checkout |-> NoRow]
  /\ file = [mtime |-> 1, doc |-> FirstDocument]
  /\ cached = [mtime |-> 0, doc |-> Torn]
  /\ call = [r \in Request |-> NoCall]
  /\ charges = {}
  /\ asked = [c \in Checkout |-> <<>>]
  /\ raced = {}

(***************************************************************************)
(* The terms of a checkout                                                 *)
(***************************************************************************)
Sum(numbers) == FoldLeft(+, 0, numbers)

totalAmount(lines) == Sum([i \in DOMAIN lines |-> lines[i].total])

\* ACP: each line is one of its item, at the price the buyer names.
acpLineItems(lines) ==
  [i \in DOMAIN lines |->
     [id |-> lines[i].id, item |-> lines[i].id, quantity |-> 1, unit |-> lines[i].unit,
      total |-> lines[i].unit]]

\* UCP: a line without an identifier is numbered.
LineName(i) == "line_" \o ToString(i)
ucpLineItems(lines) ==
  [i \in DOMAIN lines |->
     [id |-> IF lines[i].id = "" THEN LineName(i) ELSE lines[i].id,
      item |-> lines[i].item, quantity |-> lines[i].quantity, unit |-> lines[i].unit,
      total |-> lines[i].unit * lines[i].quantity]]

firstPriceAmount(item, otherwise) == IF item \in DOMAIN Offer THEN Offer[item].price ELSE otherwise

\* The catalogue's prices replace those of every stored line.
withUcpCatalogDetails(checkout) ==
  LET lines == [i \in DOMAIN checkout.lines |->
        LET line == checkout.lines[i]
            price == firstPriceAmount(line.item, line.unit)
        IN [line EXCEPT !.unit = price, !.total = price * line.quantity]]
  IN [checkout EXCEPT !.lines = lines, !.total = totalAmount(lines)]

Priced(checkout, lines) == [checkout EXCEPT !.lines = lines, !.total = totalAmount(lines)]

applyCreateRequest(body) ==
  Priced([NoRow EXCEPT !.status = "ready", !.protocol = "acp",
                       !.currency = IF body.currency = "" THEN Currency ELSE body.currency],
         acpLineItems(body.lines))

applyUcpCreate(body) ==
  withUcpCatalogDetails(
    Priced([NoRow EXCEPT !.status = "ready", !.protocol = "ucp", !.currency = Currency],
           ucpLineItems(body.lines)))

\* Mutant of applyUpdateRequest: the lines change and the total stays.
applyUpdateOfLines(current, body) ==
  IF body.lines = <<>> THEN current ELSE [current EXCEPT !.lines = acpLineItems(body.lines)]

applyUpdateRequest(current, body) ==
  IF body.lines = <<>> THEN current ELSE Priced(current, acpLineItems(body.lines))

\* A UCP update must have lines.
applyUcpUpdate(current, body) ==
  withUcpCatalogDetails(Priced(current, ucpLineItems(body.lines)))

(***************************************************************************)
(* What the policy is asked                                                *)
(***************************************************************************)
lineItemOfferIds(lines) ==
  [i \in DOMAIN lines |-> IF lines[i].id = "" THEN lines[i].item ELSE lines[i].id]

\* The first line whose identifier is an offer's.
firstOffer(lines) ==
  LET ids == SelectSeq(lineItemOfferIds(lines), LAMBDA id : id \in DOMAIN Offer)
  IN IF ids = <<>> THEN [price |-> 0, currency |-> Currency, categories |-> {}]
                   ELSE Offer[Head(ids)]

lineItemAmount(line) == line.unit * line.quantity

\* Of a body: what its lines say they cost.  Of a stored checkout: its total.
amountFromSource(source) ==
  IF "total" \in DOMAIN source THEN source.total
  ELSE Sum([i \in DOMAIN source.lines |-> lineItemAmount(source.lines[i])])

currencyFromSource(source) ==
  IF source.currency # "" THEN source.currency ELSE firstOffer(source.lines).currency

purchaseIntentFromSource(source) ==
  [merchant |-> "merchant", currency |-> currencyFromSource(source),
   categories |-> firstOffer(source.lines).categories, amount |-> amountFromSource(source)]

(***************************************************************************)
(* The policy file                                                         *)
(***************************************************************************)
At(r, at) == call' = [call EXCEPT ![r].at = at]
Return(r) == call' = [call EXCEPT ![r] = Done]

\* The merchant saves a document, or half of one.
edit(doc) ==
  /\ file.mtime <= MaxWrites /\ doc # file.doc
  /\ file' = [mtime |-> file.mtime + 1, doc |-> doc]
  /\ call' = [r \in Request |->
               IF call[r].at \in {"idle", "done"} THEN call[r]
               ELSE [call[r] EXCEPT !.live = @ \cup {doc}]]
  /\ UNCHANGED <<row, cached, charges, asked, raced>>

\* A file as old as the policy in memory is not read.
statPolicy(r) ==
  /\ call[r].at = "stat"
  /\ call' = [call EXCEPT ![r].old = cached, ![r].before = file.mtime,
                          ![r].at = IF cached.mtime = file.mtime THEN "decide" ELSE "read"]
  /\ UNCHANGED <<row, file, cached, charges, asked, raced>>

\* A file that changed while it was read is read again; one that does not parse leaves
\* the policy as it was when this call began, and no policy is an error.
readCurrentPolicy(r) ==
  /\ call[r].at = "read"
  /\ \/ /\ file.mtime # call[r].before
        /\ call' = [call EXCEPT ![r].before = file.mtime,
                                ![r].at = IF call[r].old.mtime = file.mtime THEN "decide" ELSE "read"]
        /\ UNCHANGED cached
     \/ /\ file.mtime = call[r].before /\ file.doc # Torn
        /\ cached' = file
        /\ At(r, "decide")
     \/ /\ file.mtime = call[r].before /\ file.doc = Torn
        /\ cached' = call[r].old
        /\ IF call[r].old.doc = Torn THEN Return(r) ELSE At(r, "decide")
  /\ UNCHANGED <<row, file, charges, asked, raced>>

Decision(r) ==
  LET source == IF call[r].kind = "complete" THEN call[r].seen ELSE call[r].body
  IN evaluatePolicy(<<cached.doc>>, purchaseIntentFromSource(source), NoVault)

(***************************************************************************)
(* The routes                                                              *)
(***************************************************************************)
Begin(r, kind, c, protocol, body) ==
  /\ call[r].at = "idle" /\ \A q \in 1..(r - 1) : call[q].at # "idle"
  /\ call' = [call EXCEPT ![r] =
       [NoCall EXCEPT !.at = "stat", !.kind = kind, !.checkout = c,
                      !.protocol = protocol, !.body = body, !.seen = row[c],
                      !.live = {file.doc}]]
  /\ UNCHANGED <<row, file, cached, charges, asked, raced>>

Lined(body) == body.lines # <<>>

createCheckout(r, c, protocol, body) ==
  /\ row[c] = NoRow /\ Lined(body)
  /\ \A q \in Request : call[q].at \in {"idle", "done"} \/ call[q].checkout # c
  /\ Begin(r, "create", c, protocol, body)

\* The buyer's currency is no field of an update.
updateCheckout(r, c, body) ==
  /\ row[c] # NoRow /\ body.currency = "" /\ (row[c].protocol = "ucp" => Lined(body))
  /\ Begin(r, "update", c, row[c].protocol, body)

completeCheckout(r, c) == row[c] # NoRow /\ Begin(r, "complete", c, row[c].protocol, NoBody)

Decided(r, kind) == call[r].at = "decide" /\ call[r].kind = kind

refuse(r) ==
  /\ call[r].at = "decide" /\ Decision(r) # "allowed"
  /\ Return(r)
  /\ UNCHANGED <<row, file, cached, charges, asked, raced>>

create(r) ==
  /\ Decided(r, "create") /\ Decision(r) = "allowed"
  /\ LET c == call[r].checkout
         body == call[r].body
     IN /\ row' = [row EXCEPT ![c] = IF call[r].protocol = "ucp" THEN applyUcpCreate(body)
                                                               ELSE applyCreateRequest(body)]
        /\ asked' = [asked EXCEPT ![c] = body.lines]
  /\ Return(r)
  /\ UNCHANGED <<file, cached, charges, raced>>

\* What is written is what was read, updated: whatever has been stored since is lost.
\* A row that was claimed meanwhile becomes ready again.
update(r) ==
  /\ Decided(r, "update") /\ Decision(r) = "allowed"
  /\ LET c == call[r].checkout
         body == call[r].body
         seen == call[r].seen
     IN /\ row' = [row EXCEPT ![c] = IF seen.protocol = "ucp" THEN applyUcpUpdate(seen, body)
                                                            ELSE applyUpdateRequest(seen, body)]
        /\ asked' = [asked EXCEPT ![c] = IF Lined(body) THEN body.lines ELSE @]
        /\ raced' = IF row[c] = seen THEN raced ELSE raced \cup {c}
  /\ Return(r)
  /\ UNCHANGED <<file, cached, charges>>

proceed(r) ==
  /\ Decided(r, "complete") /\ Decision(r) = "allowed"
  /\ At(r, "claim")
  /\ UNCHANGED <<row, file, cached, charges, asked, raced>>

\* The row is claimed as it is now, not as the policy saw it, and charged.
capture(r) ==
  /\ call[r].at = "claim"
  /\ LET c == call[r].checkout
     IN \/ /\ row[c].status # "ready"
           /\ UNCHANGED <<row, charges>>
        \/ /\ row[c].status = "ready"
           /\ row' = [row EXCEPT ![c].status = "canceled"]
           /\ UNCHANGED charges
        \/ /\ row[c].status = "ready"
           /\ row' = [row EXCEPT ![c].status = "completed"]
           /\ charges' = charges \cup
                {[row |-> row[c], seen |-> call[r].seen, live |-> call[r].live,
                  asked |-> asked[c], raced |-> c \in raced]}
  /\ Return(r)
  /\ UNCHANGED <<file, cached, asked, raced>>

Next ==
  \/ \E doc \in Document \cup {Torn} : edit(doc)
  \/ \E r \in Request :
       \/ \E c \in Checkout, protocol \in Protocol : \E body \in Body(protocol) :
            createCheckout(r, c, protocol, body)
       \/ \E c \in Checkout : \E body \in UNION {Body(p) : p \in Protocol \cap {row[c].protocol}} : updateCheckout(r, c, body)
       \/ \E c \in Checkout : completeCheckout(r, c)
       \/ statPolicy(r) \/ readCurrentPolicy(r) \/ refuse(r)
       \/ create(r) \/ update(r) \/ proceed(r) \/ capture(r)

Spec == Init /\ [][Next]_vars

(***************************************************************************)
(* Properties                                                              *)
(***************************************************************************)
\* The price list of a protocol: UCP sells at the catalogue's prices, ACP at the
\* buyer's; an item of UCP that is not in the catalogue costs nothing.
Costs(protocol, lines) ==
  Sum([i \in DOMAIN lines |->
         IF protocol = "ucp" THEN firstPriceAmount(lines[i].item, 0) * lines[i].quantity ELSE lines[i].unit])

\* A checkout whose updates did not overlap is charged what the lines last accepted
\* for it cost.  Unless an update was stored after the completing call read the
\* checkout, the policy allowed that very amount, by a document that was in the file
\* during the call, or before it when the file did not parse then: neither the
\* amounts of earlier requests, which the policy saw, nor an update in between, nor a
\* policy reloaded by other calls lets another amount through.
ChargeIsAllowed ==
  \A paid \in charges :
    /\ paid.raced \/ paid.row.total = Costs(paid.row.protocol, paid.asked)
    /\ \/ paid.seen # paid.row \/ Torn \in paid.live
       \/ \E doc \in paid.live :
            evaluatePolicy(<<doc>>, [merchant |-> "merchant", currency |-> paid.row.currency,
                                     categories |-> firstOffer(paid.row.lines).categories,
                                     amount |-> paid.row.total], NoVault) = "allowed"
==============================================================================
