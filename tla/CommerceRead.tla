----------------------------- MODULE CommerceRead -----------------------------
(***************************************************************************)
(* What a site shows of its manifest and what its readers make of it: the  *)
(* read surfaces that serveCommerce mounts (MCP, the ACP feed, the UCP     *)
(* catalogue, the HTTP API and commerce.json), and the handle that connect *)
(* gives a buyer.  The site is deployed again, restarted, unreachable or   *)
(* behind a gateway that answers for it, between any two requests.         *)
(*                                                                         *)
(* Readers share nothing but the site, so one of them is followed: a       *)
(* buyer, a pager of the HTTP API, a visitor who keeps commerce.json, or a *)
(* shopper who asks for what it has the ids of.                            *)
(* A text is the set of the terms it contains.                             *)
(***************************************************************************)
EXTENDS Integers, Sequences, FiniteSets, SequencesExt, FiniteSetsExt

CONSTANTS
  Manifest,       \* what may be deployed: offers, policies, home currency, mounts
  FirstManifest,
  Term,           \* what may be searched for; "" is the empty query
  Id,             \* what may be looked up
  Host,           \* the hosts that requests name
  Limit,          \* a pager's limits; NoLimit leaves the parameter out
  MaxBuilds

NoLimit == -1

ReadAssumption ==
  /\ FirstManifest \in Manifest /\ MaxBuilds \in Nat \ {0}
  /\ \A m \in Manifest :
       Cardinality({o.id : o \in ToSet(m.offers)}) = Len(m.offers)

VARIABLES
  manifest,   \* the deployed one
  build,      \* how often the server was started
  up,         \* "up", "refused", or "gateway" (a proxy answers 502)
  session,    \* the MCP server knows the buyer's session
  peersHost,  \* the host in the peers' URLs; "" before the first request for them
  client

vars == <<manifest, build, up, session, peersHost, client>>
--------------------------------------------------------------------------------
\* Prices and offers as the surfaces show them.

hasAmount(price) == price.kind \in {"one_time", "recurring"}

\* formatPrice(), firstPrice(): the first price that has an amount.
formatPrice(o) ==
  LET priced == SelectSeq(o.pricing, hasAmount) IN
  IF priced = <<>> THEN <<>>
  ELSE <<[amount |-> priced[1].amount, currency |-> priced[1].currency]>>

firstPrice(m, o) ==
  IF formatPrice(o) = <<>> THEN <<[amount |-> 0, currency |-> m.home]>> ELSE formatPrice(o)

Product(o, price) ==
  [id |-> o.id, text |-> o.text, categories |-> o.categories, status |-> o.availability,
   price |-> price]

\* The policies that have a page, as every product's seller links them.
mapSeller(m) == LET linked(p) == p.url IN SelectSeq(m.policies, linked)

buildAcpFeed(m) ==
  [products |-> [n \in DOMAIN m.offers |-> Product(m.offers[n], formatPrice(m.offers[n]))],
   links |-> IF m.offers = <<>> THEN <<>> ELSE mapSeller(m)]

offerToProduct(m, o) == Product(o, firstPrice(m, o))

\* acpProductToOffer(), ucpProductToOffer(): what recurs is shown as paid once.
productToOffer(product) ==
  [id |-> product.id, text |-> product.text, attributes |-> {}, categories |-> product.categories,
   availability |-> product.status,
   pricing |-> [n \in DOMAIN product.price |->
                  [kind |-> "one_time", amount |-> product.price[n].amount,
                   currency |-> product.price[n].currency]]]

\* The texts that a query is looked for in; MCP and HTTP look into attributes too.
offerMatchesQuery(o, term) == term = "" \/ term \in {o.id} \cup o.text \cup o.categories
offerOrAttributesMatch(o, term) == offerMatchesQuery(o, term) \/ term \in o.attributes

searchCatalog(m, term) ==
  LET matches(o) == offerMatchesQuery(o, term)
      product(o) == offerToProduct(m, o)
      found == SelectSeq(m.offers, matches)
  IN [n \in DOMAIN found |-> product(found[n])]

lookupCatalog(m, ids) ==
  LET asked(product) == product.id \in ids IN SelectSeq(searchCatalog(m, ""), asked)

getProduct(m, id) == lookupCatalog(m, {id})

listOffers(m, term) ==
  LET matches(o) == offerOrAttributesMatch(o, term) IN SelectSeq(m.offers, matches)

\* filterOffers() of the HTTP API.
filteredProducts(m, term) == listOffers(m, term)

\* filterOffers() of the buyer, over offers that lost their attributes.
filterOffers(offers, term) ==
  LET matches(o) == offerMatchesQuery(o, term) IN SelectSeq(offers, matches)
--------------------------------------------------------------------------------
\* commerceManifest(): the document behind commerce.json and the HTTP API.

explicitIds(m) == {p.id : p \in {q \in ToSet(m.policies) : q.id # <<>>}}

\* DuplicateExplicitPolicyId.
duplicated(m) ==
  \E i, j \in DOMAIN m.policies :
    i < j /\ m.policies[i].id = m.policies[j].id /\ m.policies[i].id # <<>>

\* normalizePolicies(): a policy without an id is named by its type, with the
\* first suffix that is free.
normalizePolicies(m) ==
  LET free(type, taken) ==
        Min({n \in 1 .. Len(m.policies) + Cardinality(explicitIds(m)) + 1 : <<type, n>> \notin taken})
      ids[n \in 0 .. Len(m.policies)] ==
        IF n = 0 THEN <<>>
        ELSE LET p == m.policies[n]
                 taken == explicitIds(m) \cup ToSet(ids[n - 1])
             IN Append(ids[n - 1], IF p.id # <<>> THEN p.id ELSE <<p.type, free(p.type, taken)>>)
  IN ids[Len(m.policies)]

\* The content hash covers the peers' URLs and the time the document was made.
document(m, host, b) == [of |-> m, ids |-> normalizePolicies(m), host |-> host, build |-> b]

\* resolveOrigin(): the peers are those of the host of the first request after
\* a start, whoever asks later.
hostFor(host) == IF peersHost = "" THEN host ELSE peersHost

policyTypeFromLink(type) ==
  IF type \in {"shipping", "returns", "refunds", "terms", "privacy"} THEN type ELSE "other"

\* A buyer finds the policies of an ACP site at the seller of its first product.
acpPoliciesFromFeed(feed) == [n \in DOMAIN feed.links |-> policyTypeFromLink(feed.links[n].type)]
--------------------------------------------------------------------------------
NoAnswer == [what |-> "none"]
NoHandle == [protocol |-> "none", found |-> "none", held |-> FirstManifest]

Init ==
  /\ manifest = FirstManifest /\ build = 1 /\ up = "up" /\ session = FALSE /\ peersHost = ""
  /\ client \in
       {[role |-> "buyer", handle |-> NoHandle, answer |-> NoAnswer],
        [role |-> "pager", term |-> "", offset |-> 0, got |-> <<>>, pages |-> {}, total |-> -1],
        [role |-> "visitor", doc |-> <<>>, last |-> 0],
        [role |-> "shopper", what |-> "none", ids |-> {}, got |-> <<>>, of |-> FirstManifest]}

Mounts(surface) == up = "up" /\ surface \in manifest.mounts

\* detectMcp, detectAcp (discovery of the origin before a feed at the URL),
\* detectUcp.  MCP is looked for at the URL, the others at the origin.
detected(url) ==
  CASE url = "mcp" /\ Mounts("mcp") -> <<"mcp", "session">>
    [] ~(url = "mcp" /\ Mounts("mcp")) /\ Mounts("discovery") -> <<"acp", "discovery">>
    [] ~(url = "mcp" /\ Mounts("mcp")) /\ ~Mounts("discovery") /\ url = "feed" /\ Mounts("acp")
         -> <<"acp", "feed">>
    [] OTHER -> IF Mounts("ucp") THEN <<"ucp", "profile">> ELSE <<"none", "none">>

connect(url) ==
  /\ client.role = "buyer"
  /\ LET is == detected(url)
         handle == [protocol |-> is[1], found |-> is[2], held |-> manifest]
     IN /\ client' = [client EXCEPT !.handle = IF is[1] = "none" THEN NoHandle ELSE handle,
                                    !.answer = NoAnswer]
        /\ session' = (is[1] = "mcp")
  /\ UNCHANGED <<manifest, build, up, peersHost>>

\* fetchJson(): what a request for a surface that is there, or is not, becomes.
fetchJson(surface) ==
  CASE up = "refused" -> "network_error"
    [] up = "gateway" -> "protocol_mismatch"
    [] OTHER -> IF Mounts(surface) THEN "ok" ELSE "not_found"

\* Mutant of loadFeed: a discovered feed is fetched once.
loadFeedOnce(handle) ==
  IF fetchJson("acp") = "ok" \/ handle.found = "feed" THEN <<buildAcpFeed(handle.held)>> ELSE <<>>

\* loadFeed(): the feed that connect found is never fetched again.
loadFeed(handle) ==
  IF handle.found = "feed" THEN <<buildAcpFeed(handle.held)>>
  ELSE IF fetchJson("acp") = "ok" THEN <<buildAcpFeed(manifest)>> ELSE <<>>

Failed(code) == [kind |-> code, offers |-> <<>>, policies |-> <<>>]
Shown(offers) == [Failed("offers") EXCEPT !.offers = offers]
Policies(types) == [Failed("policies") EXCEPT !.policies = types]
Offers(products) == Shown([n \in DOMAIN products |-> productToOffer(products[n])])

\* findOffer() and its like.
One(offers, id) ==
  LET is(o) == o.id = id
      found == SelectSeq(offers, is)
  IN IF found = <<>> THEN Failed("not_found") ELSE Shown(found)

\* createMcpServer(): the two tools and the two resources.
callTool(what, arg) ==
  CASE what = "search" -> Shown(listOffers(manifest, arg))
    [] what = "offer" -> One(manifest.offers, arg)
    [] what = "manifest" -> Shown(manifest.offers)
    [] what = "policies" -> Policies([n \in DOMAIN manifest.policies |-> manifest.policies[n].type])

\* An unknown session, a path that is not mounted and an outage make the call
\* throw; for a resource that is told as not_found.
toolAnswers == session /\ Mounts("mcp")

mcpRead(what, arg) ==
  IF toolAnswers THEN callTool(what, arg)
  ELSE Failed(IF what \in {"manifest", "policies"} THEN "not_found" ELSE "internal_error")

acpRead(handle, what, arg) ==
  LET feed == loadFeed(handle) IN
  IF feed = <<>> THEN Failed("internal_error")
  ELSE LET offers == Offers(feed[1].products) IN
       CASE what = "search" -> Shown(filterOffers(offers.offers, arg))
         [] what = "offer" -> One(offers.offers, arg)
         [] what = "manifest" -> offers
         [] what = "policies" -> Policies(acpPoliciesFromFeed(feed[1]))

\* handleUcp(): the products of /api/catalog/search and /product; a product
\* that is not there is a 404.
handleUcp(what, arg) ==
  IF what = "offer" THEN One(getProduct(manifest, arg), arg)
  ELSE Shown(searchCatalog(manifest, arg))

\* getOffer() tells every failure but of the network as not_found; policies are
\* not asked for.
ucpRead(what, arg) ==
  LET status == fetchJson("ucp")
      reply == handleUcp(what, arg)
  IN CASE what = "policies" -> Policies(<<>>)
       [] what # "policies" /\ status = "ok" /\ reply.kind = "offers" -> Offers(reply.offers)
       [] what # "policies" /\ status = "ok" /\ reply.kind # "offers" -> Failed("not_found")
       [] what # "policies" /\ status = "network_error" -> Failed(status)
       [] OTHER -> Failed(IF what = "offer" THEN "not_found" ELSE status)

\* search(), getOffer() = lookup(), getManifest(), getPolicies() of a handle.  "of" is what the
\* site showed at that moment, or the feed that the handle holds.
read(what, arg) ==
  LET handle == client.handle
      answer == CASE handle.protocol = "mcp" -> mcpRead(what, arg)
                  [] handle.protocol = "acp" -> acpRead(handle, what, arg)
                  [] handle.protocol = "ucp" -> ucpRead(what, arg)
      reached == \/ handle.found = "feed"
                 \/ up = "up" /\ (handle.protocol = "mcp" => toolAnswers)
                         /\ handle.protocol \in manifest.mounts
  IN /\ client.role = "buyer" /\ handle.protocol # "none"
     /\ client' = [client EXCEPT !.answer =
                     [what |-> what, arg |-> arg, kind |-> answer.kind, offers |-> answer.offers,
                      policies |-> answer.policies,
                      of |-> IF handle.found = "feed" THEN handle.held ELSE manifest,
                      reached |-> reached, over |-> handle.protocol]]
     /\ UNCHANGED <<manifest, build, up, session, peersHost>>

\* The manifest cannot be made into a document: the listener throws, and with
\* it goes the process that every surface shares.
commerceThrows(host) ==
  /\ Mounts("commerce") /\ peersHost = "" /\ duplicated(manifest)
  /\ up' = "refused" /\ session' = FALSE
  /\ UNCHANGED <<manifest, build, peersHost, client>>

Serves(host) == Mounts("commerce") /\ (peersHost # "" \/ ~duplicated(manifest)) /\ peersHost' = hostFor(host)

\* boundedInt(): a limit that is left out is the length of the whole catalogue.
boundedLimit(limit) == IF limit = NoLimit THEN Len(manifest.offers) ELSE limit

\* products of the HTTP API, and a pager that goes on where the page ended.
page(host, limit) ==
  LET found == filteredProducts(manifest, client.term)
      slice == SubSeq(found, client.offset + 1,
                      Min({Len(found), client.offset + boundedLimit(limit)}))
  IN /\ client.role = "pager" /\ Serves(host) /\ client.offset # client.total
     /\ client' = [client EXCEPT !.got = @ \o slice, !.offset = @ + Len(slice),
                                 !.pages = @ \cup {build}, !.total = Len(found)]
     /\ UNCHANGED <<manifest, build, up, session>>

Looked(what, ids, got) ==
  client' = [client EXCEPT !.what = what, !.ids = ids, !.got = got, !.of = manifest]

\* Products by their ids: of the UCP catalogue several, of the HTTP API one.
lookup(ids) ==
  /\ client.role = "shopper" /\ Mounts("ucp")
  /\ LET found == lookupCatalog(manifest, ids)
     IN Looked("products", ids, [n \in DOMAIN found |-> found[n].id])
  /\ UNCHANGED <<manifest, build, up, session, peersHost>>

productById(host, id) ==
  /\ client.role = "shopper" /\ Serves(host)
  /\ LET found == One(manifest.offers, id).offers
     IN Looked("products", {id}, [n \in DOMAIN found |-> found[n].id])
  /\ UNCHANGED <<manifest, build, up, session>>

\* A policy by the id that the document gives it.
policyById(host, id) ==
  /\ client.role = "shopper" /\ Serves(host)
  /\ LET is(policy) == policy = id
     IN Looked("policy", {id}, SelectSeq(normalizePolicies(manifest), is))
  /\ UNCHANGED <<manifest, build, up, session>>

startPaging(term) ==
  /\ client.role = "pager"
  /\ client' = [client EXCEPT !.term = term, !.offset = 0, !.got = <<>>, !.pages = {}, !.total = -1]
  /\ UNCHANGED <<manifest, build, up, session, peersHost>>

\* commerce.json for a visitor who says which document it has: 304 or all of it.
getCommerceManifest(host) ==
  LET doc == document(manifest, hostFor(host), build) IN
  /\ client.role = "visitor" /\ Serves(host)
  /\ client' = IF client.doc = <<doc>> THEN [client EXCEPT !.last = 304]
               ELSE [client EXCEPT !.doc = <<doc>>, !.last = 200]
  /\ UNCHANGED <<manifest, build, up, session>>

\* Somebody else asks first.
othersVisit(host) ==
  /\ Serves(host) /\ UNCHANGED <<manifest, build, up, session, client>>

\* A new process, with this manifest or the next: no session and no peers.
start(m) ==
  /\ build < MaxBuilds /\ build' = build + 1
  /\ manifest' = m /\ up' = "up" /\ session' = FALSE /\ peersHost' = ""
  /\ UNCHANGED client

stop ==
  /\ up = "up" /\ up' \in {"refused", "gateway"} /\ session' = FALSE
  /\ UNCHANGED <<manifest, build, peersHost, client>>

Next ==
  \/ \E url \in {"root", "mcp", "feed"} : connect(url)
  \/ \E term \in Term : read("search", term)
  \/ \E id \in Id : read("offer", id)
  \/ read("manifest", "")
  \/ \E host \in Host :
       commerceThrows(host) \/ getCommerceManifest(host) \/ othersVisit(host)
         \/ \E limit \in Limit : page(host, limit)
         \/ \E id \in Id : productById(host, id)
         \/ \E n \in DOMAIN manifest.policies : policyById(host, <<manifest.policies[n].type, n>>)
  \/ \E ids \in SUBSET Id : lookup(ids)
  \/ read("policies", "")
  \/ \E term \in Term : startPaging(term)
  \/ \E m \in Manifest : start(m)
  \/ stop

Spec == Init /\ [][Next]_vars
--------------------------------------------------------------------------------
\* MCP shows an offer as it is.  ACP and UCP keep its id, texts, categories,
\* availability and first fixed price: attributes are lost, what recurs is shown as
\* paid once, and one without a fixed price has none over ACP and costs 0 over UCP.
Agrees(shown, o, over) ==
  /\ over = "mcp" => shown = o
  /\ over # "mcp" =>
       /\ shown.id = o.id /\ shown.text = o.text
       /\ shown.categories = o.categories /\ shown.availability = o.availability
       /\ \/ formatPrice(shown) = formatPrice(o)
          \/ over = "ucp" /\ formatPrice(o) = <<>> /\ formatPrice(shown)[1].amount = 0

\* The offers that a search finds: only over MCP by their attributes too.
Finds(o, term, over) ==
  IF over = "mcp" THEN offerOrAttributesMatch(o, term) ELSE offerMatchesQuery(o, term)

AnswerIsTrue(a) ==
  LET asked(o) == CASE a.what = "offer" -> o.id = a.arg
                    [] a.what = "search" -> Finds(o, a.arg, a.over)
                    [] a.what = "manifest" -> TRUE
                    [] a.what = "policies" -> FALSE
      due == SelectSeq(a.of.offers, asked)
  IN /\ a.kind = "offers" => /\ Len(a.offers) = Len(due)
                              /\ \A n \in DOMAIN due : Agrees(a.offers[n], due[n], a.over)
     /\ a.kind # "offers" => a.offers = <<>>
     /\ (a.kind = "not_found" /\ a.reached) => due = <<>>
     /\ \A n \in DOMAIN a.policies : \E p \in ToSet(a.of.policies) : a.policies[n] = policyTypeFromLink(p.type)

\* A reader is shown the deployed manifest: a buyer's answer has the deployed offers
\* that were asked for, all of them, in order and no others, as far as the handle's
\* protocol shows them (Agrees, Finds: the three protocols do not give identical
\* results), and says not_found of a site it reached only when it is so.  A handle
\* that connect found at a feed is judged by that feed, which is never fetched again.
\* A pager whose pages come from one process has every match once; a visitor told 304
\* has the current document, whose policies have different ids and keep the explicit
\* ones; a shopper gets what has the ids it asked for, once, and nothing else.
ShownAsDeployed ==
  CASE client.role = "buyer" -> client.answer # NoAnswer => AnswerIsTrue(client.answer)
    [] client.role = "pager" ->
         (client.pages = {build} /\ client.offset = client.total) => client.got = filteredProducts(manifest, client.term)
    [] client.role = "visitor" ->
         client.doc # <<>> =>
           LET doc == client.doc[1] IN
           /\ (client.last = 304 /\ doc.build = build /\ up = "up") => doc = document(manifest, peersHost, build)
           /\ \A i, j \in DOMAIN doc.ids : doc.ids[i] = doc.ids[j] => i = j
           /\ \A i \in DOMAIN doc.ids : doc.of.policies[i].id \in {<<>>, doc.ids[i]}
    [] client.role = "shopper" ->
         client.what # "none" =>
           LET have == IF client.what = "policy" THEN ToSet(normalizePolicies(client.of))
                       ELSE {o.id : o \in ToSet(client.of.offers)}
           IN ToSet(client.got) = client.ids \cap have /\ IsInjective(client.got)
==============================================================================
