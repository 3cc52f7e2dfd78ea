------------------------------ MODULE MCServices ------------------------------
(***************************************************************************)
(* The parts of the system that have a module and no run of their own, on  *)
(* small instances.  One of them runs, and which is never changed: "part"  *)
(* names it, and the other variables are that part's.                      *)
(***************************************************************************)
EXTENDS Integers, Sequences, FiniteSets, TLC

VARIABLES part, v1, v2, v3, v4, v5, v6, v7, v8, v9, v10, v11, v12, v13

vars == <<part, v1, v2, v3, v4, v5, v6, v7, v8, v9, v10, v11, v12, v13>>

(***************************************************************************)
(* Two completions of two checkouts, one of them locked for AP2.           *)
(***************************************************************************)
Good(c) == [checkout |-> c, form |-> "good", handler |-> "supported",
            pays |-> "ap2_payment_mandate", nonce |-> c]

FirstChoices ==
  {Good("a"), [Good("a") EXCEPT !.pays = "token"], [Good("a") EXCEPT !.handler = "unsupported"]}
    \cup {[Good("a") EXCEPT !.form = f] : f \in {"absent", "foreign", "tampered"}}
SecondChoices ==
  {Good("a"), [Good("a") EXCEPT !.nonce = "b"], Good("b")}
    \cup {[Good("b") EXCEPT !.pays = "token", !.form = f] :
           f \in {"good", "tampered", "absent", "foreign"}}
MCChoices(a) == IF a = "x" THEN FirstChoices ELSE SecondChoices

MCCheckout == {"a", "b"}
MCLocked == {"a"}
MCTerms == {1, 2}
MCAttempt == {"x", "y"}

Mandates == INSTANCE MandateCheckout WITH
  Checkout <- MCCheckout, Locked <- MCLocked, Terms <- MCTerms, FirstTerms <- 1,
  Attempt <- MCAttempt, Choices <- MCChoices,
  NonceTtl <- 2, MandateTtl <- 2, PaymentTtl <- 1, MaxTime <- 2, MaxUpdates <- 1,
  now <- v1, row <- v2, nonce <- v3, shown <- v4, request <- v5, pc <- v6, answer <- v7,
  update <- v8, updates <- v9, charge <- v10, accepted <- v11

(***************************************************************************)
(* Two requests over one cached profile whose first key is retired.        *)
(***************************************************************************)
Signatures == INSTANCE HttpSignatures

Signed(k) == Signatures!signUcpRequest("POST", FALSE, TRUE, k)

FirstWires == {Signed("k1")}
SecondWires ==
       {Signed("k2"), [Signed("k1") EXCEPT !.syntax = "absent"],
        [Signed("k1") EXCEPT !.altered = {"@path"}],
        [Signed("k1") EXCEPT !.altered = {"idempotency-key"}, !.covers = @ \ {"idempotency-key"}]}
MCWires(r) == IF r = "r1" THEN FirstWires ELSE SecondWires

MCRequest == {"r1", "r2"}
MCKid == {"k1", "k2"}
MCFirstKids == {"k1"}
MCMaxAge == {0, 5}

Profile == INSTANCE ProfileCache WITH
  Request <- MCRequest, Kid <- MCKid, FirstKids <- MCFirstKids, Wires <- MCWires,
  HmsEnabled <- TRUE, BearerEnabled <- TRUE,
  MinTtl <- 1, MaxTtl <- 2, MaxAge <- MCMaxAge, FetchMax <- 1, MaxTime <- 4,
  clock <- v1, published <- v2, since <- v3, entry <- v4, blocked <- v5, wire <- v6, step <-
  v7, started <- v8, got <- v9, verdict <- v10, forced <- v11

(***************************************************************************)
(* Two handles on one vault file; and one handle, whose calls take turns.  *)
(***************************************************************************)
MCProcess == {"p", "q"}
MCOneProcess == {"p"}
MCOneCard == {"c1"}
MCOneAddress == {"a1"}
MCOneAlgorithm == {"ES256"}
MCCard == {"c1", "c2"}
MCAddress == {"a1", "a2"}
MCAlgorithm == {"ES256", "ES384"}
MCOneSecret == {"pw"}
MCSecrets == {"pw", "new"}

Vault == INSTANCE VaultBox WITH
  Process <- MCProcess, Card <- MCOneCard, FirstCard <- "c1", Address <- MCOneAddress, FirstAddress <- "a1",
  Algorithm <- MCOneAlgorithm, Password <- MCOneSecret, MaxFresh <- 2, MaxMishaps <- 1, MaxEdits <- 1,
  box <- v1, keychain <- v2, policy <- v3, recovery <- v4, handle <- v5, call <- v6, todo <-
  v7, record <- v8, fresh <- v9, mishaps <- v10, edits <- v11, tainted <- v12, book <- v13

Alone == INSTANCE VaultBox WITH
  Process <- MCOneProcess, Card <- MCCard, FirstCard <- "c1", Address <- MCAddress, FirstAddress <- "a1",
  Algorithm <- MCAlgorithm, Password <- MCSecrets, MaxFresh <- 2, MaxMishaps <- 1, MaxEdits <- 2,
  box <- v1, keychain <- v2, policy <- v3, recovery <- v4, handle <- v5, call <- v6, todo <-
  v7, record <- v8, fresh <- v9, mishaps <- v10, edits <- v11, tainted <- v12, book <- v13

(***************************************************************************)
(* Two calls of the paying fetch for one resource that is repriced; the    *)
(* second may be the first's paid request once more.                       *)
(***************************************************************************)
MCCall == {"x", "y"}
MCResource(c) == "report"
Asks(amount, listed, signable) == [amount |-> amount, listed |-> listed, signable |-> signable]
MCRequirement ==
  {Asks(1, TRUE, TRUE), Asks(2, TRUE, TRUE), Asks(3, TRUE, TRUE), Asks(1, FALSE, TRUE),
   Asks(1, TRUE, FALSE)}
MCFirstAsked == Asks(1, TRUE, TRUE)
MCMaxAmount(c) == 2
MCAllows(q) == IF q.amount = 2 THEN "approval_required" ELSE "allowed"

Fetch == INSTANCE PaidFetch WITH
  Call <- MCCall, Resource <- MCResource, Requirement <- MCRequirement,
  FirstAsked <- MCFirstAsked, MaxAmount <- MCMaxAmount, Allows <- MCAllows,
  Durable <- FALSE, MaxReprices <- 2, MaxRestarts <- 1, MaxTime <- 2,
  asked <- v1, reprices <- v2, challenge <- v3, pc <- v4, route <- v5, outcome <- v6, store
  <- v7, settled <- v8, served <- v9, restarts <- v10, tainted <- v11, clock <- v12, signed <- v13

(***************************************************************************)
(* Three connections of the policy engine's socket, one of another user.   *)
(***************************************************************************)
MCConn == {"c1", "c2", "c3"}
Sends(shape, of, method) == [shape |-> shape, token |-> of, method |-> method]
FirstScript == <<Sends("ok", 1, "served"), Sends("no_json", 0, "unknown"), Sends("ok", 2, "served")>>
OtherScript == <<Sends("ok", 1, "served"), Sends("ok", 1, "unserved")>>
MCScript(c) == IF c = "c1" THEN FirstScript ELSE OtherScript
MCPeer(c) == CASE c = "c1" -> "unreadable" [] c = "c2" -> "same" [] OTHER -> "other"

Ipc == INSTANCE PolicyIpc WITH
  Conn <- MCConn, Script <- MCScript, Peer <- MCPeer, MaxRotations <- 1,
  listening <- v1, token <- v2, private <- v3, link <- v4, arrived <- v5, turn <- v6,
  running <- v7, written <- v8

(***************************************************************************)
(* Two approval prompts, a lifetime that ends, a policy that changes.      *)
(***************************************************************************)
MCPrompt == {"p1", "p2"}

Webhook == INSTANCE ApprovalWebhook WITH
  Prompt <- MCPrompt, Ttl <- 1, MaxTime <- 2, MaxPolicies <- 2,
  time <- v1, current <- v2, post <- v3, prompt <- v4, status <- v5, told <- v6

(***************************************************************************)
(* A project's wallet and the user's; a rule that is written by hand.      *)
(***************************************************************************)
Rules == INSTANCE PolicyRules

Rule(name, effect, merchants) ==
  [name |-> name, effect |-> effect, merchants |-> merchants, currencies |-> {}, categories |-> {},
   least |-> Rules!NoBound, most |-> Rules!NoBound, above |-> Rules!NoBound, aboveIn |-> "USD"]

MCHandle == {"p", "g"}
MCProject(h) == h = "p"
MCFirstDoc ==
  [default |-> "deny",
   rules |-> <<[Rule("steelyard.wallet.allowed_merchants", "can", {"m1", "m2"}) EXCEPT !.above = 4]>>,
   limits |-> (<<"daily", "USD">> :> 5)]
MCHandRule == Rule("by_hand", "cannot", {"m2"})
MCChange ==
  {[kind |-> "limits", limits |-> (<<"daily", "USD">> :> 2)],
   [kind |-> "limits", limits |-> (<<"daily", "USD">> :> 0 @@ <<"weekly", "USD">> :> 3)],
   [kind |-> "merchants", merchants |-> {"m2"}],
   [kind |-> "approval", above |-> 1, aboveIn |-> "USD"]}
MCIntent == [merchant : {"m1", "m2"}, currency : {"USD"}, categories : {{}}, amount : {1, 2, 4}]
MCSpent == [k \in {"daily", "weekly"} \X {"USD"} |-> 1]

Setters == INSTANCE WalletPolicy WITH
  Handle <- MCHandle, Project <- MCProject, Change <- MCChange, FirstDoc <- MCFirstDoc,
  HandRule <- MCHandRule, Intent <- MCIntent, Spent <- MCSpent,
  MaxChanges <- 2, MaxEdits <- 2, MaxCrashes <- 1,
  file <- v1, loaded <- v2, at <- v3, draft <- v4, got <- v5, changes <- v6, edits <- v7,
  crashes <- v8, kept <- v9, took <- v10

(***************************************************************************)
(* A checkout whose policy forbids what costs 5, then allows what costs 3. *)
(***************************************************************************)
MCOffer ==
  [pen |-> [price |-> 2, currency |-> "USD", categories |-> {"office"}],
   ink |-> [price |-> 3, currency |-> "EUR", categories |-> {"home"}]]
Acp(id, unit) == [id |-> id, item |-> "", quantity |-> 1, unit |-> unit]
Ucp(id, item, quantity) == [id |-> id, item |-> item, quantity |-> quantity, unit |-> 0]
Sent(asksFor, currency) == [lines |-> asksFor, currency |-> currency]
UcpBody == {Sent(<<Ucp("", "gift", 1), Ucp("", "ink", 2)>>, ""), Sent(<<Ucp("ink", "pen", 1)>>, "")}
AcpBody == {Sent(<<Acp("ink", 5), Acp("pen", 0)>>, ""), Sent(<<Acp("pen", 4)>>, "EUR"), Sent(<<>>, "")}
MCBody(protocol) == IF protocol = "ucp" THEN UcpBody ELSE AcpBody
MCDocument1 ==
  [default |-> "allow", limits |-> <<>>,
   rules |-> <<[Rule("dear", "cannot", {}) EXCEPT !.least = 5, !.currencies = {"USD"}]>>]
MCDocument2 ==
  [default |-> "deny", limits |-> <<>>,
   rules |-> <<[Rule("office", "can", {}) EXCEPT !.categories = {"office"}, !.currencies = {"USD"}],
               [Rule("cheap", "can", {}) EXCEPT !.most = 3, !.currencies = {"USD"}]>>]
MCDocument == {MCDocument1, MCDocument2}

Terms == INSTANCE CheckoutTerms WITH
  Checkout <- {"c"}, Offer <- MCOffer, Currency <- "USD", MaxRequests <- 3, Body <- MCBody,
  Document <- MCDocument, FirstDocument <- MCDocument1, MaxWrites <- 1,
  row <- v1, file <- v2, cached <- v3, call <- v4, charges <- v5, asked <- v6, raced <- v7

(***************************************************************************)
(* Two purchases with one key, at a site that changes between its connects *)
(***************************************************************************)
Plain ==
  [mcp |-> "absent", acp |-> "absent", feed |-> "absent", ucp |-> "checkout", ap2 |-> TRUE,
   version |-> <<0, 1>>, handlers |-> {"issuer"}, key |-> "k1", hms |-> TRUE,
   responseSigningPolicy |-> "high-value-only", price |-> 2]
MCSite ==
  {Plain, [Plain EXCEPT !.key = "k2", !.price = 3],
   [Plain EXCEPT !.acp = "checkout", !.ap2 = FALSE, !.hms = FALSE, !.handlers = {"issuer", "delegate"}],
   [Plain EXCEPT !.feed = "catalogue", !.responseSigningPolicy = "all"],
   [Plain EXCEPT !.mcp = "served"], [Plain EXCEPT !.mcp = "served", !.version = <<0, 2>>], [Plain EXCEPT !.acp = "unreachable"]}
MCKey(a) == "key"
MCCredentials == {{"hms", "bearer"}, {"bearer"}, {}}
MCNoIntent(a) == "no_key"
MCOne(a) == 1

Client == INSTANCE BuyerClient WITH
  Attempt <- MCAttempt, GivenKey <- MCKey, IntentId <- MCNoIntent, Amount <- MCOne,
  Site <- MCSite, FirstSite <- Plain, Ap2 <- TRUE, Issuer <- "shared_payment_token",
  Preferred <- "hms", Credentials <- MCCredentials,
  DelegateUrl <- FALSE, MaxTime <- 1, MaxChanges <- 1, MaxLost <- 1,
  clock <- v1, site <- v2, changes <- v3, connect <- v4, handle <- v5, call <- v6, lost <- v7,
  kept <- v8, row <- v9, charges <- v10, tokens <- v11, agreed <- v12

(***************************************************************************)
(* Overlapping captures of two sessions, with tokens that are the first's. *)
(***************************************************************************)
MCSessionTerms == [merchant |-> "shop", transaction |-> "tx", amount |-> 2, currency |-> "USD"]
MCTermsOf(s) == MCSessionTerms
Scoped(transaction) ==
  [merchant |-> "shop", session |-> "s1", transaction |-> transaction, amount |-> 2,
   currency |-> "USD", handler |-> "h", instrument |-> "delegated_payment_token"]
Pays(kind, exp, mandated) ==
  [token |-> [kind |-> kind, signed |-> TRUE, exp |-> exp,
              scope |-> Scoped(IF mandated THEN "tx" ELSE "s1")],
   mandated |-> mandated, holds |-> TRUE, mandateExp |-> 1, handler |-> "h", instrument |-> "delegated_payment_token"]
MCPayments ==
  [s1 |-> {Pays("dpt", 1, FALSE), Pays("dpt", 2, TRUE), Pays("spt", 1, FALSE)},
   s2 |-> {Pays("spt", 1, FALSE)}]
MCPayment(s) == MCPayments[s]

Provider == INSTANCE PaymentProvider WITH
  Call <- MCCall, Session <- {"s1", "s2"}, Terms <- MCTermsOf, Payment <- MCPayment,
  AcceptSpts <- TRUE, Outcome <- {"expired_card", "processing", "requires_action"}, MaxTime <- 1, MaxRestarts <- 1, MaxAnswers <- 2,
  provider <- v1, clock <- v2, restarts <- v3, call <- v4, captures <- v5, asked <- v6,
  stripe <- v7, spent <- v8, issued <- v9, answers <- v10

(***************************************************************************)
(* Four writes in two days.                                                *)
(***************************************************************************)
Audit == INSTANCE AuditChain WITH
  MaxDay <- 1, MaxWrites <- 4, MaxRestarts <- 2, MaxFaults <- 2,
  day <- v1, file <- v2, lastHash <- v3, writes <- v4, acked <- v5, restarts <- v6,
  faults <- v7, torn <- v8, edited <- v9

(***************************************************************************)
(* A catalogue that is deployed again, with other prices and surfaces.     *)
(***************************************************************************)
Fixed(kind, amount) == [kind |-> kind, amount |-> amount, currency |-> "EUR"]
Pen == [id |-> "pen", text |-> {"blue"}, attributes |-> {"steel"}, categories |-> {"office"},
        availability |-> "in_stock", pricing |-> <<[kind |-> "contact_sales"], Fixed("recurring", 2), Fixed("one_time", 5)>>]
Ink == [id |-> "ink", text |-> {"blue"}, attributes |-> {}, categories |-> {"steel"},
        availability |-> "preorder", pricing |-> <<[kind |-> "usage_based"]>>]
Cap == [id |-> "cap", text |-> {}, attributes |-> {}, categories |-> {},
        availability |-> "unknown", pricing |-> <<Fixed("one_time", 1)>>]
Page(type, id, url) == [type |-> type, id |-> id, url |-> url]
MCPolicies == <<Page("terms", <<>>, TRUE), Page("other", <<"terms", 1>>, FALSE), Page("terms", <<>>, TRUE)>>
MCManifest1 == [offers |-> <<Pen, Ink, Cap>>, policies |-> MCPolicies, home |-> "USD",
                mounts |-> {"mcp", "acp", "ucp", "commerce"}]
MCManifest2 == [offers |-> <<[Pen EXCEPT !.pricing = <<Fixed("one_time", 3)>>], Cap>>,
                policies |-> <<Page("terms", <<"a", 1>>, TRUE), Page("other", <<"a", 1>>, TRUE)>>,
                home |-> "USD", mounts |-> {"mcp", "acp", "discovery", "ucp", "commerce"}]
MCManifest == {MCManifest1, MCManifest2, [MCManifest2 EXCEPT !.mounts = {"acp", "discovery"}]}
MCTerm == {"", "blue", "steel"}
MCId == {"pen", "ink"}
MCHost == {"shop", "localhost"}
MCLimit == {-1, 0, 1, 2}

Shop == INSTANCE CommerceRead WITH
  Manifest <- MCManifest, FirstManifest <- MCManifest1, Term <- MCTerm, Id <- MCId,
  Host <- MCHost, Limit <- MCLimit, MaxBuilds <- 3,
  manifest <- v1, build <- v2, up <- v3, session <- v4, peersHost <- v5, client <- v6

(***************************************************************************)
(* A policy file with touching allow rules, and one that denies by cart.   *)
(***************************************************************************)
Written == [on |-> FALSE, domains |-> "", least |-> -1, most |-> -1, types |-> {}, cart |-> {}, ucp |-> FALSE,
            signed |-> FALSE, tls |-> FALSE]
When == [Written EXCEPT !.on = TRUE]
Does(name, what, when) ==
  [name |-> name, do |-> what, rail |-> IF what = "allow" THEN "virtual_card" ELSE "", when |-> when]
MCLists == [tier1 |-> {"shop.com"}, tier2 |-> {"pay.shop.com", "shop.com"}, blocked_domains |-> {"bad.com"}]
Blocked == Does("blocked", "deny", [When EXCEPT !.domains = "blocked_domains"])
Small == Does("small", "allow", [When EXCEPT !.domains = "tier1", !.most = 3])
Large == Does("large", "allow", [When EXCEPT !.domains = "tier2", !.least = 3])
Larger == [Large EXCEPT !.when.least = 4, !.when.types = {"one_time"}]
Asking == Does("asking", "require_approval", [When EXCEPT !.cart = {"gift"}, !.tls = TRUE])
Default == Does("default", "deny", Written)
File(rules) == [lists |-> MCLists, rules |-> rules]
MCFirstFile == File(<<Blocked, Asking, Small, Larger, Default>>)
MCFiles ==
  {MCFirstFile, File(<<Small, Large, Blocked>>),
   File(<<Small, Does("gifts", "deny", [When EXCEPT !.cart = {"gift"}]), Default>>),
   File(<<Does("signed", "allow", [When EXCEPT !.signed = TRUE]), Asking>>),
   File(<<Does("lost", "allow", [When EXCEPT !.domains = "tier3"])>>)}
Intends(host, manifest, amount, currency, cart) ==
  [host |-> host, site |-> IF host = "bad.com" THEN host ELSE "shop.com", manifest |-> manifest,
   amount |-> amount, currency |-> currency, type |-> "one_time", cart |-> cart]
MCIntents(c) ==
  IF c = "x" THEN {Intends("pay.shop.com", "none", 5, "EUR", {}), Intends("shop.com", "http", 1, "JPY", {"gift"})}
  ELSE {Intends("shop.com", "https", 3, "USD", {"gift"}), Intends("pay.shop.com", "https", 4, "USD", {}),
        Intends("bad.com", "none", 3, "EUR", {"gift"}), Intends("shop.com", "none", 3, "XAU", {}),
        Intends("pay.shop.com", "http", 3, "EUR", {})}
MCExponents == [USD |-> 2, EUR |-> 2, JPY |-> 0, XAU |-> 2]
MCRates(d) ==
  (CASE d = 0 -> [EUR |-> <<1, 1>>, USD |-> <<1, 2>>, JPY |-> <<100, 1>>]
     [] OTHER -> [EUR |-> <<1, 1>>, USD |-> <<4, 3>>, JPY |-> <<40, 1>>])

Decisions == INSTANCE PolicyDecision WITH
  Call <- MCCall, Intents <- MCIntents, Document <- MCFiles, FirstDocument <- MCFirstFile,
  Exponents <- MCExponents, Rates <- MCRates, MaxDay <- 1, MaxLoads <- 1, MaxRestarts <- 1,
  day <- v1, cache <- v2, loaded <- v3, loads <- v4, restarts <- v5, call <- v6

(***************************************************************************)
(* Three signed MCP exchanges: one opens a session, one calls in it (as    *)
(* signed, altered, or not to be read), one closes it or opens another.    *)
(***************************************************************************)
MCExchange == {"e1", "e2", "e3"}
MCSession == {"s1", "s2"}
Rpc(wire, session, rpc) == [wire |-> wire, session |-> session, rpc |-> rpc]
MCRpcs(e) ==
  CASE e = "e1" -> {Rpc(Signed("k1"), "none", "initialize")}
    [] e = "e2" -> {Rpc(w, "s1", "call") :
                     w \in {Signed("k1"), [Signed("k1") EXCEPT !.altered = {"body"}],
                            [Signed("k1") EXCEPT !.altered = {"idempotency-key"}, !.covers = @ \ {"idempotency-key"}],
                            [Signed("k1") EXCEPT !.syntax = "absent"], Signed("k2")}}
                     \cup {Rpc(Signed("k1"), "none", "garbled")}
    [] OTHER -> {Rpc(Signatures!signUcpRequest("DELETE", FALSE, FALSE, "k1"), "s1", "call"),
                 Rpc(Signed("k1"), "s2", "initialize")}
MCAlterations == {{}, {"@status"}, {"body"}, {"body", "content-digest"}}

Mcp == INSTANCE McpExchange WITH
  Exchange <- MCExchange, Session <- MCSession, Requests <- MCRpcs, Kids <- MCFirstKids,
  Alterations <- MCAlterations, HmsEnabled <- TRUE, SigningEnabled <- TRUE,
  alive <- v1, open <- v2, asked <- v3, step <- v4, buffer <- v5, sent <- v6, got <- v7

\* The same endpoint that neither asks for nor makes signatures.
PlainMcp == INSTANCE McpExchange WITH
  Exchange <- MCExchange, Session <- MCSession, Requests <- MCRpcs, Kids <- MCFirstKids,
  Alterations <- {{}}, HmsEnabled <- FALSE, SigningEnabled <- FALSE,
  alive <- v1, open <- v2, asked <- v3, step <- v4, buffer <- v5, sent <- v6, got <- v7

(***************************************************************************)
(* Two cards, the events of which come twice and late, and three calls.     *)
(***************************************************************************)
Tells(id, card, created, type, approved) ==
  [id |-> id, card |-> card, created |-> created, type |-> type, approved |-> approved]
MCEvent ==
  {Tells(1, "ic1", 2, "issuing_authorization.created", TRUE),
   Tells(2, "ic1", 1, "issuing_authorization.updated", FALSE),
   Tells(3, "ic2", 1, "issuing_transaction.created", TRUE),
   Tells(4, "none", 1, "issuing_card.updated", TRUE)}
MCCredential == {"cred1", "cred2"}
MCCardOf == [c \in MCCredential |-> IF c = "cred1" THEN "ic1" ELSE "ic2"]
MCAck == 1 .. 3
MCAcks ==
  [a \in MCAck |-> [credential |-> <<"cred1", "cred1", "cred2">>[a], event |-> <<1, 1, 3>>[a]]]

Cards == INSTANCE CardSettlements WITH
  Event <- MCEvent, Credential <- MCCredential, CardOf <- MCCardOf, Ack <- MCAck, Acks <- MCAcks,
  MaxDeliveries <- 3, MaxRestarts <- 1,
  bus <- v1, credential <- v2, log <- v3, call <- v4, due <- v5, deliveries <- v6, restarts <- v7

(***************************************************************************)
(* Three issuers, two of one type, and two cards; four calls that pay.     *)
(***************************************************************************)
MCIssuer == {"x1", "x2", "spt"}
MCTypeOf == [i \in MCIssuer |-> IF i = "spt" THEN "shared_payment_token" ELSE "x402"]
MCExact == [c \in MCCard |-> IF c = "c2" THEN {"m1"} ELSE {}]
MCGlob == [c \in MCCard |-> IF c = "c1" THEN {"m1"} ELSE {}]
MCPayer == {"fetch", "named", "any", "card"}
MCWants ==
  [p \in MCPayer |->
     [call |-> IF p \in {"fetch", "named"} THEN "mandate" ELSE "purchase",
      id |-> CASE p = "named" -> "x402" [] p = "card" -> "c2" [] OTHER -> "any",
      type |-> "x402", merchant |-> IF p = "any" THEN "m1" ELSE "m2"]]

Instruments == INSTANCE WalletInstruments WITH
  Issuer <- MCIssuer, TypeOf <- MCTypeOf, Card <- MCCard, FirstCard <- "c1", Exact <- MCExact,
  Glob <- MCGlob, Payer <- MCPayer, Wants <- MCWants, MaxEdits <- 2,
  native <- v1, cards <- v2, todo <- v3, edits <- v4, step <- v5, picked <- v6

ASSUME MCAssumption ==
  /\ Mandates!MandateAssumption /\ Profile!ProfileAssumption /\ Vault!VaultAssumption /\ Alone!VaultAssumption
  /\ Fetch!PaidFetchAssumption /\ Ipc!IpcAssumption /\ Webhook!WebhookAssumption
  /\ Setters!WalletPolicyAssumption /\ Terms!TermsAssumption
  /\ Client!ClientAssumption /\ Provider!ProviderAssumption /\ Audit!AuditAssumption /\ Cards!SettlementAssumption
  /\ Instruments!InstrumentsAssumption
  /\ Shop!ReadAssumption /\ Decisions!DecisionAssumption
  /\ Mcp!McpAssumption /\ PlainMcp!McpAssumption

\* The variables that a part of fewer than 13 leaves alone.
free7 == <<v7, v8, v9, v10, v11, v12, v13>>
free8 == <<v8, v9, v10, v11, v12, v13>>
free9 == <<v9, v10, v11, v12, v13>>
free10 == <<v10, v11, v12, v13>>
free11 == <<v11, v12, v13>>
free12 == <<v12, v13>>

Free12 == v12 = 0 /\ v13 = 0
Free11 == v11 = 0 /\ Free12
Free10 == v10 = 0 /\ Free11
Free9 == v9 = 0 /\ Free10
Free8 == v8 = 0 /\ Free9
Free7 == v7 = 0 /\ Free8

Init ==
  \/ part = "mandates" /\ Mandates!Init /\ Free12
  \/ part = "profile" /\ Profile!Init /\ Free12
  \/ part = "vault" /\ Vault!Init
  \/ part = "alone" /\ Alone!Init
  \/ part = "fetches" /\ Fetch!Init
  \/ part = "sockets" /\ Ipc!Init /\ Free9
  \/ part = "prompts" /\ Webhook!Init /\ Free7
  \/ part = "setters" /\ Setters!Init /\ Free11
  \/ part = "terms" /\ Terms!Init /\ Free8
  \/ part = "client" /\ Client!Init /\ v13 = 0
  \/ part = "provider" /\ Provider!Init /\ Free11
  \/ part = "audit" /\ Audit!Init /\ Free10
  \/ part = "cards" /\ Cards!Init /\ Free8
  \/ part = "instruments" /\ Instruments!Init /\ Free7
  \/ part = "shop" /\ Shop!Init /\ Free7
  \/ part = "decisions" /\ Decisions!Init /\ Free7
  \/ part = "mcp" /\ Mcp!Init /\ Free8
  \/ part = "plain_mcp" /\ PlainMcp!Init /\ Free8

Next ==
  \/ part = "mandates" /\ Mandates!Next /\ UNCHANGED <<part, free12>>
  \/ part = "profile" /\ Profile!Next /\ UNCHANGED <<part, free12>>
  \/ part = "vault" /\ Vault!Next /\ UNCHANGED part
  \/ part = "alone" /\ Alone!Next /\ UNCHANGED part
  \/ part = "fetches" /\ Fetch!Next /\ UNCHANGED part
  \/ part = "sockets" /\ Ipc!Next /\ UNCHANGED <<part, free9>>
  \/ part = "prompts" /\ Webhook!Next /\ UNCHANGED <<part, free7>>
  \/ part = "setters" /\ Setters!Next /\ UNCHANGED <<part, free11>>
  \/ part = "terms" /\ Terms!Next /\ UNCHANGED <<part, free8>>
  \/ part = "client" /\ Client!Next /\ UNCHANGED <<part, v13>>
  \/ part = "provider" /\ Provider!Next /\ UNCHANGED <<part, free11>>
  \/ part = "audit" /\ Audit!Next /\ UNCHANGED <<part, free10>>
  \/ part = "cards" /\ Cards!Next /\ UNCHANGED <<part, free8>>
  \/ part = "instruments" /\ Instruments!Next /\ UNCHANGED <<part, free7>>
  \/ part = "shop" /\ Shop!Next /\ UNCHANGED <<part, free7>>
  \/ part = "decisions" /\ Decisions!Next /\ UNCHANGED <<part, free7>>
  \/ part = "mcp" /\ Mcp!Next /\ UNCHANGED <<part, free8>>
  \/ part = "plain_mcp" /\ PlainMcp!Next /\ UNCHANGED <<part, free8>>

Spec == Init /\ [][Next]_vars

\* See MandateCheckout: what a locked checkout is charged, its mandate says.
ChargeIsMandated == part = "mandates" => Mandates!ChargeIsMandated
\* See MandateCheckout: a mandate's nonce is spent by one completion.
MandateUsedOnce == part = "mandates" => Mandates!MandateUsedOnce
\* See ProfileCache: retired and new keys are noticed in time.
RotationIsSeen == part = "profile" => Profile!RotationIsSeen
\* See ProfileCache and McpExchange: what is accepted is what was signed.
AcceptedAsSigned ==
  /\ part = "profile" => Profile!AcceptedAsSigned
  /\ part = "mcp" => Mcp!ExchangedAsSigned
  /\ part = "plain_mcp" => PlainMcp!ExchangedAsSigned
\* See ProfileCache: one forced refresh per lifetime of an entry.
OneRefreshPerWindow == [][part = "profile" => Profile!ForcesOnce]_vars
\* See VaultBox: a vault can be opened.
BoxOpens == (part = "vault" => Vault!BoxOpens) /\ (part = "alone" => Alone!BoxOpens)
\* See VaultBox: calls alone leave the record they should.
CallsAreExact ==
  (part = "vault" => Vault!CallsAreExact) /\ (part = "alone" => Alone!CallsAreExact)
\* See PaidFetch: what is settled was allowed, what is served was paid; and
\* WalletInstruments: a payment has the instrument it chose.
PaidAsAgreed ==
  (part = "fetches" => Fetch!PaidAsAgreed) /\ (part = "instruments" => Instruments!PaysAsChosen)
\* See PaidFetch: a repeated request is paid once.
RepeatsPayOnce == part = "fetches" => Fetch!RepeatsPayOnce
\* See PolicyIpc: answers follow their lines.
AnsweredInOrder == part = "sockets" => Ipc!AnsweredInOrder
\* See ApprovalWebhook: a prompt has one end.
OneEnd == part = "prompts" => Webhook!OneEnd
\* See WalletPolicy: a rule that is written is obeyed.
PolicyIsObeyed == part = "setters" => Setters!PolicyIsObeyed
\* See CheckoutTerms: a charge is what was asked for and allowed.
ChargeIsAllowed == part = "terms" => Terms!ChargeIsAllowed
\* See BuyerClient: what was charged is what the wallet agreed to.
ChargedAsAgreed == part = "client" => Client!ChargedAsAgreed
\* See PaymentProvider: a repeated capture is the one it repeats.
CaptureIsFinal == part = "provider" => Provider!CaptureIsFinal
\* See AuditChain: what verifyChain() reports is so.
AuditTellsTruth ==
  /\ part = "audit" => Audit!AuditTellsTruth
  /\ part = "cards" => Cards!SettledAsDelivered
\* See CommerceRead: readers are shown what is deployed.
ShownAsDeployed == part = "shop" => Shop!ShownAsDeployed
\* See PolicyDecision: a decision is what the loaded policy says.
DecidedAsWritten == part = "decisions" => Decisions!DecidedAsWritten
==============================================================================
