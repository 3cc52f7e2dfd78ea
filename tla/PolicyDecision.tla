---------------------------- MODULE PolicyDecision ----------------------------
(***************************************************************************)
(* How the policy engine decides an intent: the policy file is checked,    *)
(* resolved and linted when it is loaded; a proposal takes the policy of   *)
(* that moment, waits for the central bank's rates when its currency needs *)
(* them, and is evaluated with what came back.  The rates are kept for as  *)
(* long as the process runs.                                               *)
(*                                                                         *)
(* A rule's "when" has a field for every predicate, with a value that      *)
(* stands for its absence: "" (domains), NoBound (amounts), {} (types and  *)
(* the classes of a cart), FALSE (the rest).  Amounts are in minor units   *)
(* and rates are fractions: of the code's doubles the model says nothing.  *)
(***************************************************************************)
EXTENDS Integers, Sequences, FiniteSets, SequencesExt, FiniteSetsExt

CONSTANTS
  Call, Intents(_),         \* what each call proposes: one of a set
  Document, FirstDocument,  \* policy files that the schema allows
  Exponents,                \* the decimals of the currencies that money.ts knows
  Rates(_),                 \* the table of a day: units of a currency for one EUR
  MaxDay, MaxLoads, MaxRestarts

NoBound == -1
Always == [on |-> FALSE, domains |-> "", least |-> NoBound, most |-> NoBound, types |-> {},
           cart |-> {}, ucp |-> FALSE, signed |-> FALSE, tls |-> FALSE]

DecisionAssumption ==
  /\ FirstDocument \in Document
  /\ \A d \in Document : \A n \in DOMAIN d.rules :
       /\ DOMAIN d.rules[n] = {"name", "do", "rail", "when"}
       /\ ~d.rules[n].when.on => d.rules[n].when = Always
  /\ {MaxDay, MaxLoads, MaxRestarts} \subseteq Nat

VARIABLES
  day,      \* of the newest table that the bank publishes
  cache,    \* the day of the table that is kept, or NoTable
  loaded,   \* the current policy: its rules, resolved, and its warnings
  loads, restarts,
  call      \* call[c]: at, the intent, the policy it took, the day of its table

vars == <<day, cache, loaded, loads, restarts, call>>
--------------------------------------------------------------------------------
(***************************************************************************)
(* Loading.                                                                *)
(***************************************************************************)
enforceLoadInvariants(doc) ==
  \A n \in DOMAIN doc.rules :
    /\ doc.rules[n].do = "allow" => doc.rules[n].rail = "virtual_card"
    /\ doc.rules[n].do = "deny" => doc.rules[n].when.cart = {}

\* Every name that a rule gives is that of a list in the file.
Resolvable(doc) ==
  \A n \in DOMAIN doc.rules : doc.rules[n].when.domains \in {""} \cup DOMAIN doc.lists

\* resolveRule(): <<>> for a rule without the predicate.
resolveRule(doc, rule) ==
  [rule EXCEPT !.when.domains = IF @ = "" THEN <<>> ELSE <<doc.lists[@]>>]

setOverlap(a, b) == a # <<>> /\ b # <<>> => Head(a) \cap Head(b) # {}
typeOverlap(a, b) == a # {} /\ b # {} => a \cap b # {}

AtMost(a, bound) == bound = NoBound \/ a <= bound
Least(w) == IF w.least = NoBound THEN 0 ELSE w.least
\* The bounds of a range are taken as lying outside of it.
amountOverlapInside(a, b) ==
  /\ b.most # NoBound => Least(a) < b.most
  /\ a.most # NoBound => Least(b) < a.most

\* Two ranges that touch overlap.
amountOverlap(a, b) == AtMost(Least(a), b.most) /\ AtMost(Least(b), a.most)

overlaps(a, b) ==
  setOverlap(a.domains, b.domains) /\ amountOverlap(a, b) /\ typeOverlap(a.types, b.types)

findOverlappingAllows(rules) ==
  \E i, j \in DOMAIN rules :
    i < j /\ rules[i].do = "allow" /\ rules[j].do = "allow" /\ overlaps(rules[i].when, rules[j].when)

\* The codes of the warnings.
lint(rules) ==
       (IF Last(rules).do # "deny" \/ Last(rules).when.on THEN {"missing_default_deny"} ELSE {})
  \cup (IF \E n \in DOMAIN rules : rules[n].when.signed THEN {"unreachable_predicate"} ELSE {})
  \cup (IF findOverlappingAllows(rules) THEN {"overlapping_allow"} ELSE {})

Resolved(doc) == [n \in DOMAIN doc.rules |-> resolveRule(doc, doc.rules[n])]
Loaded(doc) == [doc |-> doc, rules |-> Resolved(doc), warnings |-> lint(Resolved(doc))]

Init ==
  /\ enforceLoadInvariants(FirstDocument) /\ Resolvable(FirstDocument)
  /\ day = 0 /\ cache = NoBound /\ loads = 0 /\ restarts = 0
  /\ loaded = Loaded(FirstDocument) /\ call = [c \in Call |-> [at |-> "idle"]]

\* A file that is refused leaves the policy that was loaded before it.
loadPolicy(doc) ==
  /\ loads < MaxLoads /\ loads' = loads + 1
  /\ loaded' = IF enforceLoadInvariants(doc) /\ Resolvable(doc) THEN Loaded(doc) ELSE loaded
  /\ UNCHANGED <<day, cache, restarts, call>>
--------------------------------------------------------------------------------
(***************************************************************************)
(* The facts.                                                              *)
(***************************************************************************)
\* normalizeMerchantDomain(): the host itself when a manifest's URL is given,
\* else its registrable domain.
merchantDomain(i) == IF i.manifest = "none" THEN i.site ELSE i.host
tlsOk(i) == i.manifest \in {"none", "https"}

bankersRound(n, m) ==
  LET floor == n \div m
      rest == 2 * (n % m)
  IN  IF rest < m \/ (rest = m /\ floor % 2 = 0) THEN floor ELSE floor + 1

\* What the amount comes to in US cents by the table of a day, as a fraction.
Scaled(i, d) ==
  LET src == Rates(d)[i.currency]
      dst == Rates(d)["USD"]
  IN  <<i.amount * dst[1] * src[2] * 10 ^ Exponents["USD"], dst[2] * src[1] * 10 ^ Exponents[i.currency]>>

Quotable(i, d) == {i.currency, "USD"} \subseteq DOMAIN Rates(d) /\ i.currency \in DOMAIN Exponents
amountUsd(i, d) == IF i.currency = "USD" THEN i.amount ELSE bankersRound(Scaled(i, d)[1], Scaled(i, d)[2])

NormalizedFacts(i, d) ==
  [domain |-> merchantDomain(i), amount |-> amountUsd(i, d), type |-> i.type, cart |-> i.cart,
   tls |-> tlsOk(i)]

(***************************************************************************)
(* The evaluator.                                                          *)
(***************************************************************************)
amountMatches(w, amount) == (w.least # NoBound => amount >= w.least) /\ AtMost(amount, w.most)

predicateMatches(rule, facts) ==
  LET w == rule.when
  IN  /\ w.domains # <<>> => facts.domain \in Head(w.domains)
      /\ amountMatches(w, facts.amount)
      /\ w.types # {} => facts.type \in w.types
      /\ w.cart # {} => w.cart \cap facts.cart # {}
      /\ ~w.ucp /\ ~w.signed  \* no merchant is known to support either
      /\ w.tls => facts.tls

Matches(rules, facts) == SelectSeq(rules, LAMBDA r : predicateMatches(r, facts))
HardDenies(rules, facts) == SelectSeq(Matches(rules, facts), LAMBDA r : r.do = "deny" /\ r.when.on)

NoMatch == [name |-> "<no-match>", do |-> "deny"]

evaluate(rules, facts) ==
  LET matches == Matches(rules, facts)
      ordered == HardDenies(rules, facts) \o SelectSeq(matches, LAMBDA r : r.do # "deny") \o matches
  IN  IF matches = <<>> THEN NoMatch ELSE [name |-> Head(ordered).name, do |-> Head(ordered).do]

(***************************************************************************)
(* A proposal.                                                             *)
(***************************************************************************)
\* proposeIntent() up to its first await that waits for something.
proposeIntent(c) ==
  /\ call[c].at = "idle"
  /\ \E i \in Intents(c) :
       call' = [call EXCEPT ![c] =
         [at |-> IF i.currency = "USD" \/ cache # NoBound THEN "quoted" ELSE "fetching",
          intent |-> i, policy |-> loaded, asOf |-> IF i.currency = "USD" THEN NoBound ELSE cache]]
  /\ UNCHANGED <<day, cache, loaded, loads, restarts>>

\* The bank answers with the table of that moment, on its way from then on.
respond(c) ==
  /\ call[c].at = "fetching"
  /\ call' = [call EXCEPT ![c].at = "reading", ![c].asOf = day]
  /\ UNCHANGED <<day, cache, loaded, loads, restarts>>

\* rates() after response.text(): the call goes on with the table that is kept.
readRates(c) ==
  /\ call[c].at = "reading"
  /\ cache' = call[c].asOf
  /\ call' = [call EXCEPT ![c].at = "quoted"]
  /\ UNCHANGED <<day, loaded, loads, restarts>>

\* No answer, an answer that is not ok, or a body that is no table.
fetchFails(c) ==
  /\ call[c].at \in {"fetching", "reading"}
  /\ call' = [call EXCEPT ![c] = [at |-> "threw"]]
  /\ UNCHANGED <<day, cache, loaded, loads, restarts>>

\* The rest of proposeIntent(), which throws for a currency it cannot convert.
decide(c) ==
  /\ call[c].at = "quoted"
  /\ LET k == call[c]
         facts == NormalizedFacts(k.intent, k.asOf)
     IN  call' = [call EXCEPT ![c] =
           IF k.intent.currency # "USD" /\ ~Quotable(k.intent, k.asOf) THEN [at |-> "threw"]
           ELSE [at |-> "decided", intent |-> k.intent, policy |-> k.policy, asOf |-> k.asOf,
                 facts |-> facts, decision |-> evaluate(k.policy.rules, facts)]]
  /\ UNCHANGED <<day, cache, loaded, loads, restarts>>

restart ==
  /\ restarts < MaxRestarts /\ restarts' = restarts + 1
  /\ cache' = NoBound
  /\ call' = [c \in Call |-> IF call[c].at \in {"fetching", "reading", "quoted"} THEN [at |-> "threw"] ELSE call[c]]
  /\ UNCHANGED <<day, loaded, loads>>

publish == day < MaxDay /\ day' = day + 1 /\ UNCHANGED <<cache, loaded, loads, restarts, call>>

Next ==
  \/ \E d \in Document : loadPolicy(d)
  \/ \E c \in Call :
       proposeIntent(c) \/ respond(c) \/ readRates(c) \/ fetchFails(c) \/ decide(c)
  \/ restart \/ publish
--------------------------------------------------------------------------------
Deciding == {c \in Call : call[c].at = "decided"}

(***************************************************************************)
(* Of a policy without the warning of overlapping allow rules, no intent   *)
(* matches two of them; without the warning of a missing default, every    *)
(* intent is decided by a rule that has a name.                            *)
(***************************************************************************)
WarningsAreTrue ==
  \A c \in Deciding :
    LET k == call[c]
        allows == SelectSeq(Matches(k.policy.rules, k.facts), LAMBDA r : r.do = "allow")
    IN  /\ Len(allows) > 1 => "overlapping_allow" \in k.policy.warnings
        /\ k.decision = NoMatch => "missing_default_deny" \in k.policy.warnings

(***************************************************************************)
(* What the agent says of its cart lifts no denial that a rule asks for:   *)
(* with any other cart the same intent meets the same conditional denials, *)
(* and one that is met denies, whatever other rules match.                 *)
(***************************************************************************)
DenialsStand ==
  \A c \in Deciding :
    LET k == call[c]
        classes == UNION {r.when.cart : r \in ToSet(k.policy.rules)}
        Denied(cart) == HardDenies(k.policy.rules, [k.facts EXCEPT !.cart = cart])
    IN  /\ \A cart \in SUBSET classes : Denied(cart) = Denied(k.facts.cart)
        /\ Denied({}) # <<>> => k.decision.do = "deny"

(***************************************************************************)
(* A converted amount is within half a cent of the exact conversion by the *)
(* table of the day that the quote names, which the bank had published.    *)
(***************************************************************************)
QuotesAreTrue ==
  \A c \in Deciding :
    LET k == call[c]
        exact == Scaled(k.intent, k.asOf)
    IN  k.intent.currency # "USD" =>
          /\ k.asOf \in 0 .. day
          /\ 2 * (k.facts.amount * exact[2] - exact[1]) \in -exact[2] .. exact[2]

\* A decision is what the policy that was loaded says of the intent: its
\* warnings, its denials and the amount hold good (evaluate, lint, mulRate).
DecidedAsWritten == WarningsAreTrue /\ DenialsStand /\ QuotesAreTrue
==============================================================================
