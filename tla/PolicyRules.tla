------------------------------ MODULE PolicyRules ------------------------------
(***************************************************************************)
(* The YAML policies of wallets and merchants (packages/core/src/          *)
(* policy-yaml): what a list of policy documents decides on a purchase.    *)
(*                                                                         *)
(* A document is [default, rules, limits].  A rule is [effect, merchants,  *)
(* currencies, categories, least, most, above, aboveIn]; an empty set, or  *)
(* NoBound, is a condition it does not make.  Limits map a window and a    *)
(* currency to a cap.  Merchants are normalized domains, a pattern is the  *)
(* set of the domains it matches.                                          *)
(***************************************************************************)
EXTENDS Integers, FiniteSetsExt, SequencesExt

NoBound == -1

\* evaluatePolicy was given no vault to ask for what is spent.
NoVault == <<>>

Admits(condition, found) == condition = {} \/ condition \cap found # {}

matchesRule(rule, intent) ==
  /\ Admits(rule.merchants, {intent.merchant})
  /\ Admits(rule.currencies, {intent.currency})
  /\ Admits(rule.categories, intent.categories)
  /\ rule.least = NoBound \/ intent.amount >= rule.least
  /\ rule.most = NoBound \/ intent.amount <= rule.most

Rules(doc, effect) == SelectSeq(doc.rules, LAMBDA r : r.effect = effect)

\* The strictest of the documents' caps.
mergeLimits(docs) ==
  [k \in UNION {DOMAIN docs[i].limits : i \in DOMAIN docs} |->
     Min({docs[i].limits[k] : i \in {j \in DOMAIN docs : k \in DOMAIN docs[j].limits}})]

hasLimits(limits) == \E k \in DOMAIN limits : limits[k] > 0

Exceeds(limits, intent, spent) ==
  \E k \in DOMAIN limits : k[2] = intent.currency /\ spent[k] + intent.amount > limits[k]

allowedDecision(rule, intent) ==
  IF /\ rule.above # NoBound /\ rule.aboveIn = intent.currency
     /\ intent.amount > rule.above
  THEN "approval_required" ELSE "allowed"

\* Every cannot rule, then the can rules of the first document and of the others in
\* turn, then the first document's default.
byRules(docs, intent) ==
  LET cans == FlattenSeq([i \in DOMAIN docs |-> Rules(docs[i], "can")])
      matching == SelectSeq(cans, LAMBDA r : matchesRule(r, intent))
  IN IF \E i \in DOMAIN docs : \E r \in ToSet(Rules(docs[i], "cannot")) : matchesRule(r, intent)
     THEN "denied"
     ELSE IF matching # <<>> THEN allowedDecision(Head(matching), intent)
     ELSE IF docs[1].default = "allow" THEN "allowed" ELSE "denied"

\* Mutant of evaluatePolicy: the first document's can rules come before every cannot.
evaluateCanFirst(docs, intent, spent) ==
  IF \E r \in ToSet(Rules(docs[1], "can")) : matchesRule(r, intent)
  THEN "allowed" ELSE byRules(docs, intent)

evaluatePolicy(docs, intent, spent) ==
  LET limits == mergeLimits(docs)
  IN IF hasLimits(limits) /\ (spent = NoVault \/ Exceeds(limits, intent, spent))
     THEN "denied"
     ELSE byRules(docs, intent)
==============================================================================
