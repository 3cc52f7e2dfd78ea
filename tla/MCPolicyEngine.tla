--------------------------- MODULE MCPolicyEngine ---------------------------
(***************************************************************************)
(* Instances of PolicyEngine for TLC: c1 and c2 belong to one purchase,    *)
(* retry is another purchase sent with c1's idempotency key.  Policy p1    *)
(* decides by rule r1, the reloaded p2 by rule r2.  The limits are chosen  *)
(* so that each of the three is, for some pair of intents, the only one    *)
(* that refuses the second: per_day_usd for c2 and retry under r1,         *)
(* per_day_count for two intents under r2, per_purchase_usd for c1 and c2. *)
(***************************************************************************)
EXTENDS PolicyEngine

CONSTANTS c1, c2, retry, k1, k2, p1, p2, r1, r2, order, other

MCKeyOf == [c \in Call |-> IF c = c2 THEN k2 ELSE k1]

MCEffectOf == [p \in Policy |-> [c \in Call |->
  CASE c = c1    -> IF p = p1 THEN "require_approval" ELSE "allow"
    [] c = c2    -> IF p = p1 THEN "allow" ELSE "deny"
    [] c = retry -> IF p = p1 THEN "allow" ELSE "require_approval"]]

MCRuleOf == [p \in Policy |-> [c \in Call |-> IF p = p1 THEN r1 ELSE r2]]

MCAmount == [c \in Call |-> CASE c = c1 -> 1 [] c = c2 -> 3 [] c = retry -> 2]

MCPurchaseOf == [c \in Call |-> IF c = retry THEN other ELSE order]

MCMaxCount == [p \in Policy |-> [r \in Rule |-> IF r = r1 THEN 3 ELSE 1]]

MCMaxUsd == [p \in Policy |-> [r \in Rule |-> IF r = r1 THEN 4 ELSE 9]]

MCMaxPurchase == [p \in Policy |-> [r \in Rule |-> 3]]

\* One rule for both policies, one intent a day: the tightest count.
MCOneRule == [p \in Policy |-> [c \in Call |-> r1]]

MCOneADay == [p \in Policy |-> [r \in Rule |-> 1]]

MCNoLimit == [p \in Policy |-> [r \in Rule |-> 9]]
=============================================================================
