SPECIFICATION Spec
CONSTANTS
  c1 = c1
  c2 = c2
  retry = retry
  k1 = k1
  k2 = k2
  p1 = p1
  p2 = p2
  r1 = r1
  r2 = r2
  order = order
  other = other
  Call = {c1, c2, retry}
  Key = {k1, k2}
  Policy = {p1, p2}
  FirstPolicy = p1
  Rule = {r1, r2}
  KeyOf <- MCKeyOf
  EffectOf <- MCEffectOf
  RuleOf <- MCRuleOf
  Amount <- MCAmount
  PurchaseOf <- MCPurchaseOf
  MaxCount <- MCMaxCount
  MaxUsd <- MCMaxUsd
  MaxPurchase <- MCMaxPurchase
  Window = 1
  Ttl = 1
  ApprovalTtl = 1
  BudgetMax = 1
  BudgetWindow = 1
  MaxTime = 1
  MaxCallbacks = 1
  MaxRestarts = 0
INVARIANTS
  UsdCap
  PurchaseCap
