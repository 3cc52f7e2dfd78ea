SPECIFICATION Spec
CONSTANTS
  c1 = c1
  c2 = c2
  retry = retry
  k1 = k1
  k2 = k2
  p1 = p1
  p2 = p2
  r1 = r1
  r2 = r2
  order = order
  other = other
  Call = {c1, retry}
  Key = {k1, k2}
  Policy = {p1, p2}
  FirstPolicy = p1
  Rule = {r1}
  KeyOf <- MCKeyOf
  EffectOf <- MCEffectOf
  RuleOf <- MCOneRule
  Amount <- MCAmount
  PurchaseOf <- MCPurchaseOf
  MaxCount <- MCOneADay
  MaxUsd <- MCNoLimit
  MaxPurchase <- MCNoLimit
  Window = 1
  Ttl = 0
  ApprovalTtl = 2
  BudgetMax = 1
  BudgetWindow = 2
  MaxTime = 2
  MaxCallbacks = 2
  MaxRestarts = 1
INVARIANTS
  TypeOK
  CountCap
  RefsExact
  HeldAreKept
  HandedOutIsCommitted
  EnvelopeTrue
  FailedHoldsNothing
PROPERTIES
  DecisionsFinal
