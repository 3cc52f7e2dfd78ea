SPECIFICATION Spec
CONSTANTS
  pay = pay
  payRetry = payRetry
  payOther = payOther
  cancel = cancel
  update = update
  open = open
  s1 = s1
  k1 = k1
  k2 = k2
  k3 = k3
  NoRequest = NoRequest
  Request = {pay, payRetry, update, open}
  Session = {s1}
  Key = {k1, k2, k3}
  Amount = {1, 2}
  OpOf <- MCOpOf
  SessionOf <- MCSessionOf
  KeyOf <- MCKeyOf
  AmountOf <- MCAmountOf
  WellFormed <- MCWellFormed
  Open = {}
  FirstAmount = 1
  Durable = FALSE
  Fault = {"policy", "psp", "expiry"}
  MaxCrashes = 1
INVARIANTS
  AskedOnce
  OneFlight
PROPERTIES
  EveryRequestEnds
CHECK_DEADLOCK FALSE
