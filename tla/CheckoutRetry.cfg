SPECIFICATION Spec
CONSTANTS
  pay = pay
  payRetry = payRetry
  payOther = payOther
  cancel = cancel
  update = update
  open = open
  s1 = s1
  k1 = k1
  k2 = k2
  k3 = k3
  NoRequest = NoRequest
  Request = {pay, payRetry}
  Session = {s1}
  Key = {k1, k2, k3}
  Amount = {1, 2}
  OpOf <- MCOpOf
  SessionOf <- MCSessionOf
  KeyOf <- MCKeyOf
  AmountOf <- MCAmountOf
  WellFormed <- MCWellFormed
  Open = {s1}
  FirstAmount = 1
  Durable = TRUE
  Fault = {"psp"}
  MaxCrashes = 0
INVARIANTS
  RetryGetsReceipt
CHECK_DEADLOCK FALSE
