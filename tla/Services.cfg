SPECIFICATION Spec
INVARIANTS
  ChargeIsMandated
  MandateUsedOnce
  RotationIsSeen
  AcceptedAsSigned
  BoxOpens
  CallsAreExact
  PaidAsAgreed
  RepeatsPayOnce
  AnsweredInOrder
  OneEnd
  PolicyIsObeyed
  ChargeIsAllowed
  ChargedAsAgreed
  CaptureIsFinal
  AuditTellsTruth
  ShownAsDeployed
  DecidedAsWritten
PROPERTIES
  OneRefreshPerWindow
CHECK_DEADLOCK FALSE
