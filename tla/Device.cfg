SPECIFICATION FairSpec
CONSTANTS
  None = None
  w1 = w1
  f1 = f1
  m1 = m1
  m2 = m2
  m3 = m3
  a1 = a1
  a2 = a2
  Request = {m1, a1, a2}
  ClassOf <- MCClass
  OwnerOf <- MCOwner
  RunOf <- MCRun
  MonitorLimit = 1
  AcquisitionLimit = 1
  TxSpace = 2
  MaxGeneration = 3
INVARIANTS
  ReplyToOwnRequest
  Accounted
PROPERTIES
  PriorityRespected
  CancelSparesOthers
  ImplementsLedger
  EventuallySettled
CHECK_DEADLOCK FALSE
