SPECIFICATION Spec
CONSTANTS
  None = None
  MaxPages = 3
  MaxWorkflows = 3
  MaxTags = 2
  n1 = n1
  n2 = n2
  Names = {n1, n2}
  MainName = n1
  OtherName = n2
  x = x
  Switch = {x}
  Held = {TRUE}
  g1 = g1
  g2 = g2
  Contents = {g1, g2}
  Legacy = g1
  d = d
  Device = {d}
  Addresses = {1, 2}
  MaxMappings = 1
  MaxGroups = 1
  MaxOps = 3
  MaxFaults = 1
  MaxRestarts = 2
INVARIANTS
  Durable
  ReadsSurvive
  ArmedOnRequest
CHECK_DEADLOCK FALSE
