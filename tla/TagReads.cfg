SPECIFICATION FairSpec
CONSTANTS
  None = None
  s1 = s1
  s2 = s2
  d1 = d1
  b1 = b1
  b2 = b2
  Source = {s1, s2}
  Device = {d1}
  Block = {b1, b2}
  ReadLimit = 2
  MaxChanges = 3
  MaxReads = 1
INVARIANTS
  FreshIsCurrent
  OneScanPerDevice
PROPERTIES
  EventuallyRead
CHECK_DEADLOCK FALSE
