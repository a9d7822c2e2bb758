SPECIFICATION FairSpec
CONSTANTS
  Nothing = Nothing
  MaxMessages = 3
  MaxBytes = 6
  Key = {k1}
  k1 = k1
  Sizes = {2}
  Part = {p1, p2}
  p1 = p1
  p2 = p2
  SnapshotParts <- MCSnapshotParts
  MaxChange = 2
  MaxRevision = 3
  MaxSocket = 2
  MaxWire = 1
  MaxLoads = 1
INVARIANTS
  RevisionsOrdered
  NoSilentLoss
PROPERTIES
  ChangeIsHeard
  
CHECK_DEADLOCK FALSE
