SPECIFICATION FairSpec
CONSTANTS
  None = None
  c1 = c1
  s1 = s1
  s2 = s2
  Source = {s1, s2}
  Client = {c1}
  Selection <- OneOfTwo
  Others = {{s1}}
  Unacked = 2
  JournalCount = 2
  RecoveryLimit = 2
  MaxChanges = 2
  MaxRestarts = 1
  MaxStarts = 1
INVARIANTS
  WatchedIsPublished
  Continuous
PROPERTIES
  ImplementsFeed
  EventuallyCurrent
CHECK_DEADLOCK FALSE
