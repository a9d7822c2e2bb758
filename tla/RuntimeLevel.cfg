SPECIFICATION FairSpec
CONSTANTS
  None = None
  w1 = w1
  w2 = w2
  r1 = r1
  r2 = r2
  Workflow = {w1}
  Resource = {r1}
  Definitions <- Many
  SourceOf <- Readings
  WriteAtStart = {w1}
  AllowWrites = TRUE
  Ambiguous = TRUE
  Deleting = {}
  MaxReads = 2
  MaxWrites = 3
PROPERTIES LevelReachesDevice
  
CHECK_DEADLOCK FALSE
