CONSTANTS
  Unset = Unset
  Values = Values
  Nodes <- Adverse
  Edges <- Wires
  MaxPasses = 7
  MaxTime = 2
SPECIFICATION EngineSpec
INVARIANTS
  FollowsSources
  QualitySpreads
  OncePerScan
  TimersHold
CHECK_DEADLOCK FALSE
