SPECIFICATION FairAutosaveSpec
CONSTANTS
  Nil = Nil
  w1 = w1
  w2 = w2
  Workflow = {w1, w2}
  First = w1
  Stored <- TwoWorkflows
  Parameters = {0, 1}
  UserModes = {"LIVE_LOCKED", "LIVE_ARMED"}
  Kinds <- EveryKind
  Slots = {1}
  MaxSwitches = 1
  MaxModes = 1
  MaxLoads = 1
  MaxTimeouts = 1
  MaxOthers = 1
  MaxEvents = 3

  
PROPERTIES
  SavesInOrder
  EverySaveEnds
CHECK_DEADLOCK FALSE
