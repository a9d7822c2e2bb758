SPECIFICATION FairEditorSpec
CONSTANTS
  None = None
  p1 = p1
  p2 = p2
  p3 = p3
  n1 = n1
  n2 = n2
  n3 = n3
  v1 = v1
  v2 = v2
  PageIds = {p1, p2, p3}
  ElementIds = {1, 2}
  Names = {n1, n2}
  Views = {v1, v2}
  Stored <- TwoPages
  Widths = {1}
  CanvasWidth = 2
  SearchLimit = 3
  HistoryLimit = 1
  MaxEdits = 2
  MaxRequests = 2
  MaxTimeouts = 1
  MaxOthers = 1
  MaxEvents = 4
INVARIANTS
  HistoryIsTrail
  SavedMeansSaved
PROPERTIES
  NoLostUpdate
  RequestsSettle
CHECK_DEADLOCK FALSE
