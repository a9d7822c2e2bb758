SPECIFICATION FairSpec
CONSTANTS
  None = None
  l1 = l1
  l2 = l2
  List = {l1, l2}
  Items = {2}
  MonitorLimit = 1
  MaxStops = 1
  MaxUpdates = 2
PROPERTIES
  PublishesCurrent
  ReadSettles
CHECK_DEADLOCK FALSE
