SPECIFICATION FairSpec
CONSTANTS
  Orders = {o1}
  Terms = {v1}
  Tasks = {f1, f2}
  Editors = {}
  MaxCrashes = 2
  MaxDbFaults = 0
  MaxFaults = 4
  MaxTransient = 2
PROPERTIES
  TriggeredOrderEnds
  DueOrderEnds
CHECK_DEADLOCK FALSE
