SPECIFICATION Spec
CONSTANTS
  Orders = {o1}
  Terms = {v1}
  Tasks = {f1, f2}
  Editors = {}
  MaxCrashes = 1
  MaxDbFaults = 0
  MaxFaults = 1
  MaxTransient = 0
INVARIANT
  OneFillPerOrder
CHECK_DEADLOCK FALSE
