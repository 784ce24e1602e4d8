SPECIFICATION Spec
CONSTANTS
  Orders = {o1}
  Terms = {v1, v2}
  Tasks = {f1, f2}
  Editors = {e1, e2}
  MaxCrashes = 1
  MaxDbFaults = 1
  MaxFaults = 2
  MaxTransient = 1
SYMMETRY Symmetry
INVARIANTS
  TypeOK
  OneFillPerRecordedOrder
  NoOrderForgotten
  ArmingAgrees
  BookHasTheTerms
  FilledAsOrdered
PROPERTIES
  NeverReopened
  SettledForGood
CHECK_DEADLOCK FALSE
