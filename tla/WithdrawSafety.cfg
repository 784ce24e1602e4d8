SPECIFICATION Spec
CONSTANTS
  r1 = r1
  r2 = r2
  Requests = {r1, r2}
  Legacy = {r2}
  Amount <- MCAmount
  InitBalance = 3
  InitCredit = 0
  MaxBalance = 3
  MaxDebt = 1
  MaxCredit = 1
  MaxMargin = 1
  MaxFloating = 1
  Charges = {0, 1}
  MaxTimeouts = 1
  MaxSweeps = 1
INVARIANTS
  TypeOK
  ReservedIsSum
  PaidWhenCovered
PROPERTIES
  KeepsPromise
  OpenKeepsHolds
  DebitKeepsHolds
CHECK_DEADLOCK FALSE
