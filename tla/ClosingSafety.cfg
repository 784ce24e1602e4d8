SPECIFICATION Spec
CONSTANTS
  a1 = a1
  a2 = a2
  p1 = p1
  p2 = p2
  Positions = {p1}
  Accounts = {a1}
  Owner <- OneOwner
  Rank <- OneRank
  Lots = 2
  Levels = {1}
  Requests = {c1}
  Editors = {e1, e2}
  Coverers = {v1}
  Runs = {r1, r2}
  TickLoop = TickLoop
  StopLoop = StopLoop
  NoPosition = NoPosition
  PerTick = 1
  Covered = 1
  LastDay = 2
  MaxOps = 2
  MaxCrashes = 1
  MaxFaults = 1
INVARIANTS
  TypeOK
  ClosedForItsVolume
  BookFollowsRow
  ChargedOncePerDay
  SwapIsRealised
  CoveredWithinVolume
PROPERTIES
  FiresOnItsLevel
  ClosesAsClaimed
SYMMETRY RunSymmetry
CHECK_DEADLOCK FALSE
