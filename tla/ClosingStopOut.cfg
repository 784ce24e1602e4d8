SPECIFICATION FairSpec
CONSTANTS
  a1 = a1
  a2 = a2
  p1 = p1
  p2 = p2
  Positions = {p1, p2}
  Accounts = {a1, a2}
  Owner <- TwoOwners
  Rank <- TwoRanks
  Lots = 1
  Levels = {1}
  Requests = {}
  Editors = {}
  Coverers = {}
  Runs = {}
  TickLoop = TickLoop
  StopLoop = StopLoop
  NoPosition = NoPosition
  PerTick = 1
  Covered = 0
  LastDay = 1
  MaxOps = 0
  MaxCrashes = 0
  MaxFaults = 0
PROPERTIES
  StopOutEveryTick
CHECK_DEADLOCK FALSE
