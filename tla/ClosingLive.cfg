SPECIFICATION FairSpec
CONSTANTS
  a1 = a1
  a2 = a2
  p1 = p1
  p2 = p2
  Positions = {p1}
  Accounts = {a1}
  Owner <- OneOwner
  Rank <- OneRank
  Lots = 2
  Levels = {1}
  Requests = {c1}
  Editors = {}
  Coverers = {}
  Runs = {}
  TickLoop = TickLoop
  StopLoop = StopLoop
  NoPosition = NoPosition
  PerTick = 1
  Covered = 0
  LastDay = 1
  MaxOps = 2
  MaxCrashes = 1
  MaxFaults = 1
PROPERTIES
  TriggerCloses
  StopOutEnforced
CHECK_DEADLOCK FALSE
