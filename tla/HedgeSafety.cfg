SPECIFICATION FairSpec
CONSTANTS
  MaxCovers = 4
  Sweeps = {s1}
  Desks = {d1, d2}
  Exposures = {0, 2}
  Threshold = 1
  MinClip = 1
  MaxClip = 2
  DeskVolumes = {3}
  MaxSessions = 2
  MaxMoves = 2
  MaxAsked = 2
  MaxRefusals = 1
  MaxEvents = 3
  MaxUnheard = 1
INVARIANTS
  TypeOK
  SentOncePerOffer
  FilledIsReal
  NoUnbookedPosition
PROPERTY
  Converges
CHECK_DEADLOCK FALSE
