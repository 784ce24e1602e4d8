SPECIFICATION Spec
CONSTANTS
  MaxCovers = 4
  Sweeps = {s1, s2}
  Desks = {}
  Exposures = {0, 2}
  Threshold = 1
  MinClip = 1
  MaxClip = 2
  DeskVolumes = {}
  MaxSessions = 1
  MaxMoves = 1
  MaxAsked = 0
  MaxRefusals = 1
  MaxEvents = 2
  MaxUnheard = 0
PROPERTY
  FiresAlone
CHECK_DEADLOCK FALSE
