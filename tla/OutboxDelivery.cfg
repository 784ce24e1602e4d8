SPECIFICATION FairSpec
CONSTANTS
  l1 = l1
  m1 = m1
  m2 = m2
  Moves = {m1, m2}
  Logins = {l1}
  Login <- OneLogin
  Kind <- CloseAndAdjust
  Earns = {m1}
  Drains = {d1, d2}
  Take = 2
  MaxAttempts = 2
  MaxTroubles = 2
INVARIANTS
  TypeOK
  PaidOnce
  SentIsPaid

PROPERTIES
  EveryClosePays
  CopyCatchesUp
