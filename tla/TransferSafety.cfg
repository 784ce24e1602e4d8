SPECIFICATION Spec
CONSTANTS
  a = a
  b = b
  t1 = t1
  t2 = t2
  t3 = t3
  t4 = t4
  t5 = t5
  t6 = t6
  TransferIds = {t1, t2, t3, t4, t5, t6}
  Handlers = {h1, h2}
  Trading = {a, b}
  NoTransfer = NoTransfer
  Wallet = Wallet
  IbWallet = IbWallet
  From <- RouteFrom
  To <- RouteTo
  Amount <- RouteAmount
  Deposited = 5
  Withdrawing = 1
  IbCredit = 1
  MaxAsked = 2
  MaxFaults = 1
  MaxCrashes = 1
  MaxSwitches = 1
INVARIANTS
  TypeOK
  IbNotOverspent
PROPERTIES
  KeepsPromise
  PendingStaysCovered
SYMMETRY HandlerSymmetry
CHECK_DEADLOCK FALSE
