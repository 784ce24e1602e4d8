SPECIFICATION Spec
CONSTANTS
  a = a
  b = b
  t1 = t1
  t2 = t2
  t3 = t3
  t4 = t4
  t5 = t5
  t6 = t6
  TransferIds = {t1}
  Handlers = {h1}
  Trading = {a, b}
  NoTransfer = NoTransfer
  Wallet = Wallet
  IbWallet = IbWallet
  From <- RouteFrom
  To <- RouteTo
  Amount <- RouteAmount
  Deposited = 5
  Withdrawing = 1
  IbCredit = 1
  MaxAsked = 1
  MaxFaults = 0
  MaxCrashes = 0
  MaxSwitches = 2
INVARIANTS
  NothingHalfDone
SYMMETRY HandlerSymmetry
CHECK_DEADLOCK FALSE
