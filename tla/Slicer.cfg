SPECIFICATION FairSpec
CONSTANTS
  a = a
  b = b
  t1 = t1
  t2 = t2
  sweep = sweep
  None = None
  Orders = {a}
  Qty <- MCQty
  TwapOrders = {b}
  TwapQty <- MCTwapQty
  CopiesMap = FALSE
  Ticks = {t1, t2}
  Sweep = sweep
  SliceCaps = {1, 2}
  SettleTime = 1
  Lifetime = 2
  NumSlices = 3
  Interval = 1
  MaxClock = 3
  MaxRouted = 1
INVARIANTS
  TypeOK
  OneChildInFlight
  WithinQuantity
  RemovedForGood
PROPERTIES
  EveryOrderEnds
CHECK_DEADLOCK FALSE
