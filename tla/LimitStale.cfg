SPECIFICATION Spec
CONSTANTS
  a = a
  b = b
  t1 = t1
  t2 = t2
  sweep = sweep
  None = None
  Orders = {a, b}
  Qty <- MCLimitQty
  TwapOrders = {}
  TwapQty <- MCNobody
  CopiesMap = TRUE
  Ticks = {t1, t2}
  Sweep = sweep
  SliceCaps = {1}
  SettleTime = 1
  Lifetime = 2
  NumSlices = 3
  Interval = 1
  MaxClock = 3
  MaxRouted = 2
INVARIANT OneChildInFlight
CHECK_DEADLOCK FALSE
