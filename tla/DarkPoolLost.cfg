SPECIFICATION PoolSpec
CONSTANTS
  b1 = b1
  b2 = b2
  s1 = s1
  s2 = s2
  DarkOrders = {b1, b2, s1, s2}
  Side <- MCSide
  Qty <- MCQty
  Limit <- MCLimit
  MinBlock = 1
  Mids = {1, 2}
  Cycles = {m1}
  Expiries = {e1}
INVARIANTS
  RestingOrdersInBook
CHECK_DEADLOCK FALSE
