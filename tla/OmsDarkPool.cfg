SPECIFICATION BothSpec
CONSTANTS
  o1 = o1
  o2 = o2
  o3 = o3
  t = t
  g = g
  c1 = c1
  c2 = c2
  NoId = NoId
  Orders = {o1, o2, o3}
  Users = {t, g}
  ClientIds = {c1, c2}
  Owner <- MCOwner
  ClientId <- MCClientId
  Notional <- MCNotional
  MarketNotionals = {1, 2}
  Limits <- MCLimits
  LastDay = 2
  Commands <- MCCommands
  Kills = {k1, k2}
  b1 = b1
  b2 = b2
  s1 = s1
  s2 = s2
  DarkOrders = {b1, b2, s1, s2}
  Side <- MCSide
  Qty <- MCQty
  Limit <- MCLimit
  MinBlock = 1
  Mids = {1, 2}
  Cycles = {m1, m2}
  Expiries = {e1, e2}
INVARIANTS
  TypeOK
  WithinDailyLimit
  KillableUntilCancelled
  KillsStayInScope
  PoolTypeOK
  QuantityConserved
PROPERTIES
  LostToStale
CHECK_DEADLOCK FALSE
