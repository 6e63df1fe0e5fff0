SPECIFICATION Spec
CONSTANTS
  a = a
  b = b
  t1 = t1
  t2 = t2
  s1 = s1
  p1 = p1
  p2 = p2
  sweep = sweep
  None = None
  Orders = {a}
  Qty <- MCQty
  Aggression = 80
  VenueLimits = {1, 2}
  HalfDepths = {0, 2}
  Ticks = {t1}
  Sweeps = {s1}
  Cooldown = 1
  MaxChildren = 2
  MaxUnbooked = 1
  Lifetime = 2
  MaxClock = 2
  Strategies = {"IS", "ARRIVAL_PRICE", "MOMENTUM"}
  PacedOrders = {b}
  PacedQty <- MCPacedQty
  Urgency = 50
  MinSlices = 1
  MaxSlices = 3
  BaseInterval = 1
  MaxTranches = 2
  CooldownTicks = 1
  LongPeriod = 1
  DepthCaps = {1, 3}
  PacedTicks = {p1}
  PacedSweep = sweep
INVARIANTS
  SafeToRoute
CHECK_DEADLOCK FALSE
