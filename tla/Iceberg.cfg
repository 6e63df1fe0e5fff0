SPECIFICATION FairSpec
CONSTANTS
  a = a
  b = b
  t1 = t1
  t2 = t2
  s1 = s1
  Orders = {a, b}
  Qty <- MCQty
  VisibleQty <- MCVisibleQty
  Ticks = {t1, t2}
  Sweeps = {s1}
  DepthCaps = {1, 2}
INVARIANTS
  TypeOK
  OneSliceAtATime
  ExecutionBounded
  BooksMatchEms
PROPERTIES
  ImplementsParentOrder
  EveryOrderRetires
CHECK_DEADLOCK FALSE
