SPECIFICATION Spec
CONSTANTS
  a = a
  b = b
  t1 = t1
  s1 = s1
  Orders = {a, b}
  Qty <- MCQty
  VisibleQty <- MCVisibleQty
  Ticks = {t1}
  Sweeps = {s1}
  DepthCaps = {1, 2}
PROPERTIES
  SliceWithinRemaining
CHECK_DEADLOCK FALSE
