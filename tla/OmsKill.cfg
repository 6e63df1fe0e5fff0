SPECIFICATION Spec
CONSTANTS
  o1 = o1
  o2 = o2
  o3 = o3
  t = t
  g = g
  c1 = c1
  c2 = c2
  NoId = NoId
  Orders = {o1, o2, o3}
  Users = {t, g}
  ClientIds = {c1, c2}
  Owner <- MCOwner
  ClientId <- MCClientId
  Notional <- MCNotional
  MarketNotionals = {1, 2}
  Limits <- MCLimits
  LastDay = 2
  Commands <- MCCommands
  Kills = {k1}
PROPERTIES
  CancelledNotRouted
CHECK_DEADLOCK FALSE
