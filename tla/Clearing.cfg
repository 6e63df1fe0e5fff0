SPECIFICATION FairSpec
CONSTANTS
  b = b
  e = e
  f = f
  d1 = d1
  d2 = d2
  u = u
  p1 = p1
  q1 = q1
  q2 = q2
  s1 = s1
  h1 = h1
  h2 = h2
  None = None
  Nobody = Nobody
  RfqOrders = {b}
  Dealers = {d1, d2}
  Rank <- MCRank
  Posts = {p1}
  Window = 1
  Retention = 0
  MaxClock = 1
  MaxRestarts = 1
  SellSideRfqs = {s1}
  Puts = {q1, q2}
  VenueFills = {e, f}
  Trades = {b, e, f}
  Users = {u}
  UserOf <- MCUserOf
  Margin <- MCMargin
  Signed <- MCSigned
  DueDay <- MCDueDay
  DayLength = 1
  MaxDay = 1
  MaxNovations = 2
  MaxRfqs = 1
  Sweeps = {h1, h2}
INVARIANTS
  TypeOK
  OneOutcome
  MarginMatchesObligations
PROPERTIES
  OutcomeIsFinal
  EveryTradeClears
CHECK_DEADLOCK FALSE
