SPECIFICATION FairSpec
CONSTANTS
  a = a
  w1 = w1
  w2 = w2
  t1 = t1
  t2 = t2
  k1 = k1
  NoContext = NoContext
  Contexts = {a}
  Priority <- MCPriority
  Workers = {w1, w2}
  MaxRetries = 2
  MaxJobs = 2
  MaxFaults = 1
  MaxClock = 1
  Triggers = {t1, t2}
  Cancels = {k1}
  Window = 1
  StuckAge = 0
  MaxStarts = 1
INVARIANTS
  TypeOK
  EachContextOnce
PROPERTIES
  FinalStays
  EveryJobEnds
CHECK_DEADLOCK FALSE
