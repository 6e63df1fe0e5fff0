SPECIFICATION FairSpec
CONSTANTS
  order = order
  fill = fill
  kill = kill
  Sends = {order, fill, kill}
  MaxInFlight = 2
  Window = 1
  MaxRepeats = 1
  MaxCrashes = 1
INVARIANTS
  TypeOK
  SlotsHeld
  WaitersJustified
  AlwaysReconnecting
  HandledOncePerWindow
  CommittedWasHandled
PROPERTIES
  SendsSettle
  WrittenIsHandled
CHECK_DEADLOCK FALSE
