SPECIFICATION BusySpec
CONSTANTS
  RingMax = 2
  ChanMax = 2
  Ids = 7
INVARIANTS
  InOrder
PROPERTIES
  EventsAreRead
  SomeAreHandled
  ShutdownCompletes
CHECK_DEADLOCK FALSE
