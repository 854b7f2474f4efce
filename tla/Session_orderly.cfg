SPECIFICATION FairSpec
CONSTANTS
  N = 1
  Faults = {"native", "untold"}
  Messages = {"auth", "description", "ready"}
  MaxTasks = 2
  MaxReceives = 1
  MaxShortages = 0
INVARIANTS
  NoNullReceive
PROPERTIES
  ConnectedMeansReceiving
  ClosedIsReleased
  StalledIsClosed
  ImplementsLife
CHECK_DEADLOCK FALSE
