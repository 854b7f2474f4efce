SPECIFICATION Spec
CONSTANTS
  N = 1
  Faults = {}
  Messages = {"auth", "description", "ready"}
  MaxTasks = 3
  MaxReceives = 1
  MaxShortages = 0
INVARIANTS
  ConnectedFindsChannels
CHECK_DEADLOCK FALSE
