SPECIFICATION FairSpec
CONSTANTS
  N = 1
  Faults = {"pcFailed"}
  Messages = {"auth", "description", "ready"}
  MaxTasks = 2
  MaxReceives = 1
  MaxShortages = 0
PROPERTIES
  RemovedIsDeleted
CHECK_DEADLOCK FALSE
