SPECIFICATION Spec
CONSTANTS
  N = 1
  Faults = {"chatter", "rtt", "executor", "native", "pcFailed", "badLabel", "dcError", "dcClosed"}
  Messages = {"auth", "authBad", "description", "ready"}
  MaxTasks = 2
  MaxReceives = 1
  MaxShortages = 1
INVARIANTS
  TypeOK
  SessionRefs
  NeverNullSession
  TableLive
  NativeHandleValid
CHECK_DEADLOCK FALSE
