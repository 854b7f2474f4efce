SPECIFICATION FairSpec
CONSTANTS
  Natives = {n1, n2}
  Clients = {c1}
  Socks = {k1, k2}
  None = None
  CountModulus = 4
  Faults = {}
  MaxTasks = 2
INVARIANTS
  WsReferenceEnds
  ActiveIsMapped
  ExecutorServes
PROPERTY StoppedIsReleased
CHECK_DEADLOCK FALSE
