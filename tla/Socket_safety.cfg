SPECIFICATION Spec
CONSTANTS
  Natives = {n1}
  Clients = {c1, c2}
  Socks = {k1, k2}
  None = None
  CountModulus = 1
  Faults = {"memory", "early", "connecting", "restart", "failing"}
  MaxTasks = 2
SYMMETRY Symmetry
INVARIANTS
  TypeOK
  SocketRefs
  StoppedHasNoActiveSession
  ClosedIsLast
CHECK_DEADLOCK FALSE
