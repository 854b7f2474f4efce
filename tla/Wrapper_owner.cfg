SPECIFICATION Spec
CONSTANTS
  Sessions = {i1, i2}
  Ws = {w1, w2}
  Pc = {p1, p2}
  Dc = {d1, d2, d3}
  None = None
  Faults = {}
  MaxTasks = 3
SYMMETRY Symmetry
INVARIANTS
  DataIsLive
  WsFindsOwn
  PcFindsOwn
  MessagesReachOwn
  StrayClosesAreOutgoing
CHECK_DEADLOCK FALSE
