SPECIFICATION FairSpec
CONSTANTS
  Producers = {p1, p2}
  Slots = {s1, s2}
  MaxSubmits = 2
  Null = Null
INVARIANTS
  TypeOK
  OneOwner
  NoLostWakeup
PROPERTIES
  FifoOrder
  EveryTaskRuns
  ShutdownEnds
CHECK_DEADLOCK FALSE
