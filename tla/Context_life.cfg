SPECIFICATION FairSpec
CONSTANTS
  Callers = {c1, c2}
  Works = {w1, w2}
  Faults = {"memory"}
INVARIANTS
  TypeOK
  UsersFindParts
  ThreadFindsAll
PROPERTY UnloadEnds
CHECK_DEADLOCK FALSE
