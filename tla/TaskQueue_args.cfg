SPECIFICATION Spec
CONSTANTS
  Producers = {p1, p2}
  Slots = {s1, s2}
  MaxSubmits = 2
  Null = Null
SYMMETRY ThreadsAndSlots
INVARIANT ArgumentsIntact
CHECK_DEADLOCK FALSE
