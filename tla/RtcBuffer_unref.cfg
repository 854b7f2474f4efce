SPECIFICATION Spec
CONSTANT Buffers = {b1}
INVARIANT CounterCounts
CHECK_DEADLOCK FALSE
