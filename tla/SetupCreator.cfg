SPECIFICATION Spec
CONSTANT Workers = {w1, w2}
CHECK_DEADLOCK FALSE
INVARIANT CreatorSafe
