SPECIFICATION Spec
CONSTANT Stale = {0, 8, 9}
INVARIANTS TypeOK Delivered
CHECK_DEADLOCK FALSE
