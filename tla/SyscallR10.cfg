SPECIFICATION Spec
CONSTANT Stale = {0, 9}
INVARIANT StoresNoUsage
CHECK_DEADLOCK FALSE
