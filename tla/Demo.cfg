SPECIFICATION Spec
CONSTANT MAXFD = 4
INVARIANTS TypeOK HelloOnly ClosedAtEnd
PROPERTIES LinesWhole
CHECK_DEADLOCK FALSE
