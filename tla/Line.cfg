SPECIFICATION Spec
CONSTANTS
  MAX_INPUT = 7
  MAX_ARGS = 3
  Plain = {x, y}
INVARIANTS TypeOK UnreadIntact SplitRight
CHECK_DEADLOCK FALSE
