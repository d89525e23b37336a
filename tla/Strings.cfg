SPECIFICATION Spec
CONSTANTS
  N = 5
  Bytes = {0, 1, 200}
  Fills <- SomeFills
INVARIANTS TypeOK Written Answered
