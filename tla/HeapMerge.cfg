SPECIFICATION Spec
CONSTANTS
  Slots = {p, q, r}
  NoSlot = NoSlot
  NoAddr = NoAddr
  Sizes = {1, 6, 10}
  PAGE = 10
  LIMIT = 30
  UserWords <- ZeroWords
INVARIANT MergesOnlyFree
