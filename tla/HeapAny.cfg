SPECIFICATION FairSpec
CONSTANTS
  Slots = {p, q}
  NoSlot = NoSlot
  NoAddr = NoAddr
  Sizes = {1, 4}
  PAGE = 8
  LIMIT = 16
  UserWords <- ZeroWords
INVARIANT StaysInHeap
PROPERTIES MallocReturns FirstFit AnswersAsTier
CHECK_DEADLOCK FALSE
