SPECIFICATION IntactSpec
CONSTANTS
  Slots = {p, q, r}
  NoSlot = NoSlot
  NoAddr = NoAddr
  Sizes = {1, 9, 12}
  PAGE = 12
  LIMIT = 36
  UserWords <- TagLikeWords
SYMMETRY Symmetry
INVARIANTS TypeOK DamagedExactlyByFaults LiveDisjoint HeapBacked
PROPERTIES DamageBegins PayloadUntouched KeepsPromise AnswersAsTier
CHECK_DEADLOCK FALSE
