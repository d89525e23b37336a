SPECIFICATION Spec
CONSTANTS
  Slots = {p, q}
  BrkSites = {b1, b2, b3}
  MapSites = {m1, m2, m3}
  NoSite = NoSite
  Fault = Fault
  Sizes = {1, 22}
  Counts = {0}
  AnySizes = {0, 4, 16, 24}
  PAGE = 8
  MMAP_LIMIT = 16
  WORD = 64
SYMMETRY Symmetry
INVARIANT SurvivesRefusal
CHECK_DEADLOCK FALSE
