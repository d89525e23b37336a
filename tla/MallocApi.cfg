SPECIFICATION Spec
CONSTANTS
  Slots = {p, q}
  BrkSites = {b1, b2, b3}
  MapSites = {m1, m2, m3}
  NoSite = NoSite
  Fault = Fault
  Sizes = {0, 1, 6, 15, 18, 22, 24}
  Counts = {0, 3, 22}
  AnySizes = {0, 4, 16, 24}
  PAGE = 8
  MMAP_LIMIT = 16
  WORD = 64
SYMMETRY Symmetry
INVARIANTS TypeOK Owned RoomForRequest
PROPERTIES CopyInBounds ReallocLosesAWordAtMost
CHECK_DEADLOCK FALSE
