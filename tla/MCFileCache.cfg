SPECIFICATION Spec
CONSTANTS
  Process = {p1, p2}
  Inode = {i1, i2, i3, i4}
  Envelopes = {e1, e2}
  Oversized = {big}
  None = None
  Empty = Empty
  Torn = Torn
  ShortWrites = TRUE
SYMMETRY CacheSymmetry
INVARIANTS
  TypeOK
  CleanupSparesCache
  NothingHeldWhenIdle
PROPERTIES
  ReplacedAtomically
