SPECIFICATION Spec
CONSTANTS
  Process = {p1}
  Inode = {i1, i2, i3}
  Envelopes = {e1, e2}
  Oversized = {big}
  None = None
  Empty = Empty
  Torn = Torn
  ShortWrites = TRUE
INVARIANT
  NeverTruncated
