SPECIFICATION Spec
CONSTANTS
  Interval <- CommonInterval
  Seconds <- MCSeconds
  NaN = NaN
  Inf = Inf
  MAX_DOUBLE = 50000000
  MAX_DIGITS = 60000000
  MAX_WAIT = 90000000
  MaxFailures = 12
INVARIANT
  HintNeverEndsPolling
CHECK_DEADLOCK FALSE
