SPECIFICATION FairSpec
CONSTANTS
  p1 = p1
  Process = {p1}
  Nobody = Nobody
  Failure <- EveryFailure
  MaxVersion = 3
  MaxCrashes = 2
PROPERTY Converges
CHECK_DEADLOCK FALSE
