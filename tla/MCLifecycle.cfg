SPECIFICATION Spec
CONSTANTS
  p1 = p1
  p2 = p2
  Process = {p1, p2}
  Nobody = Nobody
  Failure <- SomeFailure
  MaxVersion = 2
  MaxCrashes = 1
INVARIANTS TypeOK NotModifiedIsTruthful RestartKeepsRuleset OutageSurvived
PROPERTY ServedNeverGoesBack
SYMMETRY Processes
CHECK_DEADLOCK FALSE
