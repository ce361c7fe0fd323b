SPECIFICATION Spec
CONSTANTS
  EnvironmentName <- MCEnvironmentName
  KeyId <- MCKeyId
  PublicKey <- MCPublicKey
  FullSizeKey <- MCPublicKey
  BadTime = BadTime
  Caller = {c1, c2}
  Body <- TwoGoodOneDeep
  None = None
  Torn = Torn
  Clock <- MCClock
  Policy <- SIGNATURE_DISABLED
  Environment = "dev"
  CacheEnabled = TRUE
  Reply <- SomeReply
  MaxFailures = 1
SYMMETRY CallerSymmetry
INVARIANTS
  TypeOK
  ReadyMeansNetwork
  EtagNamesSnapshot
  DiagnosticsCoherent
  CacheStateTruthful
  FirstAttemptReported
  WaiterIsRemembered
PROPERTIES
  OnePoller
  CloseIsFinal
  TimedOutIsEarly
  ImplementsCascade
CHECK_DEADLOCK FALSE
