SPECIFICATION Spec
CONSTANTS
  EnvironmentName <- MCEnvironmentName
  KeyId <- MCKeyId
  PublicKey <- MCPublicKey
  FullSizeKey <- MCPublicKey
  BadTime = BadTime
  Caller = {c1}
  Body <- OneGood
  None = None
  Torn = Torn
  Clock = {1500}
  Policy <- SIGNATURE_DISABLED
  Environment = "dev"
  CacheEnabled = FALSE
  Reply <- SomeReply
  MaxFailures = 1
PROPERTY
  TimedOutServesDefaults
CHECK_DEADLOCK FALSE
