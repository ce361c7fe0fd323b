SPECIFICATION Spec
CONSTANTS
  EnvironmentName <- MCEnvironmentName
  KeyId <- MCKeyId
  PublicKey <- MCPublicKey
  FullSizeKey <- MCPublicKey
  BadTime = BadTime
  Caller = {c1}
  Body <- AllBody
  None = None
  Torn = Torn
  Clock = {1500}
  Policy <- SIGNATURE_DISABLED
  Environment = "dev"
  CacheEnabled = TRUE
  Reply <- SomeReply
  MaxFailures = 1
INVARIANT
  StartNeverRaises
CHECK_DEADLOCK FALSE
