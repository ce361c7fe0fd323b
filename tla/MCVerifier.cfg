SPECIFICATION Spec
CONSTANTS
  EnvironmentName <- MCEnvironmentName
  KeyId <- MCKeyId
  PublicKey <- MCPublicKey
  FullSizeKey <- MCFullSizeKey
  BadTime = BadTime
  Bodies <- MCBodies
  Policies <- MCPolicies
  Clock <- MCClock
  Environment = "dev"
INVARIANTS
  FailClosed
  ExpiryAsymmetry
  LiveWindow
  BadTrustEntryIsInert
PROPERTY
  CacheNeverExpires
CHECK_DEADLOCK FALSE
