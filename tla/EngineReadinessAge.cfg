SPECIFICATION Spec
CONSTANTS
  TicksPerSecond = 2
  TrustBundle <- MCTrustBundle
  Profile <- ShippedProfile
  MaxClockSkew = 2
  CredentialLifetime = 9
  Persistent = TRUE
  ClockMayStepBack = FALSE
  Evidence <- NominalEvidence
  MaxTick = 3
  MaxSessions = 1
  MaxGrants = 1
PROPERTY ReadinessAgeBounded
CHECK_DEADLOCK FALSE
