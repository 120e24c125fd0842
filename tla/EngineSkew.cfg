SPECIFICATION Spec
CONSTANTS
  TicksPerSecond = 1
  TrustBundle <- MCTrustBundle
  Profile <- ShippedProfile
  MaxClockSkew = 2
  CredentialLifetime = 9
  Persistent = TRUE
  ClockMayStepBack = FALSE
  Evidence <- NominalEvidence
  MaxTick = 4
  MaxSessions = 1
  MaxGrants = 1
INVARIANT UnexpiredIsPresentable
CHECK_DEADLOCK FALSE
