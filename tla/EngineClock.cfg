SPECIFICATION Spec
CONSTANTS
  TicksPerSecond = 1
  TrustBundle <- MCTrustBundle
  Profile <- TightProfile
  MaxClockSkew = 1
  CredentialLifetime = 2
  Persistent = FALSE
  ClockMayStepBack = TRUE
  Evidence <- NominalEvidence
  MaxTick = 4
  MaxSessions = 2
  MaxGrants = 2
INVARIANTS
  PendingSound
PROPERTIES
  RefusedStaysRefused
  CredentialsUnexpiredAtRelease
CHECK_DEADLOCK FALSE
