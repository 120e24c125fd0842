SPECIFICATION Spec
CONSTANTS
  TicksPerSecond = 1
  TrustBundle <- MCTrustBundle
  Profile <- ShippedProfile
  MaxClockSkew = 2
  CredentialLifetime = 9
  Persistent = TRUE
  ClockMayStepBack = FALSE
  Evidence <- NominalEvidence
  MaxTick = 0
  MaxSessions = 2
  MaxGrants = 5
INVARIANTS
  TypeOK
  SessionCoherent
  PendingSound
  StateBackedByReleases
  OneReleasePerStage
  ReleasedIsSpent
PROPERTIES
  ImplementsGate
CHECK_DEADLOCK FALSE
