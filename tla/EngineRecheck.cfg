SPECIFICATION Spec
CONSTANTS
  TicksPerSecond = 1
  TrustBundle <- MCTrustBundle
  Profile <- ShippedProfile
  MaxClockSkew = 2
  CredentialLifetime = 9
  Persistent = TRUE
  ClockMayStepBack = FALSE
  Evidence <- ScenarioEvidence
  MaxTick = 0
  MaxSessions = 1
  MaxGrants = 2
PROPERTY RechecksReadiness
CHECK_DEADLOCK FALSE
