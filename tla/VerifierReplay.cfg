SPECIFICATION VerifierSpec
CONSTANTS
  n1 = n1
  n2 = n2
  n3 = n3
  n4 = n4
  Ids <- MCIds
  MaxWrites = 2
  ClientId = "odyssey-7"
  Bundle <- MCBundle
  ValidFrom = 0
  ValidUntil = 1
  WeakNonces <- MCWeakNonces
  Envelopes <- MCEnvelopes
  Expectations <- MCExpectations
  MaxClockSkew = 1
  MaxTime = 2
INVARIANTS
  AckedEndsALine
  VerdictSound
  SpentByGenuine
PROPERTIES
  AcceptedOnce
  KeepsContract
CHECK_DEADLOCK FALSE
