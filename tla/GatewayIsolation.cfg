SPECIFICATION Spec
CONSTANTS
  b1 = b1
  b2 = b2
  s1 = s1
  s2 = s2
  s3 = s3
  t1 = t1
  t2 = t2
  Backends <- OneBackend
  Sessions <- TwoSessions
  Threads <- TwoThreads
  Newcomer = s1
  IdleTimeout = 2
PROPERTIES
  AnsweredByOwnInstance
CHECK_DEADLOCK FALSE
