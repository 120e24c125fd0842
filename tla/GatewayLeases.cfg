SPECIFICATION FairSpec
CONSTANTS
  b1 = b1
  b2 = b2
  s1 = s1
  s2 = s2
  s3 = s3
  t1 = t1
  t2 = t2
  Backends <- TwoBackends
  Sessions <- ThreeSessions
  Threads <- TwoThreads
  Newcomer = s3
  IdleTimeout = 2
INVARIANTS
  LeasesDisjoint
PROPERTIES
  LeaseIsSticky
  AbandonedIsReclaimed
CHECK_DEADLOCK FALSE
