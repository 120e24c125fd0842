SPECIFICATION Spec
CONSTANTS
  id1 = id1
  id2 = id2
  id3 = id3
  Ids <- MCIds
  MaxWrites = 3
INVARIANTS
  AckedIsDurable
CHECK_DEADLOCK FALSE
