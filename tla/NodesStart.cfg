SPECIFICATION FairNodesSpec
CONSTANTS
  LastStage = 2
  Faults = {}
  Slow = {}
  MaxStarts = 1
PROPERTIES RunBegins
