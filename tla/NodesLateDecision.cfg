SPECIFICATION NodesSpec
CONSTANTS
  LastStage = 2
  Faults = {}
  Slow = {"station"}
  MaxStarts = 2
PROPERTIES DecisionOfThisRun
