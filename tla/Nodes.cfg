SPECIFICATION FairNodesSpec
CONSTANTS
  LastStage = 2
  Faults <- AllFaults
  Slow = {"controller", "chaser", "station"}
  MaxStarts = 2
INVARIANTS NodesTypeOK StationInStep ReleasesVerified
PROPERTIES EntriesBacked HaltHolds ImplementsPromise RunSettles
