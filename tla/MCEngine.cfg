SPECIFICATION EngineSpec
CONSTANTS
  NoPath = NoPath
  UserPath <- MCUserPath
  Workflows = {}
  ContextKb <- MCContextKb
  Documents <- MCDocuments
  Generated <- MCGenerated
  MaxRuns = 3
  MaxGraphs = 3
INVARIANTS
  EngineTypeOK
  ModelCallEndsRun
  TracesAreOfLastRun
  WrittenNodesRun
PROPERTIES
  BudgetIsNeverLifted
