SPECIFICATION EngineSpec
CONSTANTS
  NoPath = NoPath
  UserPath <- MCUserPath
  Workflows = {}
  ContextKb <- MCContextKb
  Documents <- TestDocuments
  Generated <- TestGenerated
  MaxRuns = 2
  MaxGraphs = 2
INVARIANT
  AppendedNodesRun
