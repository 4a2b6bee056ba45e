SPECIFICATION Spec
CONSTANTS
  NoPath = NoPath
  UserPath <- MCUserPath
  Workflows <- ShapeWorkflows
  ContextKb <- MCContextKb
INVARIANT
  StaticWaitersRun
