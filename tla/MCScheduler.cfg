SPECIFICATION FairSpec
CONSTANTS
  NoPath = NoPath
  UserPath <- MCUserPath
  Workflows <- MCWorkflows
  ContextKb <- MCContextKb
INVARIANTS
  TypeOK
  InDegreeIsPending
  NoLostWakeup
  AuditTrail
  BudgetBoundsWork
  SnapshotIsPreState
  SnapshotKeysResolve
PROPERTIES
  ImplementsDag
  Termination
