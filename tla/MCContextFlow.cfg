SPECIFICATION Spec
CONSTANTS
  NoPath = NoPath
  Results <- MCResults
  ModelErrors <- MCModelErrors
  Jumping <- MCJumping
  Programs <- MCPrograms
  InitialContexts <- MCInitialContexts
  Numeral <- MCNumeral
  GeneratedPaths <- MCGeneratedPaths
  MaxSteps = 4
INVARIANTS
  TypeOK
  TracesReplay
  AssignOrderIsMoot
  AbstractsHandlers
PROPERTIES
  OnlyOutputsChange
CHECK_DEADLOCK FALSE
