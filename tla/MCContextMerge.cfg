SPECIFICATION Spec
CONSTANTS
  Key <- MCKey
  Item <- MCItem
  Policies <- MCPolicies
  Contexts <- MCContexts
  Branches <- MCBranches
  MaxBranches = 2
INVARIANTS
  TypeOK
  MergesAsPatch
  OnlyMentionedChange
  RepeatIsHarmless
  NothingIsLost
  ConflictsAreSymmetric
  PatternOrderIsMoot
PROPERTIES
  ImplementsJoin
