SPECIFICATION Spec
CONSTANTS
  Paths <- MCPaths
  Listings <- MCListings
INVARIANTS
  CompleteRunsPass
