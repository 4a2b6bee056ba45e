SPECIFICATION Spec
CONSTANTS
  Paths <- MCPaths
  Listings <- MCListings
INVARIANTS
  NoneMissed
  ExactWhenSorted
PROPERTIES
  ImplementsFinalCheck
