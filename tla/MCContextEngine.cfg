SPECIFICATION Spec
CONSTANTS
  k1 = k1
  k2 = k2
  k3 = k3
  Key = {k1, k2, k3}
  Ctx <- MCCtx
  Kb <- MCKb
  Limits <- MCLimits
INVARIANTS
  TypeOK
  StoredIsListed
  TotalCoversStored
  KeptWithinLimits
PROPERTIES
  SavingKeepsSnapshots
