SPECIFICATION Spec
CONSTANTS
  t1 = t1
  t2 = t2
  t3 = t3
  Thread = {t1, t2, t3}
  MaxCalls = 2
  Limits <- MCLimits
INVARIANTS
  TypeOK
  NeverOverdrawn
  RefusedOnlyWhenSpent
PROPERTIES
  ImplementsBudgetCounter
CHECK_DEADLOCK FALSE
