-------------------------- MODULE MCExecutionBudget --------------------------
EXTENDS ExecutionBudget
CONSTANTS t1, t2, t3
\* unlimited, nothing allowed, fewer units than threads, fewer than calls
MCLimits == {-1, 0, 2, 3}
==============================================================================
