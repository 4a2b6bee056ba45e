--------------------------- MODULE MCContextEngine ---------------------------
EXTENDS ContextEngine
CONSTANTS k1, k2, k3
MCCtx == {"small", "medium", "large"}
MCKb == [small |-> 1, medium |-> 2, large |-> 4]
\* nothing allowed; one slot; the size binds; the count binds
MCLimits == {<<0, 4>>, <<1, 5>>, <<3, 4>>, <<2, 8>>}
==============================================================================
