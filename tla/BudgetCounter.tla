---------------------------- MODULE BudgetCounter ----------------------------
(***************************************************************************)
(* What one counter of ExecutionBudget promises its callers: every call of *)
(* try_consume_* is answered once, a unit is granted exactly when one is   *)
(* left, and a call is refused only when the limit has been reached.  A    *)
(* negative limit means that the counter is unlimited.                     *)
(***************************************************************************)
EXTENDS Integers, FiniteSets

CONSTANTS Thread,     \* the threads that may consume
          MaxCalls,   \* bound: calls one thread makes
          Limits      \* the values max_* is given

VARIABLES limit, used, granted, refused

Call == Thread \X (1..MaxCalls)

\* The guard of try_consume_node, try_consume_llm_call and
\* try_consume_subgraph_depth.
MayConsume(max, count) == max < 0 \/ count < max

Init == /\ limit \in Limits
        /\ used = 0
        /\ granted = {}
        /\ refused = {}

Grant(c) == /\ c \notin granted \cup refused
            /\ MayConsume(limit, used)
            /\ used' = used + 1
            /\ granted' = granted \cup {c}
            /\ UNCHANGED <<limit, refused>>

Refuse(c) == /\ c \notin granted \cup refused
             /\ ~MayConsume(limit, used)
             /\ refused' = refused \cup {c}
             /\ UNCHANGED <<limit, used, granted>>

Next == \E c \in Call : Grant(c) \/ Refuse(c)

vars == <<limit, used, granted, refused>>

Spec == Init /\ [][Next]_vars
==============================================================================
