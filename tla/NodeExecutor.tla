----------------------------- MODULE NodeExecutor -----------------------------
(***************************************************************************)
(* What NodeExecutor::execute_node can do with a node, seen from its       *)
(* caller: return a context ("ok"), throw ("throw"), or throw the message  *)
(* the scheduler reads as a jump ("jump").                                 *)
(***************************************************************************)
EXTENDS Workflow

\* The handlers that render, call a tool or a model, or parse its answer.
Assigns(n) == n.type = "ASSIGN"
Calls(n) == n.type \in {"DSL_CALL", "TOOL_CALL"}
Generates(n) == n.type = "GENERATE_SUBGRAPH"
Asserts(n) == n.type = "ASSERT"

\* Their output keys go into the context.
Writes(n) == Assigns(n) \/ Calls(n) \/ Generates(n)

\* Rendering, tools, models and parsing may always fail.
MayThrow(n) == Assigns(n) \/ Calls(n) \/ Generates(n) \/ Asserts(n)

\* check_permissions
MayBeDenied(n) == n.guarded

\* execute_fork and execute_join always throw.
Unsupported(n) == n.type \in {"FORK", "JOIN"}

Outcomes(n) ==
  (IF Unsupported(n) THEN {} ELSE {"ok"})
    \cup (IF Unsupported(n) \/ MayThrow(n) \/ MayBeDenied(n) THEN {"throw"} ELSE {})
    \cup (IF MayThrow(n) /\ JumpTargets(n) # {} THEN {"jump"} ELSE {})
==============================================================================
