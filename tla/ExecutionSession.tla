--------------------------- MODULE ExecutionSession ---------------------------
(***************************************************************************)
(* ExecutionSession::execute_node, in the order of its statements: save a  *)
(* snapshot, charge the budget, open a trace record, run the node, save    *)
(* the snapshot again, close the record.  The caller sets phase to "enter" *)
(* and takes over when it is "result", with the answer in outcome.         *)
(***************************************************************************)
EXTENDS NodeExecutor

CONSTANT ContextKb    \* estimate_json_size_kb of a context

ASSUME ContextKbAssumption == ContextKb \in [SUBSET Path -> Nat \ {0}]

VARIABLES wf,                    \* the workflow of the run
          phase,                 \* the statement the run has come to
          context,               \* the nodes whose output the context holds
          outcome,               \* the session's answer
          nodes_used, llm_calls_used, subgraph_depth_used,
          traces,
          snapshots, snapshot_order, current_total_size_kb,
          max_snapshots, max_snapshot_size_kb, call

CE == INSTANCE ContextEngine WITH Key <- Path, Ctx <- SUBSET Path,
                                  Kb <- ContextKb, Limits <- {}
TE == INSTANCE TraceExporter WITH NoKey <- NoPath

counters == <<nodes_used, llm_calls_used, subgraph_depth_used>>
storeVars == <<snapshots, snapshot_order, current_total_size_kb,
               max_snapshots, max_snapshot_size_kb, call>>
sessionVars == <<outcome, counters, traces, storeVars>>

\* The constructor: a missing or negative max_snapshots means ten.
SessionInit ==
  /\ outcome = "none"
  /\ nodes_used = 0 /\ llm_calls_used = 0 /\ subgraph_depth_used = 0
  /\ traces = << >>
  /\ CE!EmptyStore(IF wf.budget.engaged /\ wf.budget.max_snapshots >= 0
                     THEN wf.budget.max_snapshots ELSE 10,
                   IF wf.budget.engaged THEN wf.budget.snapshot_max_size_kb ELSE 512)

NeedsSnapshot(n) == n.snapshot \/ n.type \in {"FORK", "GENERATE_SUBGRAPH", "ASSERT"}

BugSnapshotKey(n) == n.path

SnapshotKey(n) == IF NeedsSnapshot(n) THEN n.path ELSE NoPath

\* try_consume_* of BudgetController: without a budget nothing is counted.
Exhausted(max, used) == wf.budget.engaged /\ max >= 0 /\ used >= max
Consume(used) == IF wf.budget.engaged THEN used + 1 ELSE used

LlmCallExhausted(n) == n.type = "DSL_CALL" /\ Exhausted(wf.budget.max_llm_calls, llm_calls_used)
DepthExhausted(n) == /\ n.type = "GENERATE_SUBGRAPH"
                     /\ Exhausted(wf.budget.max_subgraph_depth, subgraph_depth_used)
NodesExhausted == Exhausted(wf.budget.max_nodes, nodes_used)

ConsumeSpecial(n) ==
  /\ llm_calls_used' = IF n.type = "DSL_CALL" THEN Consume(llm_calls_used) ELSE llm_calls_used
  /\ subgraph_depth_used' = IF n.type = "GENERATE_SUBGRAPH" THEN Consume(subgraph_depth_used)
                            ELSE subgraph_depth_used

SaveIfNeeded(n) == IF NeedsSnapshot(n) THEN CE!SaveSnapshot(n.path, context)
                   ELSE call = CE!Idle /\ UNCHANGED storeVars

SnapshotBefore(n) ==
  /\ phase = "enter"
  /\ SaveIfNeeded(n)
  /\ phase' = "charge"
  /\ UNCHANGED <<outcome, counters, traces>>

\* The eviction loop of the save under way, and its second look.
EnforceSnapshotBudget ==
  /\ CE!EvictOldest \/ CE!RecheckSave
  /\ UNCHANGED <<phase, outcome, counters, traces>>

Refuse == outcome' = "refused" /\ phase' = "result" /\ UNCHANGED <<traces, storeVars>>

RefuseLlmCall(n) ==
  /\ phase = "charge" /\ call = CE!Idle
  /\ LlmCallExhausted(n)
  /\ Refuse /\ UNCHANGED counters

RefuseDepth(n) ==
  /\ phase = "charge" /\ call = CE!Idle
  /\ DepthExhausted(n)
  /\ Refuse /\ UNCHANGED counters

\* The unit of the call or of the depth is spent all the same.
RefuseNode(n) ==
  /\ phase = "charge" /\ call = CE!Idle
  /\ ~LlmCallExhausted(n) /\ ~DepthExhausted(n) /\ NodesExhausted
  /\ ConsumeSpecial(n)
  /\ Refuse /\ UNCHANGED nodes_used

BugAdmitNode(n) ==
  /\ phase = "charge" /\ call = CE!Idle
  /\ ~LlmCallExhausted(n) /\ ~DepthExhausted(n) /\ ~NodesExhausted
  /\ ConsumeSpecial(n)
  /\ nodes_used' = IF n.type = "ASSERT" THEN nodes_used ELSE Consume(nodes_used)
  /\ TE!OnNodeStart(n.path)
  /\ phase' = "run"
  /\ UNCHANGED <<outcome, storeVars>>

AdmitNode(n) ==
  /\ phase = "charge" /\ call = CE!Idle
  /\ ~LlmCallExhausted(n) /\ ~DepthExhausted(n) /\ ~NodesExhausted
  /\ ConsumeSpecial(n)
  /\ nodes_used' = Consume(nodes_used)
  /\ TE!OnNodeStart(n.path)
  /\ phase' = "run"
  /\ UNCHANGED <<outcome, storeVars>>

RunNode(n) ==
  /\ phase = "run"
  /\ outcome' \in Outcomes(n)
  /\ phase' = IF outcome' = "ok" THEN "resave" ELSE "trace"
  /\ UNCHANGED <<counters, traces, storeVars>>

BugSnapshotAfter(n) ==
  /\ phase = "resave"
  /\ IF NeedsSnapshot(n) THEN CE!SaveSnapshot(n.path, context \cup {n.path})
     ELSE call = CE!Idle /\ UNCHANGED storeVars
  /\ phase' = "trace"
  /\ UNCHANGED <<outcome, counters, traces>>

\* execute_with_snapshot saves the context the node was given once more.
SnapshotAfter(n) ==
  /\ phase = "resave"
  /\ SaveIfNeeded(n)
  /\ phase' = "trace"
  /\ UNCHANGED <<outcome, counters, traces>>

BugEndTrace(n) ==
  /\ phase = "trace" /\ call = CE!Idle
  /\ IF outcome = "ok" THEN TE!OnNodeEnd(n.path, "success", SnapshotKey(n))
     ELSE UNCHANGED traces
  /\ phase' = "result"
  /\ UNCHANGED <<outcome, counters, storeVars>>

EndTrace(n) ==
  /\ phase = "trace" /\ call = CE!Idle
  /\ TE!OnNodeEnd(n.path, IF outcome = "ok" THEN "success" ELSE "failed", SnapshotKey(n))
  /\ phase' = "result"
  /\ UNCHANGED <<outcome, counters, storeVars>>

ExecuteNode(n) == \/ SnapshotBefore(n)
                  \/ EnforceSnapshotBudget
                  \/ RefuseLlmCall(n)
                  \/ RefuseDepth(n)
                  \/ RefuseNode(n)
                  \/ AdmitNode(n)
                  \/ RunNode(n)
                  \/ SnapshotAfter(n)
                  \/ EndTrace(n)
==============================================================================
