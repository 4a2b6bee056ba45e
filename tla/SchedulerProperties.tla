------------------------- MODULE SchedulerProperties -------------------------
(***************************************************************************)
(* What a run of the scheduler guarantees, and what the documentation says *)
(* of it that the code does not do.                                        *)
(***************************************************************************)
EXTENDS TopoScheduler

Results == {"running", "completed", "paused", "threw", "entry not found", "node not found",
            "wait_for failed", "node failed", "budget exceeded", "out of time",
            "unexecuted nodes"}

Phases == {"register", "scan", "loop", "gate", "enter", "charge", "run", "resave", "trace",
           "result", "executed", "release", "check", "done"}

\* Every variable of the scheduler keeps its type; in_degree_ never goes
\* below zero.
SchedulerTypeOK ==
  /\ IsWorkflow(wf)
  /\ phase \in Phases
  /\ context \subseteq Path
  /\ cursor \in Nat \ {0}
  /\ DOMAIN node_map \subseteq Registered(wf)
  /\ \A p \in DOMAIN node_map : /\ node_map[p] \in DOMAIN AllNodes(wf)
                                /\ AllNodes(wf)[node_map[p]].path = p
  /\ in_degree \in [DOMAIN in_degree -> Nat]
  /\ ready_queue \in Seq(Path)
  /\ current \in Path \cup {NoPath}
  /\ executed \subseteq DOMAIN node_map
  /\ result \in Results

\* Every variable of the session keeps its type.
SessionTypeOK ==
  /\ outcome \in {"none", "ok", "throw", "jump", "refused"}
  /\ nodes_used \in Nat /\ llm_calls_used \in Nat /\ subgraph_depth_used \in Nat
  /\ traces \in Seq([node_path : Path, status : {"running", "success", "failed"},
                     ctx_snapshot_key : Path \cup {NoPath}])
  /\ CE!TypeOK

\* Every variable of a run keeps its type.
TypeOK == SchedulerTypeOK /\ SessionTypeOK

-----------------------------------------------------------------------------

\* The loop of execute and the steps it is made of.
Looping == {"scan", "loop", "gate", "enter", "charge", "run", "resave", "trace",
            "result", "executed", "release"}

\* An edge is released when its source, as last registered, has executed and
\* the loop over its successors has passed it.
Released(e) ==
  LET p == Source(wf, e) IN
    /\ p \in executed
    /\ e[1] = node_map[p]
    /\ ~(phase = "executed" /\ p = current)
    /\ ~(phase = "release" /\ p = current /\ e[2] >= cursor)

Pending(p) == {e \in EdgesInto(wf, p) : ~Released(e)}

\* Through jumps, retries, pauses and duplicate definitions, a node's
\* in-degree counts the edges that are not released yet, and the static
\* wait_for dependencies, which nothing releases.
InDegreeIsPending ==
  phase \in Looping =>
    \A p \in DOMAIN node_map :
       p \in DOMAIN in_degree =>
         in_degree[p] = Cardinality(Pending(p)) + Cardinality(WaitsOf(wf, p))

\* The queue never loses a node: when it runs empty without a jump having
\* cleared it, every node whose predecessors have all released it has run.
JumpsPossible == \E i \in DOMAIN wf.nodes : JumpTargets(wf.nodes[i]) # {}
NoLostWakeup ==
  phase = "loop" /\ ready_queue = << >> /\ ~JumpsPossible =>
    \A p \in DOMAIN node_map :
       EdgesInto(wf, p) # {} /\ Pending(p) = {} /\ WaitsOf(wf, p) = {} => p \in executed

Succeeded == {i \in DOMAIN traces : traces[i].status = "success"}

\* The traces are a complete account of the run: the nodes with a successful
\* record are those executed, none twice, whatever was skipped, retried or
\* jumped over, and only the last record may be open.
AuditTrail ==
  /\ phase # "result" => {traces[i].node_path : i \in Succeeded} = executed
  /\ \A i, j \in Succeeded : traces[i].node_path = traces[j].node_path => i = j
  /\ \A i \in DOMAIN traces : traces[i].status = "running" =>
        i = Len(traces) /\ phase \in {"run", "resave", "trace"}

NodeAt(p) == AllNodes(wf)[node_map[p]]

\* A budget bounds the work and not only the successes: failed asserts that
\* are retried through jumps spend it too, and no dsl_call node is run beyond
\* max_llm_calls.  The model that a generate_subgraph node asks is not charged.
BudgetBoundsWork ==
  wf.budget.engaged =>
    /\ nodes_used = Len(traces)
    /\ wf.budget.max_nodes >= 0 => Len(traces) <= wf.budget.max_nodes
    /\ wf.budget.max_llm_calls >= 0 =>
         Cardinality({i \in DOMAIN traces : NodeAt(traces[i].node_path).type = "DSL_CALL"})
           <= wf.budget.max_llm_calls

\* A snapshot can be rolled back to: it never holds the output of the node
\* it was taken for, although it is saved once more after the node has run.
SnapshotIsPreState ==
  \A k \in DOMAIN snapshots : k \notin snapshots[k] /\ snapshots[k] \subseteq context

\* The store has no room: for another key, or for some context of the run.
StoreRefuses == \/ Cardinality(DOMAIN snapshots) >= max_snapshots
                \/ \E ctx \in SUBSET context :
                     current_total_size_kb + ContextKb[ctx] > max_snapshot_size_kb

\* The snapshot key of a record can be followed: it names a stored snapshot,
\* and when a node ends, by a retry too, that snapshot is of the context it
\* started with.  Only a store without room lets a key dangle or go stale.
SnapshotKeysResolve ==
  ~StoreRefuses =>
    /\ \A i \in DOMAIN traces :
         traces[i].ctx_snapshot_key \in DOMAIN snapshots \cup {NoPath}
    /\ phase = "trace" /\ call = CE!Idle /\ NeedsSnapshot(NodeAt(current)) =>
         current \in DOMAIN snapshots /\ snapshots[current] = context

\* Every run ends when jumps are paid for by a node budget and dynamic
\* dependencies are among the nodes that will run.
Termination == <>(phase = "done")

Verdict == IF result \in {"running", "completed", "paused"} THEN result ELSE "failed"

DE == INSTANCE DagExecution WITH verdict <- Verdict

\* The run executes the workflow in dependency order, each node once, and
\* reports completion only of a workflow that is complete.
ImplementsDag == DE!Spec

-----------------------------------------------------------------------------
\* What the tests and the documentation say and the code does not do.

\* AgenticDSL_v3.9.md, scheduling: wait_for supports any_of and all_of.  When
\* everything a node waits for and every predecessor has run, it runs before
\* the queue runs empty.
StaticWaitersRun ==
  phase = "check" /\ ready_queue = << >> /\ ~(current \in executed /\ HardEnd) =>
    \A p \in UserNodes(wf) :
       /\ WaitsOf(wf, p) # {}
       /\ \A e \in WaitsOf(wf, p) : Awaited(wf, e) \in executed
       /\ \A e \in EdgesInto(wf, p) : Source(wf, e) \in executed
       => p \in executed

\* test_basic.cpp, "Engine Execution (Simple DSL)": a workflow without an
\* entry runs, from its start node on.
StartsWithoutEntry ==
  phase = "check" /\ wf.entry = NoPath => executed \cap UserNodes(wf) # {}
==============================================================================
