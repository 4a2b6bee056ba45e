------------------------------- MODULE DSLEngine -------------------------------
(***************************************************************************)
(* The engine over its life: it is made from a document, run, given the    *)
(* document a model generated, and run again.  Every run is a scheduler of *)
(* its own; the graphs, and the traces of the last run, stay.              *)
(***************************************************************************)
EXTENDS SchedulerProperties, MarkdownParser

CONSTANTS Generated,      \* the documents that may be appended
          MaxRuns, MaxGraphs

ASSUME EngineAssumption == Generated \subseteq Documents /\ MaxRuns \in Nat /\ MaxGraphs \in Nat

VARIABLES full_graphs,    \* full_graphs_
          last_traces,    \* last_traces_
          runs            \* how many times run() was called

engineVars == <<full_graphs, last_traces, runs>>
allVars == <<vars, engineVars>>

-----------------------------------------------------------------------------

WithBudget(gs) == {i \in DOMAIN gs : gs[i].budget.engaged}
WithEntry(gs) == {i \in DOMAIN gs : gs[i].main /\ gs[i].entry # NoPath}
FirstOf(found) == CHOOSE i \in found : \A j \in found : i <= j

BudgetOf(gs) == IF WithBudget(gs) = {} THEN Unlimited ELSE gs[FirstOf(WithBudget(gs))].budget
EntryOf(gs) == IF WithEntry(gs) = {} THEN NoPath ELSE gs[FirstOf(WithEntry(gs))].entry

BugClone(n) == [n EXCEPT !.next = IF n.type \in {"END", "RESOURCE"} THEN << >> ELSE @,
                         !.guarded = @ /\ n.type # "RESOURCE"]

\* clone() of the node types: a resource loses its permissions.
Clone(n) == IF n.type = "RESOURCE" THEN [n EXCEPT !.next = << >>, !.guarded = FALSE] ELSE n

NodesOf(gs) == Lists!FlattenSeq([i \in DOMAIN gs |-> gs[i].nodes])

\* What a run is given: a clone of every node of every graph, the first
\* budget, and the first entry of a graph /main.
WorkflowOf(gs) == [nodes |-> [i \in DOMAIN NodesOf(gs) |-> Clone(NodesOf(gs)[i])],
                   entry |-> EntryOf(gs), budget |-> BudgetOf(gs)]

BugMovedFrom(b) == Unlimited

\* The optional a budget is moved out of stays engaged, and the move
\* constructor copies the limits: only the counters start again.
MovedFrom(b) == b

TakeBudget(gs) == IF WithBudget(gs) = {} THEN gs
                  ELSE [gs EXCEPT ![FirstOf(WithBudget(gs))].budget = MovedFrom(@)]

-----------------------------------------------------------------------------

\* The engine before its first run.
EngineInit ==
  /\ \E d \in Documents : /\ Parses(d) /\ \E i \in DOMAIN Parse(d) : Parse(d)[i].main
                          /\ full_graphs = Parse(d)
  /\ last_traces = << >> /\ runs = 0
  /\ wf = WorkflowOf(full_graphs)
  /\ phase = "done" /\ result = "running" /\ context = {}
  /\ SessionInit
  /\ cursor = 1 /\ node_map = [p \in {} |-> 0] /\ in_degree = [p \in {} |-> 0]
  /\ ready_queue = << >> /\ current = NoPath /\ executed = {}

FreshStore(budget) ==
  /\ snapshots' = [k \in {} |-> {}] /\ snapshot_order' = << >> /\ current_total_size_kb' = 0
  /\ max_snapshots' = IF budget.engaged /\ budget.max_snapshots >= 0
                      THEN budget.max_snapshots ELSE 10
  /\ max_snapshot_size_kb' = IF budget.engaged THEN budget.snapshot_max_size_kb ELSE 512
  /\ call' = CE!Idle

FreshCounters ==
  /\ outcome' = "none"
  /\ nodes_used' = 0 /\ llm_calls_used' = 0 /\ subgraph_depth_used' = 0
  /\ traces' = << >>

BugFreshScheduler ==
  /\ cursor' = 1 /\ node_map' = [p \in {} |-> 0] /\ in_degree' = [p \in {} |-> 0]
  /\ ready_queue' = << >> /\ current' = NoPath /\ executed' = executed

FreshScheduler ==
  /\ cursor' = 1 /\ node_map' = [p \in {} |-> 0] /\ in_degree' = [p \in {} |-> 0]
  /\ ready_queue' = << >> /\ current' = NoPath /\ executed' = {}

\* run() begins: with a context of the caller's, here an empty one or the one
\* the last run left.
Run(ctx) ==
  /\ phase = "done" /\ runs < MaxRuns
  /\ wf' = WorkflowOf(full_graphs)
  /\ full_graphs' = TakeBudget(full_graphs)
  /\ FreshScheduler /\ FreshCounters /\ FreshStore(BudgetOf(full_graphs))
  /\ context' = ctx
  /\ phase' = "register" /\ result' = "running"
  /\ runs' = runs + 1
  /\ UNCHANGED last_traces

BugSchedulerStep ==
  /\ phase # "done"
  /\ Next
  /\ last_traces' = IF result' \in {"completed", "paused"} THEN traces' ELSE last_traces
  /\ UNCHANGED <<full_graphs, runs>>

\* The traces are taken over when execute returns, not when build_dag throws.
SchedulerStep ==
  /\ phase # "done"
  /\ Next
  /\ last_traces' = IF phase' = "done" /\ result' # "threw" THEN traces' ELSE last_traces
  /\ UNCHANGED <<full_graphs, runs>>

\* continue_with_generated_dsl; a document that does not parse changes nothing.
Continue(d) ==
  /\ phase = "done"
  /\ Parses(d)
  /\ Len(full_graphs \o Parse(d)) <= MaxGraphs
  /\ full_graphs' = full_graphs \o Parse(d)
  /\ UNCHANGED <<vars, last_traces, runs>>

\* The caller has no more to ask.
Rest == phase = "done" /\ UNCHANGED allVars

EngineNext == \/ \E ctx \in {{}, context} : Run(ctx)
              \/ SchedulerStep
              \/ \E d \in Generated : Continue(d)
              \/ Rest

EngineSpec == EngineInit /\ [][EngineNext]_allVars

-----------------------------------------------------------------------------

\* Every variable of an engine keeps its type.
EngineTypeOK ==
  /\ TypeOK
  /\ full_graphs \in Seq(Graph)
  /\ runs \in 0..MaxRuns

\* A limit that was set holds for every run: neither running, which moves the
\* budget out of the graphs, nor continuing lifts or replaces it.
BudgetIsNeverLifted ==
  [][BudgetOf(full_graphs).engaged => BudgetOf(full_graphs)' = BudgetOf(full_graphs)]_allVars

\* The model call of a dsl_call node is the last thing a run does, however the
\* workflow goes on after it and whatever was appended: so no run gets two
\* answers.  Only a call that failed with a text the scheduler takes for a jump
\* lets the run go on.
ModelCallEndsRun ==
  \A i \in DOMAIN traces :
     LET p == traces[i].node_path IN
       p \in DOMAIN node_map /\ NodeAt(p).type = "DSL_CALL" =>
         \/ i = Len(traces)
         \/ traces[i].status = "failed" /\ JumpTargets(NodeAt(p)) # {}

\* The run works on what was written: past registration, every path stands for
\* the last definition any document of the engine has given it, in all that
\* scheduling, snapshots and permissions look at.
WrittenNodesRun ==
  phase \notin {"register", "done"} =>
    \A i \in DOMAIN NodesOf(full_graphs) :
       LET n == NodesOf(full_graphs)[i]
       IN (\A j \in DOMAIN NodesOf(full_graphs) : NodesOf(full_graphs)[j].path = n.path => j <= i)
          => LET m == NodeAt(n.path)
             IN n = IF n.type = "RESOURCE" THEN [m EXCEPT !.guarded = n.guarded] ELSE m

Ran(ts) == {ts[i].node_path : i \in {j \in DOMAIN ts : ts[j].status = "success"}}

\* What get_last_traces shows after a run is the account of that run alone,
\* of every node it executed and of nothing an earlier run did; only a run
\* that throws before executing leaves the account of an earlier one.
TracesAreOfLastRun ==
  phase = "done" /\ runs > 0 =>
    IF result = "threw" THEN executed = {} ELSE Ran(last_traces) = executed

-----------------------------------------------------------------------------
\* What a test says and the code does not do.

\* test_engine.cpp, "Engine appends and executes generated DSL": after a
\* document is appended, another run that succeeds has executed its nodes.
AppendedNodesRun ==
  runs > 1 /\ result \in {"completed", "paused"} =>
    \A d \in Documents, g \in Generated :
       full_graphs = Parse(d) \o Parse(g) /\ wf = WorkflowOf(full_graphs) =>
         \A i \in DOMAIN NodesOf(Parse(g)) : NodesOf(Parse(g))[i].path \in executed
==============================================================================
