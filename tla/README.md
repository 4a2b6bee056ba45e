# Verification of AgenticDSL

AgenticDSL runs workflows written as Markdown documents: a document is parsed
into graphs of nodes, the engine hands them to a topological scheduler, and the
scheduler runs node after node under a budget, keeping snapshots of the context
and a trace. This directory holds TLA+ modules that model that core, TLC
configurations that check them on small instances, and TLAPS proofs of the
invariants that matter most. Paths below are relative to `src/` of the
repository (`src/modules/...` is `src/src/modules/...` in `PROJECT.json`).

Run a check with `tlc -config MCScheduler.cfg MCScheduler`, a proof with
`tlapm TopoSchedulerProofs.tla`. `PROJECT.json` lists runs, theorems, the lines
each definition models (`map`), hazards and findings.

## 1. Inventory

| component | code | state | operations | talks to |
|---|---|---|---|---|
| DSLEngine | `core/engine.cpp` | `full_graphs_`, `last_traces_`, tools, LLM adapter | `from_markdown`, `run`, `continue_with_generated_dsl`, `append_graphs`, `get_last_traces` | makes a MarkdownParser per document and a TopoScheduler per run |
| MarkdownParser | `modules/parser/markdown_parser.cpp` | none | `parse_from_string`, `create_node_from_json` | its graphs are the scheduler's input |
| TopoScheduler | `modules/scheduler/topo_scheduler.cpp` | `node_map_`, `in_degree_`, `reverse_edges_`, `ready_queue_`, `executed_` | `register_node`, `build_dag`, `execute` | calls the session for each node, reads `full_graphs` for the entry |
| ExecutionSession | `modules/scheduler/execution_session.cpp` | owns the four below | `execute_node` | budget, context engine, trace exporter, node executor |
| ExecutionBudget, BudgetController | `core/types/budget.h`, `modules/budget/` | atomic counters, limits, start time | `try_consume_*`, `exceeded` | the session charges it, the scheduler asks for the time at the end |
| ContextEngine | `modules/context/context_engine.cpp` | snapshots, their order, a size estimate, two limits | `save_snapshot`, `enforce_snapshot_budget`, `set_snapshot_limits`, `merge` | the session saves before and after a node |
| NodeExecutor | `modules/executor/` | none of its own | one handler per node type, `check_permissions` | tools, models, templates; failures are exceptions, a jump is an exception text |
| TraceExporter | `modules/trace/trace_exporter.cpp` | the records | `on_node_start`, `on_node_end` | read by the engine after `execute` |
| system nodes | `modules/system/system_nodes.cpp` | none | three END nodes registered before the user's | scheduler |
| ToolRegistry | `common/tools/registry.cpp` | a table of tools, a table of LLM tools | `has_tool`, `call_tool`, `call_llm_tool`, registration before a run | called by node handlers |
| ResourceManager | `modules/scheduler/resource_manager.cpp` | the resources of a run | `register_resource`, `get_resources_context` | filled by `build_dag`, read by the session for every node |
| InjaTemplateRenderer | `common/utils/template_renderer.cpp` | none | `render`, which may throw | handlers, dynamic `wait_for`, prompts |
| StandardLibraryLoader, LLM tools and adapter | `modules/library/`, `common/llm/` | tables, a model | I/O, a foreign library | not modelled, see section 7 |

### What is hard here

* *Bookkeeping over a whole run.* In-degrees are counted per edge when the DAG
  is built and lowered per edge while it runs, but jumps clear the queue,
  asserts are retried, paths are redefined and queued twice. Whether a node is
  queued exactly when it should be depends on all of that.
* *Failure half way.* A node is charged, snapshotted and traced before it may
  throw; a refused node has already spent the unit of its model call; a run may
  throw before it has traces.
* *Retries.* An assert that fails jumps to a repair that leads back to it, and
  only the budget ends that.
* *Limits.* The snapshot store tests `>=` in one place and `>` in another, keeps
  an unsigned estimate, and lists a key again when it is saved again.
* *Order.* The completeness test merges two iterations of unordered sets, and
  without an entry the registration order picks the first node.
* *Interleaving.* The budget's counters are lock-free and meant for several
  threads. It is the only place: a run is one thread.
* *Values passed on.* Each node gets the context of the last one that succeeded,
  with resources injected; tools report failure by an answer and not by an
  exception; a failed node has no context, and its trace still has a delta.
* *Merging.* A join merges contexts one into the other, recursively, under
  policies found by path and by pattern, and may throw half way.
* *Life of an engine.* `run()` moves the budget out of the graphs, documents are
  appended between runs, traces outlive the scheduler that wrote them.

`PROJECT.json` lists each of these at its line under `hazards`.

### What makes each component correct

* *Budget*: a counter equals the calls it granted, is never overdrawn, refuses
  only when spent, and behaves as an atomic counter.
* *Snapshot store*: what is stored stays evictable and within the limits, the
  estimate covers it and never wraps, saving never costs another snapshot.
* *Session*: charges bound the work done, retries included; a snapshot never
  holds its own node's output; the trace is a complete account of the run.
* *Scheduler*: in-degrees are the pending edges, no wakeup is lost, nodes run
  once and in dependency order, "completed" means complete, runs end.
* *Engine*: limits outlive runs, a model call ends its run, traces are those of
  the last run, and what runs is the clone of a node as it was written.
* *Handlers, tools, resources*: a node changes its outputs only; the order of an
  unordered map does not show; the scheduler's view of the handlers covers them.
* *Trace deltas*: the deltas of a run replay it.
* *Merging*: what is overwritten, kept and lost is what the strategy says, in any
  order of branches and patterns where the policy leaves no choice.

## 2. Modules

```
Workflow ── NodeExecutor ── ExecutionSession ── TopoScheduler ── SchedulerProperties ──┐
   │                          │ INSTANCE ContextEngine              │ INSTANCE         DSLEngine
   │                          └ INSTANCE TraceExporter              └ DagExecution      │
   └── MarkdownParser ──────────────────────────────────────────────────────────────────┘
ExecutionBudget ─ INSTANCE BudgetCounter          UnexecutedCheck ─ INSTANCE FinalCheck (so does TopoScheduler)

Json ─┬─ ToolRegistry ── NodeHandlers ──┬── ContextFlow ─ INSTANCE NodeExecutor
      ├─ ResourceManager ───────────────┘        └ INSTANCE TraceDelta
      └─ JsonTree ── ContextMerge ── MergeProperties ─ INSTANCE ContextJoin
```

* **Workflow**: the data a run is given. A node keeps what scheduling can tell
  apart: path, type, successors, its `wait_for` (static dependencies, or the
  sets a template may render to), termination mode, `on_failure`, whether it
  asks for a snapshot, whether it has a `tool:` permission, and `said`, the paths
  that a text quoted by its failure may name after "Jumping to: " (a rendered
  condition, a model's error, a generated document). `CanBeParsed` says what
  parser and `clone()` can produce. Edges are pairs ⟨index of the source,
  position⟩, so that repeated edges and redefined nodes stay apart.
* **NodeExecutor**: for every type, whether the handler may return, throw, or
  throw the message that the scheduler takes for a jump. Written values are
  abstracted; `context` is the set of nodes whose output it holds. That this
  covers the handlers is `AbstractsHandlers` of `ContextFlow`, a theorem.
* **ContextEngine**: the snapshot store. The eviction loop runs one turn a step,
  and `call` is the call under way, so the middle of the loop is visible.
* **TraceExporter**: records with status and snapshot key.
* **ExecutionSession**: `execute_node` statement by statement: save, charge,
  open the record, run, save again, close. `ExecuteNode(n)` has an action for
  each statement and each early return.
* **TopoScheduler**: `register_node`, `build_dag`, the final scan, the entry, and
  `execute`. `phase` is the statement the thread has come to, `cursor` the
  position of the loop under way. One action per branch: `SkipExecuted`,
  `NodeNotFound`, `WaitUnmet`, `WaitUnresolved`, `CallSession`, `Jump`,
  `NodeFails`, `MarkExecuted`, `Pause`, `TerminateFlow`, `ReleaseSuccessor`,
  `DurationExceeded`, `ReportUnexecuted`, `Complete` and so on.
* **DagExecution**: the abstract promise. `Execute(p)` needs every dependency
  met unless `p` is the entry or a jump target;
  `Conclude("completed")` needs every user node executed; nothing happens after
  a verdict. The scheduler refines it with `verdict` mapped from `result`.
* **SchedulerProperties**: type invariant, safety, liveness and the statements
  of documents and tests that the code does not keep.
* **UnexecutedCheck** and **FinalCheck**: the walk of `std::set_difference` over two
  sequences in arbitrary order and the verdict after it, and the one step it
  implements: a missing node is always reported, and an executed one may be when
  more than one has run. The guards of `ReportUnexecuted` and `Complete` in
  `TopoScheduler` are those of `FinalCheck`.
* **ExecutionBudget** and **BudgetCounter**: one `try_consume_*` loop (load,
  check, weak compare-and-swap that may fail spuriously) for a set of threads,
  and the atomic counter it implements. The three methods are the same algorithm.
  `ExecutionSession` uses the counter atomically, as a run is one thread.
* **MarkdownParser** and **DSLEngine**: blocks become graphs and what is written
  becomes nodes (`CreateNode`: an unknown type makes none, a resource loses its
  successors), the document's budget goes to the first graph if there is one; the
  engine clones the nodes and runs, is continued with a generated document, and runs again.
  `SchedulerStep` is any step of `TopoScheduler`.
* **Json**: JSON values as records, and the text a template renders of one.
* **ToolRegistry**: the tables, the default tools, and the set of answers a call may
  give. A tool never throws: failures are objects with a field `error`.
* **ResourceManager**: registration in node order, the last of a path winning, and
  the injection under the key `resources`.
* **NodeHandlers**: the handlers with the values they read and write. A template is a
  text or shows one key; it throws where the key is missing. A handler is an
  operator from a node and a context to the set of results it may have. Its loops,
  like that of `ResourceManager` and the replay of deltas, are recursive functions of the number of
  turns, so that they can be proved about.
* **TraceDelta**: `calculate_context_delta`, and the merge patch a reader of a trace
  applies.
* **ContextFlow**: the context on its way through a run. `Execute(n)` is
  `ExecutionSession::execute_node` seen from the values: inject, run the handler,
  record the delta, take the context over. Which node comes next is left open, so
  that every order a scheduler could choose is covered; refusals by the budget,
  which end a run before a node has a record, are in `ExecutionSession`.
* **JsonTree**: a nested value as a tree, a function from the paths of its fields to
  what is there. Paths are of any length; `IsTree` says that every path leads through
  objects, `Before` is the order in which nested loops over sorted keys come to them.
* **ContextMerge**: `ContextEngine::merge`, and the loop of `finish_join_simulation`
  that merges one branch after the other. A step is a turn of the loop of
  `merge_recursive`, for one field of the branch: `AddField`, `MergeObjects` (the
  recursive call), `MergeField`, `Conflict`. The loops of the calls under way stand at
  the prefixes of the field's path, so `left`, the branch's paths that no turn has
  come to, is all there is to the recursion. A pattern of a policy is the text before its
  star: a path and the keys that may follow it, all of them for `a.*`, those that begin
  with `a` for `a*`. The loop has no caller that
  reaches it in a run (section 7), `merge` itself is a public operation.
* **ContextJoin**: the same join with one step for a branch; what a merge leaves and
  whether it throws is its constant operator `Merge`.
* **MergeProperties**: `Merge`, path by path and without a walk: where the branch
  conflicts, what it leaves, and that everything before the first conflict is merged
  and nothing behind it. `ContextMerge` implements `ContextJoin` with this operator.
  The other properties speak of the paths of values.

Definitions named `Bug...` are mutated forms of the definition that follows
them: a dropped guard, a missing reset, a skipped branch. They occur in no
specification; they show, one for every property, that the property can fail.

## 3. Runs

| run | instance | states | asks |
|---|---|---|---|
| `budget` | 3 threads, 2 calls each, limits -1, 0, 2, 3 | 6 306 | is the compare-and-swap loop an atomic counter? |
| `snapshots` | 3 keys, contexts of 1, 2 and 4 KB, four pairs of limits | 399 001 | limits, estimate and order of the store |
| `scheduler` | 16 hand-picked shapes under up to five budgets, and 2 048 workflows of three nodes | 78 034 | whole runs with every failure, and their end; in-degrees, wakeups and order in arbitrary graphs |
| `engine` | up to 3 runs and 3 graphs, six documents, five answers | 21 444 | the life of an engine |
| `merge` | every join of up to 2 of 27 branch contexts into 5 contexts under 9 policies | 258 956 | what a join overwrites, keeps, loses or leaves half merged |
| `flow` | up to 4 nodes of 5 programs in any order, 2 contexts, 4 tool tables | 208 874 | what nodes do to the context, and what traces say of it |
| `unexecuted` | all orders of all sets of up to 4 paths | 25 356 | what the final check can and cannot miss |

*Bounds and why they are enough.* Only `MaxCalls`, `MaxRuns`, `MaxGraphs`,
`MaxSteps` and `MaxBranches` bound anything; runs of the scheduler and of the
store are unbounded, their states are finite.

* `budget`: with limits 2 and 3 and six calls, threads meet the limit
  between another's check and swap, and one thread can fail its swap and find
  the budget spent; 0 and -1 are the edges.
* `snapshots`: limits ⟨0,4⟩, ⟨1,5⟩, ⟨3,4⟩ and ⟨2,8⟩ make either the count or the
  size bind, lower and raise both, and let one context fill the store. Three
  keys suffice for a key that is overwritten while an older and a newer exist.
* `scheduler`: a diamond, asserts with a repair, a jump that drops a ready node, a
  jump to oneself and to a path that does not exist, dynamic and static waits, a
  redefined node, failures that quote a jump to themselves or to a missing path,
  model calls, subgraph generation, forks, an unreachable node,
  a dangling edge, no entry and a wrong entry; node budgets from 0 to 4, and
  `Tight` and `Small`, in which the store, depth, calls or clock run out.
  The workflows of three nodes add every choice of at most two successors from a
  set with cycles, self loops and repeated edges, an assert in the middle and a
  static dependency.
* `engine`: three runs are needed to see state of the first in a run after an
  append. The answers redefine the calling node, add an unlinked node with a
  budget, make the DAG unbuildable, or do not parse; one document mixes types of
  which the parser drops or strips some, and one has a model whose error names a
  jump.
* `merge`: `MaxBranches` is two. Two keys nested twice give conflicts at a field,
  below it and after it, so that a throw has something merged before it; two
  branches are the least that can disagree (the theorems of section 5 are for any
  number and any depth). A policy with an exact path, a pattern over it and a
  default has every way to find a strategy; the keys `a` and `ab` make patterns `a*` and
  `a.*` that overlap, and `ab*` and `a.*` that do not. A field of the branches may be null.
* `flow`: a chain of three nodes can read what one wrote under a key that another
  overwrote, and a fourth can fail in between. The programs swap two keys, assign
  what may not render, ask tools that fail, are missing, or answer with a number, with
  null, with a text that names a jump or with a field nobody asked for, and use the key `resources` themselves.
* `unexecuted`: four elements have all relative orders the walk distinguishes
  between its two heads and what lies behind each.

`CHECK_DEADLOCK FALSE` is given for `budget`, where threads stop when their
calls are used up, and for `flow`, where a run may end after any node. A finished run, walk or engine stutters explicitly, and the store can
always be saved to.

### Properties

* `NeverOverdrawn`, `RefusedOnlyWhenSpent`, `ImplementsBudgetCounter`: no unit
  lost or paid twice, whatever the interleaving.
* `StoredIsListed`, `TotalCoversStored`, `KeptWithinLimits`,
  `SavingKeepsSnapshots`: although a key is listed more than once and the
  estimate drifts upwards, nothing becomes unevictable, the unsigned estimate
  does not wrap, and a save does not evict.
* `InDegreeIsPending`, `NoLostWakeup`: the counters mean what the queue takes
  them for, and a queue that runs empty has forgotten nothing.
* `ImplementsDag`: refinement of `DagExecution`.
* `AuditTrail`, `BudgetBoundsWork`, `SnapshotIsPreState`, `SnapshotKeysResolve`:
  session and scheduler agree. A key in a trace names a stored snapshot unless
  the store had to refuse one. The traces hold each executed node once; `max_nodes` and
  `max_llm_calls` bound attempts and not only successes. A model call is that of a
  `dsl_call` node throughout: the call a GENERATE_SUBGRAPH node makes
  (`node_executor.cpp:290`) is charged to no budget and does not pause the run.
* `Termination`: every run ends.
* `ModelCallEndsRun`, `TracesAreOfLastRun`,
  `BudgetIsNeverLifted`, `WrittenNodesRun`: over several runs of one engine. A
  `dsl_call` that ran is the last record of its run, or it failed and its
  error named a jump; after a run that threw, the traces shown are an earlier run's,
  which is the one exception the property makes; the last property relates what runs to what was written,
  through parser and `clone()`.
* `TracesReplay`, `OnlyOutputsChange`, `AssignOrderIsMoot`, `AbstractsHandlers`:
  the context of a run is the replay of the deltas of the nodes that succeeded; a
  node changes its declared outputs, the prompt and the resources, and deletes
  nothing; the order of an assign node's map is invisible; the handlers do nothing
  the scheduler's model does not expect.
* `ImplementsJoin`: refinement of `ContextJoin`; the recursion amounts to `Merge`.
* `OnlyMentionedChange`: in every turn of the recursion and after a throw, what the
  branch does not mention is untouched.
* `MergesAsPatch`: where every strategy overwrites, the branch is laid over the context,
  as by a merge patch of RFC 7396 if it has no nulls. With nulls under `deep_merge` code
  and documentation disagree (section 4), and the property says nothing.
* `NothingIsLost` supposes that only arrays differ under the strategies for arrays; of
  scalars that differ there, code and documentation disagree too.
* `NothingIsLost`, `RepeatIsHarmless`, `ConflictsAreSymmetric`,
  `PatternOrderIsMoot`: each says for which strategies it holds, and the strategies
  left out are those for which it does not.
* `NoneMissed`, `ExactWhenSorted`, `ImplementsFinalCheck`: what the final check can
  be trusted with, and that the scheduler trusts it with no more.

### Fairness

`FairSpec` adds `WF_vars(Next)`: a run is one thread that nothing blocks, and it
is scheduled as long as it can step. No fairness is assumed of an outcome: a
node may fail for ever. `Termination` therefore holds only where the code ends
by itself, and the workflows of the run are chosen so:

* a cycle through failing asserts, or through failures that quote a jump, is paid
  for by `max_nodes`; where a workflow
  of the run may repeat through a jump it has a node budget, except `Retry`
  without one, whose repair runs once and is then skipped;
* a dynamic `wait_for` names nodes that are already queued. A wait for anything
  else is polled for ever, spends nothing, and `max_duration_sec` is looked at
  only after the loop.

## 4. Findings

Each has a run that ends in a counterexample, and quotes the line it contradicts
in `PROJECT.json`.

| run | what the code does |
|---|---|
| `static_waiters` | a static `wait_for` raises the in-degree and nothing lowers it: the node never runs |
| `no_entry` | without an entry the first ready node is the hard end `/__system__/budget_exceeded`, so no user node runs |
| `unexecuted_exact` | `set_difference` over unordered sets reports executed nodes as unexecuted. With libstdc++ the paths of the repository's "Cross-Graph Edge Execution" test are such a case |
| `snapshot_fifo` | a full store drops the new snapshot and evicts nothing |
| `appended` | a node appended after a pause, which no edge leads to, never runs: the next run starts at the entry and pauses at the same call. `test_engine.cpp` expects it to run |

Other differences met while reading, without a run:

* scheduling: a refused budget returns a failure, and the jump to
  `/__system__/budget_exceeded` that `AgenticDSL_RTGuide.md` and `AgenticDSL_v3.9.md`
  describe has no caller; fork and join nodes always throw; an unmet dynamic wait is polled;
  `max_llm_calls >= 1` refuses nothing unless a failed call's error sends it round
  again, because a run pauses at its first successful call and the counters start
  again with the next run; a failure that quotes "Jumping to: " is taken for a jump,
  whatever failed;
  `continue_with_generated_dsl` accepts any path;
* snapshots and traces: saving a key twice, as a successful assert does, counts
  its size twice for good; a trace may name a snapshot the store refused;
  `max_snapshots: -1` means ten; the delta of a failed node marks every key of the
  context as deleted; a null and a missing key have the same delta;
* merging: the `array_*` strategies throw for scalars that differ, which
  `AgenticDSL_RTGuide.md` lets them overwrite; under `deep_merge`, documented as
  RFC 7396, a null is stored instead of deleting the key (the properties leave both
  cases out); `error_on_conflict` throws for two
  arrays even if they are equal; `finish_join_simulation` reads an optional it has
  just reset, so that it throws after merging;
* nodes: `ResourceNode::clone` drops permissions and a resource's `next` is not
  read; the prompt of a GENERATE_SUBGRAPH node stays in the context; the answer of
  a failed tool is stored like any other.

## 5. Proofs

TLC finds out whether a formula holds on a small instance; the theorems hold for
every value of the constants. The assumptions are the named `ASSUME`s
(`BudgetAssumption`, `ContextAssumption`, `ListingAssumption`,
`WorkflowAssumption`, `ContextKbAssumption`, `EngineAssumption`,
`DocumentAssumption`, `ToolAssumption`, `JumpAssumption`, `FlowAssumption`,
`KeyAssumption`, `MergeAssumption`), which TLC evaluates in the runs.

| module | theorem | establishes |
|---|---|---|
| `ExecutionBudgetProofs` | `Typing`, `BudgetHolds`, `RefusalsAreRight`, `Refinement` | `TypeOK`; `NeverOverdrawn`; `RefusedOnlyWhenSpent`; `ImplementsBudgetCounter` |
| `ContextEngineProofs` | `Typing`, `StoredIsEvictable`, `EstimateIsSafe`, `StoreIsBounded`, `SavingKeeps` | `TypeOK` (so the estimate never wraps); `StoredIsListed`; `TotalCoversStored`; `KeptWithinLimits`; `SavingKeepsSnapshots` |
| `UnexecutedCheckProofs` | `NothingIsMissed`, `RightWhenSorted`, `Refinement` | `NoneMissed`; `ExactWhenSorted`; `ImplementsFinalCheck` |
| `TopoSchedulerProofs` | `Typing`, `InDegrees`, `Wakeups`, `Refinement` | `SchedulerTypeOK`; `InDegreeIsPending`; `NoLostWakeup`; `ImplementsDag` |
| `SessionProofs` | `RunTyping`, `TracesAudit`, `BudgetsBound`, `KeysResolve`, `SnapshotsArePreStates` | `TypeOK` of a run; `AuditTrail`; `BudgetBoundsWork`; `SnapshotKeysResolve`; `SnapshotIsPreState` |
| `DSLEngineProofs` | `EngineTyping`, `CallsEndRuns`, `LinkedNodes`, `LastTraces`, `WrittenNodes`, `BudgetStays` | `EngineTypeOK`; `ModelCallEndsRun`; why `appended` fails: in any engine an appended node without an edge to it does not run (`OnlyLinkedNodesRun`); `TracesAreOfLastRun`; `WrittenNodesRun`; `BudgetIsNeverLifted` |
| `ContextFlowProofs` | `FlowTyping`, `DeltasReplayRuns`, `HandlersAbstracted`, `OutputsOnly`, `OrderIsMoot`; `DeltaIsDifference`, `DeltaReplays` | `TypeOK` of a flow; `TracesReplay`; `AbstractsHandlers`; `OnlyOutputsChange`; `AssignOrderIsMoot`; a delta lists the keys that differ and no other, and applied to a node's context it makes the one the node left, up to nulls |
| `ContextMergeProofs` | `TypeCorrect`, `WalkImplementsJoin`, `SparedAreKept`, `OverwritingPatches`, `MergingIsIdempotent`, `NoWriteIsLost`, `PatternsCommute`, `BranchesCommute` | `TypeOK` of a merge; `ImplementsJoin`; `OnlyMentionedChange`; `MergesAsPatch`; `RepeatIsHarmless`; `NothingIsLost`; `PatternOrderIsMoot`; `ConflictsAreSymmetric` |

*Budget.* A thread about to swap holds a value the limit admits. With "the
counter is the number of grants" and "a started call is not decided yet" this is
inductive; refusals stay right because the counter only grows.

*Snapshot store.* None of the properties is inductive alone. That an eviction
does not wrap the estimate needs `TotalCoversStored`, which needs the
stored set finite; that limits hold after the loop needs that a loop which
stops on an empty order has nothing stored, hence `StoredIsListed`; that a save
evicts nothing needs that a save under way starts within the limits
(`NothingToEvict`). The invariant is the conjunction of these.

*Final check.* `NoneMissed` is inductive with the types: the walk passes an
element only by reporting it or by meeting its equal. Exactness over sorted
ranges needs that everything executed and passed is smaller than the
present element (`SortedWalk`), and for one executed node `SingleStep`. The same
invariant gives the refinement: by `NoneMissed` an empty report means that all
have run, by `SingleStep` a wrong one that more than one has, so the verdict is a
step of `FinalCheck` and every turn of the walk a stutter.

*Context flow.* The properties are about loops over data of any length: over the
templates of an assign node, the resources of a workflow, the deltas of a run. What
such a loop computes is proved from the function it is: that a function satisfying
the equations exists, and that every number of turns has the claimed result, are
inductions over the set of numbers for which they hold (`InductiveSet`). The lemmas
say what is left of the loop:

* `AssignedTogether`: if no two templates write one key with different results, the
  context after the loop has for every key its template rendered in the context
  *before* the loop, in whatever order; that is `AssignOrderIsMoot`, since a map
  has each key once;
* `LastDeclarationCounts`: of a path declared twice the last resource is injected;
* `ReplayOfOneMore`: a longer replay is the replay with one more delta applied.

`OnlyOutputsChange` and `AbstractsHandlers` have a lemma for each kind of handler
(`AssignSound`, `ToolCallSound`, `DslNodeSound`, `GenerateSound`, `AssertSound`): a
result extends the context it was given by the node's own keys, and its
outcome is one that `NodeExecutor` allows. `ToolAnswers` is what they need of the
registry: whatever tool is called, registered or not, there is an answer.

`TracesReplay` compares contexts up to what a reader cannot see, the injected keys and
nulls, and a delta is computed from contexts that hold both. `FlowInv` therefore
says that what a reader has replayed shows the context (`Shown`) and holds no null
(`NullFree`); the step is `DeltaShows`: what a delta deletes is what is gone or has
become null, so patching keeps what is shown. Failed records are passed over, because
the context of the run does not change with them.

*Scheduler.* `InDegreeIsPending` fails to be inductive by itself: the step
that lowers an in-degree must know that the edge it releases was pending, that
the count does not go below zero, and that the last index registered for a path
does not change any more. The invariant `IInv` is `SchedulerTypeOK` with

* `Registering`, `BeforeLoop`, `Built`: what `node_map` and `in_degree` hold
  while nodes are registered and once the DAG is built;
* `Counted`: `InDegreeIsPending` where the loop can be;
* `QueueAllowed`: every queued path is the entry, a jump target, or has an
  in-degree of zero;
* `CurrentPlaced`, `JumpKnown`: the node being executed came from the queue and
  was not executed before, and a jump has a target;
* `Ended`: there is a result exactly when the run is over.

The dependency order then follows: an in-degree of zero leaves no edge pending,
so every source has run. Each action of `Next` has a step of its own in the
proof, and the session's actions are one step, since the session changes
none of the scheduler's variables but `phase`.

*Wakeups.* `NoLostWakeup` speaks of an empty queue, and most steps start and end
elsewhere. `Woken` is its inductive form: in a workflow without jumps, a path
whose predecessors have all released it and that waits for nothing else has been
executed, is in the queue, or is the one the loop has in hand. Jumps are excluded
as in the property, because a jump clears the queue.

*Session.* The properties speak of four variables that one `execute_node`
changes in turn, so `SessionInv` says for each phase what already happened:

* `SavePending`: a save under way is the one that its phase asks for;
* `Answered`: a record that is about to be closed has an answer;
* `Accounted`: the record that is open is the last one and of the current node;
  the successful ones are the executed nodes, each once, and the current node
  while its record is closed and it is not marked yet (`AuditTrail`);
* `Spent`: the node counter is the number of records, the model counter at least
  that of model calls with a record, as a refused node may have spent one
  without, and neither passes its limit (`BudgetBoundsWork`);
* `Resolved`: a key in a record is stored, or the store has refused one. That a
  save never evicts is used here: the invariant of `ContextEngineProofs` is
  a conjunct (`StoreInv`) and its step lemmas are cited through an instance.

`PreState` (a snapshot does not hold the output of its node) is kept apart: it
supposes that the context a run is given holds no node's output, which is so for
`run()` of a workflow and not for an engine that is run again with the context it
ended with. The other conjuncts do not need that and are used for every run.

*Engine.* Every run starts from a state in which the scheduler's and session's
invariants hold (`FreshIInv`, `UnservedSessionInv`), so a step of a run is
theirs and the engine's own steps re-establish them. That needs that any
document gives a workflow (`WorkflowTyped`): the nodes are a `FlattenSeq` of lists
of at most one element, a recursive function, and `FlattenTyped` types it by an
induction of first order, over the set of numbers for which the claim holds
(`InductiveSet`). What a run adds is `RunInv`:

* `QueueLinked`: with an entry, what is executed, queued or in hand is the entry, a
  jump target or a successor of an executed node (`LinkedNodes`);
* `CallsSettled`: a model's record that is not the last one failed, and its node
  has a text to jump by; the last one is known to be the current node's until the
  loop has decided how to go on (`ModelCallEndsRun`);
* `ThrewEarly`: a run that throws has executed nothing, and `LastRegistered`: the
  node that runs is the last one written under its path (`WrittenNodesRun`).

`EngineInv` adds that graphs are what the parser makes, and that a run works on
them until it is over and its records are then the ones shown. `BudgetIsNeverLifted`
needs no invariant of a run: whatever is appended, the first graph with a
budget stays the first (`AppendedBudget`, `TakenBudget`).

*Merging.* The properties speak of whole merges and `merge_recursive` goes field by
field. `WalkAt(t, s, p, L, m)` is the invariant between: of the branch `s` the paths `L`
are left, the others come before all of them and met no conflict, and the context `m` is
what they make, laid over `t`, the context the merge began with. A turn either takes
a path with all that is below it (`TakenWhole`) or opens the object there (`Opened`).
At a conflict, what is done is exactly what precedes every conflict (`EarlyIsDone`),
hence `Merge` and the refinement: turns are stutters, and the end of a branch, a
conflict and a branch that is no object are steps of `ContextJoin`. `IInv` adds that
the last merge and all merges so far were `Merge` (`LastMerge`, `AllMerges`). What the
properties need is then about `Merge` alone, for trees of any depth:

* `RepeatIsHarmless`: merged again, a value stays (`MergeValueAgain`), so what was laid
  is laid again (`LaidAgain`) and the conflicts there were remain (`ConflictsRemain`);
* `NothingIsLost`: that a value keeps what another says (`Kept`) is an order, and
  merging goes up in it. `Saving` carries it from branch to branch, and through a walk
  that a conflict ends, for what is not merged yet is still the context before;
* `PatternOrderIsMoot`: if the patterns that match one path of a branch agree, which is
  its hypothesis, the path has its strategy in either order
  (`StrategyOfReordered`), and joins of equal strategies are equal (`SameJoins`);
* `ConflictsAreSymmetric`: under `error_on_conflict` a join succeeds exactly if no two of
  the base and the branches clash, and then unites them (`StrictJoin`); neither depends
  on an order (`PeaceReversed`, `UnitedReversed`).

The loops, `MergeUnique` and `Joins`, are recursive functions of the number of turns,
with the inductions of first order described above.

*What the theorems leave to the assumptions.* `WorkflowAssumption` and
`DocumentAssumption` say what the parser can produce and what a document can
write: paths of the system are not user paths, a static and a dynamic `wait_for`
exclude each other, only an assert has a target for its failure. `FlowAssumption`
says that nodes have the fields their type writes, with one prompt or condition
where the handler renders one, each key of an assign node once (it is a map), and
that a run is given a JSON object; `ToolAssumption` that tools answer with JSON,
`JumpAssumption` that a text which names a jump names a path; `KeyAssumption` that
keys are ordered as numbers are, `MergeAssumption` that policies and contexts are
well formed. None bounds the length of a document or of a run, the depth of a
context, the number of branches, or the value of a limit.

## 6. Only model-checked

`Termination`: liveness under fairness is beyond the prover. Every other property of
a passing run is a theorem.

## 7. Not modelled

* The simulated forks and joins of the scheduler and the rebuild of the DAG for
  dynamic graphs: no run reaches them, since fork and join nodes throw in
  the executor and no one calls the append callback. Only the merging loop at the
  end of a join is, because it shows what `merge` is for. `pending_dynamic_deps_`
  is never filled; `load_graphs`, `set_budget` and `execute_llm_call` have no caller.
* The text of messages, but for one thing: whether the scheduler finds "Jumping to: "
  in it, and with which path (`Workflow.JumpTargets`, `NodeHandlers.Quoting`). Left
  out are a text that ends with the colon, for which `substr` throws out of
  `execute`, and messages that quote a template's own text or the name of a permission.
* Widths of budget fields: `get<int>` truncates what a document holds, and a size of
  -1 becomes the largest there is. Documents of the models hold limits that fit.
* Templates beyond a text or one key: inja's statements, filters and functions.
* Parameters of model calls: `call_llm_tool` takes a parameter equal to the
  library's default for one that was not given.
* The list of libraries in a prompt, and with it the schema of a dynamic graph that
  `execution_session.cpp:55` reads from an optional that may be empty.
* Errors of malformed metadata while a node is created: a `broken` block stands
  for all of them.
* Times and budget texts of traces; the clock is a nondeterministic answer at the
  end of a run.
* The library loader (file input) and the LLM tools and adapter (a binding of a
  foreign library: tokens, sampling, its cache); a model's answer is a member of
  `CallLlmTool`.

## 8. Plan

Built first, because everything else rests on them: the two stores
(`ExecutionBudget`, `ContextEngine`), then data, session and scheduler, then the
abstract specification, the final check and the engine, then values: merging,
handlers, tools, resources, deltas; the proofs followed the same order, merging last.
The plan is done. What could follow is the merging of model parameters in
`call_llm_tool` and the extraction of blocks from a document's text (section 7).
