------------------------------- MODULE Workflow -------------------------------
(***************************************************************************)
(* What the scheduler is given: the nodes of a parsed workflow, its entry  *)
(* point and its budget, and the dependency edges these describe.  A       *)
(* workflow is a record [nodes, entry, budget]; a node keeps of its source *)
(* what scheduling can tell apart.                                         *)
(***************************************************************************)
EXTENDS Integers, Sequences, FiniteSets

CONSTANTS UserPath,     \* node paths the workflows use
          NoPath,       \* std::nullopt for a path
          Workflows     \* the workflows that may be run

BudgetExceeded == "/__system__/budget_exceeded"
EndSoft == "/__system__/end_soft"
Noop == "/__system__/noop"

SystemPath == {BudgetExceeded, EndSoft, Noop}
Path == UserPath \cup SystemPath

NodeType == {"START", "END", "ASSIGN", "DSL_CALL", "TOOL_CALL", "RESOURCE",
             "FORK", "JOIN", "GENERATE_SUBGRAPH", "ASSERT"}

\* wait_for: the static dependencies, any_of and all_of alike, in order.
\* renders: the dependency sets a dynamic (string) wait_for may render to;
\*   empty when the node has none.
\* mode: metadata.termination_mode.  snapshot: whether metadata asks for one.
\* guarded: the node has a "tool:" permission.
\* said: the paths a text may name after "Jumping to: " that ends up in the
\*   message of the node's failure: its condition renders to it, or the
\*   model's error or document has it.
NodeRecord == [path : Path, type : NodeType, next : Seq(Path),
               wait_for : Seq(Path), renders : SUBSET SUBSET Path,
               mode : {"hard", "soft"}, on_failure : Path \cup {NoPath},
               snapshot : BOOLEAN, guarded : BOOLEAN, said : SUBSET Path]

\* ExecutionBudget without its counters; engaged is has_value().
Budget == [engaged : BOOLEAN, max_nodes : Int, max_llm_calls : Int,
           max_subgraph_depth : Int, max_duration_sec : Int,
           max_snapshots : Int, snapshot_max_size_kb : Nat]

\* The entry of /main, NoPath when its metadata has none.
WorkflowRecord == [nodes : Seq(NodeRecord), entry : Path \cup {NoPath}, budget : Budget]

Quotes(n) == n.type \in {"ASSERT", "DSL_CALL", "GENERATE_SUBGRAPH"}

\* What the parser and clone() can produce: a wait_for is either static or a
\* string, resource nodes keep neither successors nor permissions, only
\* asserts have a target for their failure, and only theirs and the failures of
\* nodes that ask a model quote what they were given.
CanBeParsed(n) == /\ n.renders = {} \/ n.wait_for = << >>
                  /\ n.type = "RESOURCE" => n.next = << >> /\ ~n.guarded
                  /\ n.on_failure # NoPath => n.type = "ASSERT"
                  /\ n.said # {} => Quotes(n)

IsWorkflow(w) == w \in WorkflowRecord /\ \A i \in DOMAIN w.nodes : CanBeParsed(w.nodes[i])

ASSUME WorkflowAssumption == /\ NoPath \notin Path
                             /\ UserPath \cap SystemPath = {}
                             /\ \A w \in Workflows : IsWorkflow(w)

SystemEnd(path, mode) ==
  [path |-> path, type |-> "END", next |-> << >>, wait_for |-> << >>, renders |-> {},
   mode |-> mode, on_failure |-> NoPath, snapshot |-> FALSE, guarded |-> FALSE,
   said |-> {}]

\* create_system_nodes
SystemNodes == <<SystemEnd(BudgetExceeded, "hard"), SystemEnd(EndSoft, "soft"),
                 SystemEnd(Noop, "soft")>>

\* The nodes in the order DSLEngine::run registers them.
AllNodes(w) == SystemNodes \o w.nodes

Registered(w) == {AllNodes(w)[i].path : i \in DOMAIN AllNodes(w)}

\* The paths of the final check for unexecuted nodes.
UserNodes(w) == Registered(w) \ SystemPath

\* An edge is a pair of a node's index and a position in its list.
NextEdges(w) == UNION {{i} \X DOMAIN AllNodes(w)[i].next : i \in DOMAIN AllNodes(w)}
WaitEdges(w) == UNION {{i} \X DOMAIN AllNodes(w)[i].wait_for : i \in DOMAIN AllNodes(w)}

Source(w, e) == AllNodes(w)[e[1]].path
Target(w, e) == AllNodes(w)[e[1]].next[e[2]]
Awaited(w, e) == AllNodes(w)[e[1]].wait_for[e[2]]

EdgesInto(w, p) == {e \in NextEdges(w) : Target(w, e) = p}
WaitsOf(w, p) == {e \in WaitEdges(w) : Source(w, e) = p}

\* build_dag accepts the workflow.
WellFormed(w) == /\ \A e \in NextEdges(w) : Target(w, e) \in Registered(w)
                 /\ \A e \in WaitEdges(w) : Awaited(w, e) \in Registered(w)

\* Where a failure of a node may lead: what follows "Jumping to: ".
JumpTargets(n) == ({n.on_failure} \cup n.said) \ {NoPath}

\* Paths that may be put in the queue whatever their in-degree: the entry and
\* the targets of jumps.
Forced(w) == ({w.entry} \ {NoPath}) \cup UNION {JumpTargets(w.nodes[i]) : i \in DOMAIN w.nodes}
==============================================================================
