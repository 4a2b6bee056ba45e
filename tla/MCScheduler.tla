----------------------------- MODULE MCScheduler -----------------------------
(***************************************************************************)
(* Workflows for TLC: the shapes of the repository's tests, and the ones   *)
(* no test has: retries, self jumps, duplicates, unmet and failing waits;  *)
(* and every small graph.                                                  *)
(***************************************************************************)
EXTENDS SchedulerProperties

MCUserPath == {"a", "b", "c", "d"}

\* Every node output adds one KB to a context.
MCContextKb == [ctx \in SUBSET Path |-> 1 + Cardinality(ctx)]

Plain(path, type, next) ==
  [path |-> path, type |-> type, next |-> next, wait_for |-> << >>, renders |-> {},
   mode |-> "hard", on_failure |-> NoPath, snapshot |-> FALSE, guarded |-> FALSE, said |-> {}]
Assert(path, next, target) == [Plain(path, "ASSERT", next) EXCEPT !.on_failure = target]
Static(path, next, deps) == [Plain(path, "ASSIGN", next) EXCEPT !.wait_for = deps]
Dynamic(path, next, renders) == [Plain(path, "ASSIGN", next) EXCEPT !.renders = renders]
Rollback(path, next) == [Plain(path, "TOOL_CALL", next) EXCEPT !.snapshot = TRUE, !.guarded = TRUE]
Soft(path) == [Plain(path, "END", << >>) EXCEPT !.mode = "soft"]
End(path) == Plain(path, "END", << >>)

NoBudget == [engaged |-> FALSE, max_nodes |-> -1, max_llm_calls |-> -1,
             max_subgraph_depth |-> -1, max_duration_sec |-> -1,
             max_snapshots |-> -1, snapshot_max_size_kb |-> 512]
Nodes(n) == [NoBudget EXCEPT !.engaged = TRUE, !.max_nodes = n]

Run(nodes, entry, budget) == [nodes |-> nodes, entry |-> entry, budget |-> budget]

-----------------------------------------------------------------------------

\* a fans out to b and c, which meet in d.
Diamond == <<Plain("a", "ASSIGN", <<"b", "c">>), Rollback("b", <<"d">>),
             Plain("c", "TOOL_CALL", <<"d">>), End("d")>>
\* b is retried after the repair c, as the entry of the run.
Retry == <<Assert("b", <<"d">>, "c"), Plain("c", "ASSIGN", <<"b">>), End("d")>>
\* A jump away from the ready node c.
JumpAway == <<Plain("a", "START", <<"b", "c">>), Assert("b", <<"d">>, "d"),
              Plain("c", "ASSIGN", <<"d">>), End("d")>>
SelfJump == <<Assert("a", <<"b">>, "a"), End("b")>>
JumpToNowhere == <<Assert("a", << >>, "d")>>
\* An assert whose condition may render to a jump to c or d, and a model whose
\* error sends its own call round again or to a path that is not there.
Hearsay == <<Plain("a", "START", <<"b", "c">>),
             [Plain("b", "ASSERT", <<"d">>) EXCEPT !.said = {"c", "d"}],
             Plain("c", "ASSIGN", <<"d">>), End("d")>>
ModelSays == <<Plain("a", "START", <<"b">>),
               [Plain("b", "DSL_CALL", <<"d">>) EXCEPT !.said = {"b", "c"}], End("d")>>
\* c waits for b by an expression.
DynamicWait == <<Plain("a", "ASSIGN", <<"c", "b">>), Plain("b", "ASSIGN", << >>),
                 Dynamic("c", <<"d">>, {{"b"}}), Soft("d")>>
ModelCall == <<Plain("a", "START", <<"b">>), Plain("b", "DSL_CALL", <<"d">>), End("d")>>
Generate == <<Plain("a", "GENERATE_SUBGRAPH", <<"b">>), Plain("b", "GENERATE_SUBGRAPH", <<"d">>),
              End("d")>>
\* Continuing a run appends a graph that defines b again.
Redefined == <<Plain("a", "ASSIGN", <<"b">>), Plain("b", "ASSIGN", <<"c">>), End("c"),
               Plain("b", "ASSIGN", <<"d">>), Plain("d", "ASSIGN", <<"c">>)>>
SoftThenMore == <<Plain("a", "ASSIGN", <<Noop, "b", "b">>), Plain("b", "ASSIGN", <<BudgetExceeded>>)>>
StaticWait == <<Plain("a", "ASSIGN", <<"b">>), Plain("b", "ASSIGN", << >>), Static("c", << >>, <<"b">>)>>
Unreached == <<Plain("a", "ASSIGN", <<"b">>), Soft("b"), Plain("c", "RESOURCE", << >>)>>
ForkJoin == <<Plain("a", "FORK", <<"b">>), Plain("b", "JOIN", <<"d">>), End("d")>>
Dangling == <<Plain("a", "ASSIGN", <<"b">>)>>

Tight == [Nodes(3) EXCEPT !.max_llm_calls = 0, !.max_subgraph_depth = 1,
                          !.max_snapshots = 1, !.snapshot_max_size_kb = 3]
Small == [Nodes(4) EXCEPT !.max_duration_sec = 60, !.max_snapshots = 2,
                          !.max_llm_calls = 1, !.snapshot_max_size_kb = 2]

\* Every shape under no budget and under tight ones.
ShapeWorkflows ==
  {Run(ns, e, b) :
     ns \in {Diamond, JumpAway, DynamicWait, ModelCall, Generate, Redefined,
             SoftThenMore, StaticWait, Unreached, ForkJoin, Dangling, JumpToNowhere},
     e \in {"a"}, b \in {NoBudget, Nodes(0), Nodes(2), Tight, Small}}
  \cup {Run(Retry, "b", b) : b \in {NoBudget, Nodes(2), Tight, Small}}
  \cup {Run(Hearsay, "a", b) : b \in {NoBudget, Nodes(2), Tight, Small}}
  \cup {Run(ModelSays, "a", b) : b \in {Nodes(3), Small, [Small EXCEPT !.max_llm_calls = 2]}}
  \cup {Run(SelfJump, "a", b) : b \in {Nodes(1), Tight, Small}}
  \cup {Run(ns, NoPath, b) : ns \in {Diamond, StaticWait}, b \in {NoBudget, Nodes(0), Small}}
  \cup {Run(Diamond, EndSoft, NoBudget), Run(StaticWait, "d", NoBudget)}
-----------------------------------------------------------------------------

ABC == {"a", "b", "c"}

\* Backwards, forwards, in either order, and twice.
Pairs == {<<"a", "b">>, <<"b", "c">>, <<"c", "b">>, <<"c", "c">>}

Successors == {<< >>} \cup {<<p>> : p \in ABC} \cup Pairs

Middle(next) == {Plain("b", "ASSIGN", next), Assert("b", next, "c")}

\* The workflows of three nodes with at most two successors each: cycles,
\* self loops, repeated edges, unreachable nodes and static dependencies,
\* with an assert in the middle that may be repaired by another node.
SmallWorkflows ==
  {Run(<<Plain("a", "ASSIGN", next_a), b, Static("c", next_c, deps)>>, "a",
       [Nodes(4) EXCEPT !.max_snapshots = 0]) :
     next_a \in Successors, b \in UNION {Middle(s) : s \in Successors},
     next_c \in Successors, deps \in {<< >>, <<"b">>}}

MCWorkflows == ShapeWorkflows \cup SmallWorkflows
==============================================================================
