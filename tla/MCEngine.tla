------------------------------- MODULE MCEngine -------------------------------
(***************************************************************************)
(* Engines of small documents, whose model answers with a new definition   *)
(* of the node that called it, with nodes nothing leads to, with a budget, *)
(* with a graph that cannot be built, or with nothing that parses.         *)
(***************************************************************************)
EXTENDS DSLEngine

MCUserPath == {"a", "b", "c", "d"}
MCContextKb == [ctx \in SUBSET Path |-> 1 + Cardinality(ctx)]

Plain(path, type, next) ==
  [path |-> path, type |-> type, next |-> next, wait_for |-> << >>, renders |-> {},
   mode |-> "hard", on_failure |-> NoPath, snapshot |-> FALSE, guarded |-> FALSE, said |-> {}]

Blank(kind) == [kind |-> kind, main |-> FALSE, nodes |-> << >>, entry |-> NoPath,
                budget |-> Unlimited]
Main(nodes, entry) == [Blank("subgraph") EXCEPT !.main = TRUE, !.nodes = nodes, !.entry = entry]
Single(node) == [Blank("node") EXCEPT !.nodes = <<node>>]
Meta(n, llm) == [Blank("meta") EXCEPT !.budget = [Unlimited EXCEPT !.engaged = TRUE,
                    !.max_nodes = n, !.max_llm_calls = llm, !.max_snapshots = 1]]

\* a, then the model, then d.
Asking == Main(<<Plain("a", "TOOL_CALL", <<"b">>), Plain("b", "DSL_CALL", <<"d">>),
                 Plain("d", "END", << >>)>>, "a")
\* An assert behind the model call that would jump back to it.
Checking == Main(<<Plain("b", "DSL_CALL", <<"d">>),
                   [Plain("d", "ASSERT", << >>) EXCEPT !.on_failure = "b"]>>, "b")
\* A model whose error has a text the scheduler jumps by.
Saying == Main(<<[Plain("b", "DSL_CALL", <<"d">>) EXCEPT !.said = {"a"}],
                 Plain("a", "ASSIGN", <<"d">>), Plain("d", "DSL_CALL", << >>)>>, "b")
NoEntry == Main(<<Plain("a", "START", <<"b">>), Plain("b", "DSL_CALL", << >>)>>, NoPath)

\* A soft end with a successor, a resource with a permission and successors it
\* does not keep, and a node of a type the parser does not know.
Mixed == Main(<<[Plain("a", "END", <<"c">>) EXCEPT !.mode = "soft"],
                [Plain("b", "RESOURCE", <<"a">>) EXCEPT !.guarded = TRUE],
                Plain("d", "unknown", <<"a">>),
                Plain("c", "DSL_CALL", << >>)>>, "a")

Redefine == <<Single(Plain("b", "ASSIGN", <<"d", "c">>)), Single(Plain("c", "ASSIGN", << >>))>>
Unlinked == <<Meta(1, 0), Blank("other"), Single(Plain("c", "ASSIGN", <<"a">>))>>
Dangling == <<Single(Plain("a", "ASSIGN", <<"c">>))>>
Garbage == <<Single(Plain("c", "ASSIGN", << >>)), Blank("broken")>>
Unheard == <<Single(Plain("b", "unknown", <<"d">>))>>

MCInitial == {<<Meta(9, 9), Meta(3, 1), Asking>>, <<Asking>>, <<Checking, Meta(2, 2)>>, <<NoEntry>>, <<Mixed>>, <<Saying>>}
MCGenerated == {Redefine, Unlinked, Dangling, Garbage, Unheard}
MCDocuments == MCInitial \cup MCGenerated

\* The documents of test_engine.cpp.  The first has an entry here, without which
\* no run gets as far as the model.
TestGenerated == {<<Single(Plain("c", "ASSIGN", <<"d">>))>>}
TestDocuments == {<<Main(<<Plain("a", "START", <<"b">>), Plain("b", "DSL_CALL", <<"d">>),
                           Plain("d", "END", << >>)>>, "a")>>} \cup TestGenerated
===============================================================================
