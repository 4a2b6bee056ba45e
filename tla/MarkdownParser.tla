---------------------------- MODULE MarkdownParser ----------------------------
(***************************************************************************)
(* What parse_from_string makes of a document: a graph for every subgraph  *)
(* block and every node block, in order, the budget of the document going  *)
(* to the first of them.  A written node is a NodeRecord that may be of no *)
(* known type and may have fields its type does not use.                   *)
(***************************************************************************)
EXTENDS Workflow

Lists == INSTANCE SequencesExt

CONSTANT Documents    \* sequences of blocks

BlockKind == {"meta", "subgraph", "node", "other", "broken"}

WrittenNode == [path : Path, type : NodeType \cup {"unknown"}, next : Seq(Path),
                wait_for : Seq(Path), renders : SUBSET SUBSET Path,
                mode : {"hard", "soft"}, on_failure : Path \cup {NoPath},
                snapshot : BOOLEAN, guarded : BOOLEAN, said : SUBSET Path]

\* budget: of a meta block.  entry: of the block of /main.  A node block has
\* one node; a broken block makes the parser throw.
Block == [kind : BlockKind, main : BOOLEAN, nodes : Seq(WrittenNode),
          entry : Path \cup {NoPath}, budget : Budget]

Graph == [main : BOOLEAN, nodes : Seq(NodeRecord), entry : Path \cup {NoPath}, budget : Budget]

Unlimited == [engaged |-> FALSE, max_nodes |-> -1, max_llm_calls |-> -1,
              max_subgraph_depth |-> -1, max_duration_sec |-> -1,
              max_snapshots |-> -1, snapshot_max_size_kb |-> 512]

\* A node's wait_for is one field: a string or a list.
ASSUME DocumentAssumption ==
  /\ Documents \subseteq Seq(Block)
  /\ \A d \in Documents : \A i \in DOMAIN d :
       /\ d[i].kind = "node" => Len(d[i].nodes) = 1
       /\ d[i].entry # NoPath => d[i].main /\ d[i].kind \in {"subgraph", "node"}
       /\ \A j \in DOMAIN d[i].nodes :
             d[i].nodes[j].renders = {} \/ d[i].nodes[j].wait_for = << >>

\* create_node_from_json: an unknown type makes no node, a resource has no
\* successors, and only an assert has a target for its failure.
Known(n) == n.type # "unknown"
CreateNode(n) == [n EXCEPT !.next = IF n.type = "RESOURCE" THEN << >> ELSE @,
                           !.on_failure = IF n.type = "ASSERT" THEN @ ELSE NoPath,
                           !.said = IF Quotes(n) THEN @ ELSE {}]
CreateNodes(ns) ==
  Lists!FlattenSeq([i \in DOMAIN ns |-> IF Known(ns[i]) THEN <<CreateNode(ns[i])>> ELSE << >>])

Parses(d) == \A i \in DOMAIN d : d[i].kind # "broken"

MakesGraph(b) == b.kind = "subgraph" \/ (b.kind = "node" /\ Known(b.nodes[1]))

\* A later meta block with a budget replaces an earlier one.
BudgetBlocks(d) == {i \in DOMAIN d : d[i].kind = "meta" /\ d[i].budget.engaged}
GlobalBudget(d) ==
  IF BudgetBlocks(d) = {} THEN Unlimited
  ELSE d[CHOOSE i \in BudgetBlocks(d) : \A j \in BudgetBlocks(d) : j <= i].budget

MakeGraph(b) == [main |-> b.main, nodes |-> CreateNodes(b.nodes), entry |-> b.entry,
                 budget |-> Unlimited]

\* parse_from_string: the first graph gets the budget; without a graph it is lost.
Parse(d) ==
  LET graphs == Lists!FlattenSeq([i \in DOMAIN d |->
                  IF MakesGraph(d[i]) THEN <<MakeGraph(d[i])>> ELSE << >>])
  IN [i \in DOMAIN graphs |->
        IF i = 1 THEN [graphs[i] EXCEPT !.budget = GlobalBudget(d)] ELSE graphs[i]]
==============================================================================
