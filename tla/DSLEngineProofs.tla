---------------------------- MODULE DSLEngineProofs ----------------------------
(***************************************************************************)
(* For every set of documents, appended in any order between any runs:     *)
(* what the parser makes of them is a workflow, so that every run of the   *)
(* engine is a run of SessionProofs; and what the engine promises beyond a *)
(* single run.                                                             *)
(***************************************************************************)
EXTENDS DSLEngine, SessionProofs

\* A node as the parser makes it; clone() takes a resource's permissions.
ParsedNode == {n \in NodeRecord : /\ n.renders = {} \/ n.wait_for = << >>
                                  /\ n.type = "RESOURCE" => n.next = << >>
                                  /\ n.on_failure # NoPath => n.type = "ASSERT"
                                  /\ n.said # {} => Quotes(n)}

ParsedGraph == [main : BOOLEAN, nodes : Seq(ParsedNode), entry : Path \cup {NoPath},
                budget : Budget]

-----------------------------------------------------------------------------

\* Joining sequences of S makes a sequence of S.  The recursive function
\* behind it exists and is typed by induction.
LEMMA FlattenTyped ==
  ASSUME NEW S, NEW seqs \in Seq(Seq(S))
  PROVE  Lists!FlattenSeq(seqs) \in Seq(S)
  <1> DEFINE Good(f, n) == f = [i \in 1..n |-> IF i = 1 THEN seqs[i] ELSE f[i-1] \o seqs[i]]
  <1>1. Len(seqs) \in Nat /\ \A i \in 1..Len(seqs) : seqs[i] \in Seq(S)
    OBVIOUS
  <1>2. CASE Len(seqs) = 0
    <2>1. seqs = << >>
      BY <1>2
    <2> QED
      BY <1>2, <2>1 DEF Lists!FlattenSeq
  <1>3. CASE Len(seqs) # 0
    <2> DEFINE joinable == {n \in Nat : \E f : Good(f, n)}
    <2>1. 0 \in joinable
      <3>1. Good([i \in 1..0 |-> i], 0)
        OBVIOUS
      <3> QED
        BY <3>1
    <2>2. ASSUME NEW n \in Nat, n \in joinable PROVE n + 1 \in joinable
      <3>1. PICK f : Good(f, n)
        BY <2>2
      <3> DEFINE g == [i \in 1..(n+1) |-> IF i = 1 THEN seqs[i] ELSE f[i-1] \o seqs[i]]
      <3>2. ASSUME NEW i \in 1..(n+1), i # 1 PROVE f[i-1] = g[i-1]
        <4>1. i - 1 \in 1..n /\ i - 1 \in 1..(n + 1)
          BY <3>2
        <4>2. f[i-1] = IF i - 1 = 1 THEN seqs[i - 1] ELSE f[i - 1 - 1] \o seqs[i-1]
          BY <3>1, <4>1
        <4> QED
          BY <4>1, <4>2
      <3>3. Good(g, n + 1)
        BY <3>2
      <3> HIDE DEF Good, g
      <3> QED
        BY <3>3
    <2>3. Nat \subseteq joinable
      <3> HIDE DEF joinable
      <3> QED
        BY <2>1, <2>2, InductiveSet
    <2>4. \E f : Good(f, Len(seqs))
      BY <1>1, <2>3
    <2> DEFINE joined == CHOOSE f : Good(f, Len(seqs))
    <2>5. Good(joined, Len(seqs))
      <3> HIDE DEF Good
      <3> QED
        BY <2>4
    <2>6. Lists!FlattenSeq(seqs) = joined[Len(seqs)]
      BY <1>3 DEF Lists!FlattenSeq
    <2> HIDE DEF joined
    <2>7. \A i \in 1..Len(seqs) : joined[i] = IF i = 1 THEN seqs[i] ELSE joined[i-1] \o seqs[i]
      <3>1. ASSUME NEW f, Good(f, Len(seqs)), NEW i \in 1..Len(seqs)
            PROVE  f[i] = IF i = 1 THEN seqs[i] ELSE f[i-1] \o seqs[i]
        BY <3>1
      <3> HIDE DEF Good
      <3> QED
        BY <2>5, <3>1
    <2> DEFINE typed == {n \in Nat : n \in 1..Len(seqs) => joined[n] \in Seq(S)}
    <2>8. ASSUME NEW n \in Nat, n \in typed PROVE n + 1 \in typed
      <3> SUFFICES ASSUME n + 1 \in 1..Len(seqs) PROVE joined[n + 1] \in Seq(S)
        OBVIOUS
      <3>1. joined[n + 1] = IF n + 1 = 1 THEN seqs[n + 1] ELSE joined[n + 1 - 1] \o seqs[n + 1]
        BY <2>7
      <3>2. n # 0 => joined[n] \in Seq(S)
        BY <1>1, <2>8
      <3> QED
        BY <1>1, <3>1, <3>2
    <2>9. Nat \subseteq typed
      <3>1. 0 \in typed
        OBVIOUS
      <3> HIDE DEF typed
      <3> QED
        BY <2>8, <3>1, InductiveSet
    <2>10. Len(seqs) \in typed /\ Len(seqs) \in 1..Len(seqs)
      BY <1>1, <1>3, <2>9
    <2> QED
      BY <2>6, <2>10
  <1> QED
    BY <1>2, <1>3

-----------------------------------------------------------------------------

LEMMA UnlimitedTyped == Unlimited \in Budget
  BY DEF Unlimited, Budget

\* A document's budget is the one of a block.
LEMMA GlobalBudgetTyped == ASSUME NEW d \in Seq(Block) PROVE GlobalBudget(d) \in Budget
  <1>1. CASE BudgetBlocks(d) = {}
    BY <1>1, UnlimitedTyped DEF GlobalBudget
  <1>2. CASE BudgetBlocks(d) # {}
    <2>1. Len(d) \in Nat /\ DOMAIN d = 1..Len(d) /\ BudgetBlocks(d) \subseteq 1..Len(d)
      BY DEF BudgetBlocks
    <2> DEFINE fromEnd == {k \in Nat : Len(d) - k \in BudgetBlocks(d)}
    <2>2. fromEnd # {}
      <3>1. PICK i \in BudgetBlocks(d) : TRUE
        BY <1>2
      <3>2. Len(d) - i \in Nat /\ Len(d) - (Len(d) - i) = i
        BY <2>1
      <3> QED
        BY <3>1, <3>2
    <2>3. PICK k \in fromEnd : \A j \in fromEnd : k <= j
      BY <2>2, LeastNumber
    <2>4. ASSUME NEW j \in BudgetBlocks(d) PROVE j <= Len(d) - k
      <3>1. Len(d) - j \in Nat /\ Len(d) - (Len(d) - j) = j
        BY <2>1
      <3>2. k <= Len(d) - j
        BY <2>3, <3>1
      <3> QED
        BY <2>1, <3>1, <3>2
    <2>5. \E i \in BudgetBlocks(d) : \A j \in BudgetBlocks(d) : j <= i
      BY <2>3, <2>4
    <2> DEFINE last == CHOOSE i \in BudgetBlocks(d) : \A j \in BudgetBlocks(d) : j <= i
    <2>6. last \in DOMAIN d
      BY <2>1, <2>5
    <2>7. GlobalBudget(d) = d[last].budget
      BY <1>2 DEF GlobalBudget
    <2> HIDE DEF last
    <2>8. d[last] \in Block
      BY <2>6, ElementOfSeq
    <2> QED
      BY <2>7, <2>8 DEF Block
  <1> QED
    BY <1>1, <1>2

\* create_node_from_json makes nodes of their types' fields.
LEMMA CreatedNode ==
  ASSUME NEW n \in WrittenNode, Known(n), n.renders = {} \/ n.wait_for = << >>
  PROVE  CreateNode(n) \in ParsedNode
  <1> DEFINE m == CreateNode(n)
             next == IF n.type = "RESOURCE" THEN << >> ELSE n.next
             target == IF n.type = "ASSERT" THEN n.on_failure ELSE NoPath
             said == IF Quotes(n) THEN n.said ELSE {}
  <1>1. m = [n EXCEPT !.next = next, !.on_failure = target, !.said = said]
    BY DEF CreateNode
  <1>2. next \in Seq(Path) /\ target \in Path \cup {NoPath} /\ said \in SUBSET Path
    BY EmptySeq DEF WrittenNode
  <1>3. n.type \in NodeType
    BY DEF WrittenNode, Known
  <1>4. m \in WrittenNode
    <2> HIDE DEF next, target, said, m
    <2> QED
      BY <1>1, <1>2 DEF WrittenNode
  <1>5. /\ m.type = n.type /\ m.renders = n.renders /\ m.wait_for = n.wait_for
        /\ m.next = next /\ m.on_failure = target /\ m.said = said
    <2> HIDE DEF next, target, said, m
    <2> QED
      BY <1>1 DEF WrittenNode
  <1>6. m \in NodeRecord
    <2> HIDE DEF next, target, said, m
    <2> QED
      BY <1>3, <1>4, <1>5 DEF WrittenNode, NodeRecord
  <1> HIDE DEF m
  <1>7. m \in ParsedNode
    BY <1>5, <1>6 DEF ParsedNode, Quotes
  <1> QED
    BY <1>7 DEF m

\* A list with one element or none.
LEMMA CreatedNodes ==
  ASSUME NEW ns \in Seq(WrittenNode),
         \A j \in DOMAIN ns : ns[j].renders = {} \/ ns[j].wait_for = << >>
  PROVE  CreateNodes(ns) \in Seq(ParsedNode)
  <1> DEFINE made == [i \in DOMAIN ns |-> IF Known(ns[i]) THEN <<CreateNode(ns[i])>> ELSE << >>]
  <1>1. Len(ns) \in Nat /\ DOMAIN ns = 1..Len(ns) /\ \A i \in DOMAIN ns : ns[i] \in WrittenNode
    OBVIOUS
  <1>2. ASSUME NEW i \in DOMAIN ns PROVE made[i] \in Seq(ParsedNode)
    <2>1. CASE Known(ns[i])
      <3>1. CreateNode(ns[i]) \in ParsedNode
        BY <1>1, <2>1, CreatedNode
      <3> QED
        BY <2>1, <3>1
    <2>2. CASE ~Known(ns[i])
      BY <2>2, EmptySeq
    <2> QED
      BY <2>1, <2>2
  <1>3. made \in Seq(Seq(ParsedNode))
    BY <1>1, <1>2
  <1> QED
    BY <1>3, FlattenTyped DEF CreateNodes

LEMMA ParsedDocument ==
  ASSUME NEW d \in Documents
  PROVE  Parse(d) \in Seq(ParsedGraph)
  <1> DEFINE made == [i \in DOMAIN d |-> IF MakesGraph(d[i]) THEN <<MakeGraph(d[i])>> ELSE << >>]
             graphs == Lists!FlattenSeq(made)
  <1>1. /\ d \in Seq(Block) /\ Len(d) \in Nat /\ DOMAIN d = 1..Len(d)
        /\ \A i \in DOMAIN d : d[i] \in Block
    BY DocumentAssumption
  <1>2. ASSUME NEW i \in DOMAIN d PROVE MakeGraph(d[i]) \in ParsedGraph
    <2>1. d[i].nodes \in Seq(WrittenNode) /\ d[i].main \in BOOLEAN /\ d[i].entry \in Path \cup {NoPath}
      BY <1>1 DEF Block
    <2>2. CreateNodes(d[i].nodes) \in Seq(ParsedNode)
      BY <2>1, CreatedNodes, DocumentAssumption
    <2> QED
      BY <2>1, <2>2, UnlimitedTyped DEF MakeGraph, ParsedGraph
  <1>3. made \in Seq(Seq(ParsedGraph))
    <2>1. \A i \in DOMAIN d : made[i] \in Seq(ParsedGraph)
      BY <1>2, EmptySeq
    <2> QED
      BY <1>1, <2>1
  <1>4. graphs \in Seq(ParsedGraph)
    BY <1>3, FlattenTyped
  <1>5. /\ Parse(d) = [i \in DOMAIN graphs |->
                         IF i = 1 THEN [graphs[i] EXCEPT !.budget = GlobalBudget(d)] ELSE graphs[i]]
    BY DEF Parse
  <1> HIDE DEF graphs
  <1>6. ASSUME NEW g \in ParsedGraph PROVE [g EXCEPT !.budget = GlobalBudget(d)] \in ParsedGraph
    <2>1. GlobalBudget(d) \in Budget
      BY <1>1, GlobalBudgetTyped
    <2> QED
      BY <2>1 DEF ParsedGraph
  <1>7. Len(graphs) \in Nat /\ DOMAIN graphs = 1..Len(graphs)
    BY <1>4
  <1>8. \A i \in DOMAIN graphs : Parse(d)[i] \in ParsedGraph
    BY <1>4, <1>5, <1>6
  <1> QED
    BY <1>5, <1>7, <1>8

-----------------------------------------------------------------------------

LEMMA NodesOfTyped == ASSUME NEW gs \in Seq(ParsedGraph) PROVE NodesOf(gs) \in Seq(ParsedNode)
  <1> DEFINE lists == [i \in DOMAIN gs |-> gs[i].nodes]
  <1>1. Len(gs) \in Nat /\ DOMAIN gs = 1..Len(gs) /\ \A i \in DOMAIN gs : gs[i] \in ParsedGraph
    OBVIOUS
  <1>2. \A i \in DOMAIN gs : gs[i].nodes \in Seq(ParsedNode)
    BY <1>1 DEF ParsedGraph
  <1>3. lists \in Seq(Seq(ParsedNode))
    BY <1>1, <1>2
  <1> QED
    BY <1>3, FlattenTyped DEF NodesOf

\* Among some positions of a list there is a first one.
LEMMA FirstFound ==
  ASSUME NEW found \in SUBSET Nat, found # {}
  PROVE  FirstOf(found) \in found /\ \A j \in found : FirstOf(found) <= j
  <1>1. \E i \in found : \A j \in found : i <= j
    BY LeastNumber
  <1> QED
    BY <1>1 DEF FirstOf

\* A clone is a node a run can be given, and the node it was made of but for a
\* resource's permissions.
LEMMA ClonedNode ==
  ASSUME NEW n \in ParsedNode
  PROVE  /\ Clone(n) \in NodeRecord /\ CanBeParsed(Clone(n)) /\ Clone(n).path = n.path
         /\ n = IF n.type = "RESOURCE" THEN [Clone(n) EXCEPT !.guarded = n.guarded] ELSE Clone(n)
  <1>1. n \in NodeRecord
    BY DEF ParsedNode
  <1>2. CASE n.type # "RESOURCE"
    BY <1>1, <1>2 DEF Clone, CanBeParsed, ParsedNode
  <1>3. CASE n.type = "RESOURCE"
    <2> DEFINE m == [n EXCEPT !.next = << >>, !.guarded = FALSE]
    <2>1. Clone(n) = m /\ n.next = << >>
      BY <1>3 DEF Clone, ParsedNode
    <2>2. m \in NodeRecord
      BY <1>1, EmptySeq DEF NodeRecord
    <2>3. /\ m.path = n.path /\ m.type = n.type /\ m.next = << >> /\ ~m.guarded
          /\ m.renders = n.renders /\ m.wait_for = n.wait_for
          /\ m.on_failure = n.on_failure /\ m.said = n.said
      BY <1>1 DEF NodeRecord
    <2>4. n = [m EXCEPT !.guarded = n.guarded]
      BY <1>1, <2>1 DEF NodeRecord
    <2> HIDE DEF m
    <2>5. CanBeParsed(m)
      BY <2>3 DEF CanBeParsed, ParsedNode, Quotes
    <2> QED
      BY <1>3, <2>1, <2>2, <2>3, <2>4, <2>5
  <1> QED
    BY <1>2, <1>3

LEMMA PositionsOfGraphs ==
  ASSUME NEW gs \in Seq(ParsedGraph)
  PROVE  /\ WithBudget(gs) \subseteq DOMAIN gs /\ WithEntry(gs) \subseteq DOMAIN gs
         /\ DOMAIN gs \subseteq Nat
         /\ WithBudget(gs) # {} => FirstOf(WithBudget(gs)) \in WithBudget(gs)
         /\ WithEntry(gs) # {} => FirstOf(WithEntry(gs)) \in WithEntry(gs)
  <1>1. /\ WithBudget(gs) \subseteq DOMAIN gs /\ WithEntry(gs) \subseteq DOMAIN gs
        /\ DOMAIN gs \subseteq Nat
    BY DEF WithBudget, WithEntry
  <1> QED
    BY <1>1, FirstFound

\* Whatever was appended, a run is given a workflow.
LEMMA WorkflowTyped == ASSUME NEW gs \in Seq(ParsedGraph) PROVE IsWorkflow(WorkflowOf(gs))
  <1> DEFINE w == WorkflowOf(gs)
             nodes == [i \in DOMAIN NodesOf(gs) |-> Clone(NodesOf(gs)[i])]
  <1>1. NodesOf(gs) \in Seq(ParsedNode)
    BY NodesOfTyped
  <1>2. \A i \in DOMAIN NodesOf(gs) : nodes[i] \in NodeRecord /\ CanBeParsed(nodes[i])
    BY <1>1, ElementOfSeq, ClonedNode
  <1>3. nodes \in Seq(NodeRecord)
    <2>1. DOMAIN NodesOf(gs) = 1..Len(NodesOf(gs)) /\ Len(NodesOf(gs)) \in Nat
      BY <1>1
    <2> QED
      BY <1>2, <2>1
  <1>4. BudgetOf(gs) \in Budget /\ EntryOf(gs) \in Path \cup {NoPath}
    <2>1. \A i \in DOMAIN gs : gs[i].budget \in Budget /\ gs[i].entry \in Path \cup {NoPath}
      <3>1. \A g \in ParsedGraph : g.budget \in Budget /\ g.entry \in Path \cup {NoPath}
        BY DEF ParsedGraph
      <3> QED
        BY <3>1, ElementOfSeq
    <2> QED
      BY <2>1, PositionsOfGraphs, UnlimitedTyped DEF BudgetOf, EntryOf
  <1>5. w = [nodes |-> nodes, entry |-> EntryOf(gs), budget |-> BudgetOf(gs)]
    BY DEF WorkflowOf
  <1> QED
    BY <1>2, <1>3, <1>4, <1>5 DEF IsWorkflow, WorkflowRecord

\* Taking the budget out leaves it in.
LEMMA TakenBudget == ASSUME NEW gs \in Seq(ParsedGraph) PROVE TakeBudget(gs) = gs
  <1>1. CASE WithBudget(gs) = {}
    BY <1>1 DEF TakeBudget
  <1>2. CASE WithBudget(gs) # {}
    <2> DEFINE i == FirstOf(WithBudget(gs))
    <2>1. i \in DOMAIN gs
      BY <1>2, PositionsOfGraphs
    <2>2. TakeBudget(gs) = [gs EXCEPT ![i].budget = gs[i].budget]
      BY <1>2 DEF TakeBudget, MovedFrom
    <2> HIDE DEF i
    <2>3. gs[i] \in ParsedGraph
      BY <2>1
    <2>4. [gs[i] EXCEPT !.budget = gs[i].budget] = gs[i]
      BY <2>3 DEF ParsedGraph
    <2> QED
      BY <2>1, <2>2, <2>4
  <1> QED
    BY <1>1, <1>2

\* The first budget stays the first one, whatever is appended.
LEMMA AppendedBudget ==
  ASSUME NEW gs \in Seq(ParsedGraph), NEW more \in Seq(ParsedGraph), BudgetOf(gs).engaged
  PROVE  BudgetOf(gs \o more) = BudgetOf(gs)
  <1> DEFINE all == gs \o more
             i == FirstOf(WithBudget(gs))
             j == FirstOf(WithBudget(all))
  <1>1. WithBudget(gs) # {}
    BY DEF BudgetOf, Unlimited
  <1>2. /\ all \in Seq(ParsedGraph) /\ Len(gs) \in Nat /\ DOMAIN gs = 1..Len(gs)
        /\ DOMAIN all \subseteq Nat
        /\ \A k \in DOMAIN gs : k \in DOMAIN all /\ all[k] = gs[k]
    OBVIOUS
  <1>3. i \in WithBudget(gs) /\ \A k \in WithBudget(gs) : i <= k
    BY <1>1, PositionsOfGraphs, FirstFound
  <1>4. i \in WithBudget(all)
    BY <1>2, <1>3 DEF WithBudget
  <1>5. j \in WithBudget(all) /\ \A k \in WithBudget(all) : j <= k
    BY <1>2, <1>4, PositionsOfGraphs, FirstFound
  <1>6. j <= i /\ j \in DOMAIN all /\ i \in DOMAIN gs
    <2> HIDE DEF i, j
    <2> QED
      BY <1>3, <1>4, <1>5 DEF WithBudget
  <1>7. j \in DOMAIN gs
    <2>1. DOMAIN all = 1..Len(all) /\ Len(all) \in Nat
      BY <1>2
    <2> HIDE DEF i, j, all
    <2> QED
      BY <1>2, <1>6, <2>1
  <1>8. j \in WithBudget(gs)
    BY <1>2, <1>5, <1>7 DEF WithBudget
  <1>9. i = j
    BY <1>3, <1>6, <1>8
  <1> QED
    BY <1>1, <1>2, <1>4, <1>7, <1>9 DEF BudgetOf

-----------------------------------------------------------------------------

\* A path is linked to the run when it may be jumped to, is the entry, or
\* follows a node that has run.
Linked(p, done) == \/ p \in Forced(wf)
                   \/ \E e \in EdgesInto(wf, p) : Source(wf, e) \in done

\* With an entry, a node runs only when a node that has run, or a failed
\* assert, leads to it: why AppendedNodesRun fails for a node without an edge.
OnlyLinkedNodesRun ==
  wf.entry # NoPath =>
    \A p \in executed : \/ p \in Forced(wf)
                        \/ \E e \in EdgesInto(wf, p) : Source(wf, e) \in executed

\* OnlyLinkedNodesRun, from the moment a path is put in the queue.
QueueLinked ==
  wf.entry # NoPath =>
    /\ \A p \in executed : Linked(p, executed)
    /\ phase \in Looping \ {"scan"} => \A k \in DOMAIN ready_queue : Linked(ready_queue[k], executed)
    /\ phase \in Serving \cup {"gate"} => Linked(current, executed)

LEMMA LinkedGrows ==
  ASSUME NEW some, NEW more, some \subseteq more, NEW p, Linked(p, some)
  PROVE  Linked(p, more)
  BY DEF Linked

\* Until the loop begins nothing has run; the entry then replaces the queue.
LEMMA StartQueueLinked ==
  ASSUME IInv, RegisterNode \/ RejectDag \/ BuildDag \/ ScanNode \/ StartAtEntry
  PROVE  QueueLinked'
  <1>1. /\ executed' = {} /\ wf' = wf
        /\ phase' \in {"register", "scan", "loop", "done"}
    BY DEF RegisterNode, RejectDag, BuildDag, ScanNode, StartAtEntry, Return, IInv, BeforeLoop
  <1>2. CASE phase' # "loop"
    BY <1>1, <1>2 DEF QueueLinked, Looping, Serving
  <1>3. CASE phase' = "loop"
    <2>1. StartAtEntry
      BY <1>3 DEF RegisterNode, RejectDag, BuildDag, ScanNode, Return
    <2>2. wf.entry # NoPath => ready_queue' = <<wf.entry>>
      BY <1>3, <2>1 DEF StartAtEntry, Return
    <2>3. wf.entry # NoPath => wf.entry \in Forced(wf)
      BY DEF Forced
    <2>4. wf.entry # NoPath => \A k \in DOMAIN ready_queue' : ready_queue'[k] \in Forced(wf)
      BY <2>2, <2>3
    <2> QED
      BY <1>1, <1>3, <2>4 DEF QueueLinked, Linked, Serving
  <1> QED
    BY <1>2, <1>3

\* What the loop does with a path, and which paths it puts in the queue.
LEMMA LoopQueueLinked ==
  ASSUME IInv, QueueLinked, phase \in Looping \ {"scan"},
         \/ PickNode \/ SkipExecuted \/ WaitUnmet \/ CallSession \/ SessionStep
         \/ Jump \/ MarkExecuted \/ BeginRelease \/ ReleaseSuccessor \/ EndRelease
  PROVE  QueueLinked'
  <1> SUFFICES ASSUME wf.entry # NoPath
               PROVE  /\ \A p \in executed' : Linked(p, executed')
                      /\ \A k \in DOMAIN ready_queue' : Linked(ready_queue'[k], executed')
                      /\ phase' \in Serving \cup {"gate"} => Linked(current', executed')
    <2>1. wf' = wf
      BY SessionAnswers DEF PickNode, SkipExecuted, WaitUnmet, Reached, CallSession, Jump,
         MarkExecuted, BeginRelease, ReleaseSuccessor, EndRelease
    <2> QED
      BY <2>1 DEF QueueLinked, Linked
  <1>1. /\ \A p \in executed : Linked(p, executed)
        /\ \A k \in DOMAIN ready_queue : Linked(ready_queue[k], executed)
        /\ phase \in Serving \cup {"gate"} => Linked(current, executed)
        /\ ready_queue \in Seq(Path)
    BY DEF QueueLinked, IInv, SchedulerTypeOK
  <1>2. CASE PickNode
    <2>1. /\ UNCHANGED <<wf, executed>> /\ ready_queue # << >> /\ phase' = "gate"
          /\ current' = Head(ready_queue) /\ ready_queue' = Tail(ready_queue)
      BY <1>2 DEF PickNode
    <2>2. /\ 1 \in DOMAIN ready_queue /\ current' = ready_queue[1]
          /\ \A k \in DOMAIN ready_queue' : /\ k + 1 \in DOMAIN ready_queue
                                            /\ ready_queue'[k] = ready_queue[k + 1]
      BY <1>1, <2>1
    <2> QED
      BY <1>1, <2>1, <2>2, LinkedGrows
  <1>3. CASE SkipExecuted \/ BeginRelease \/ EndRelease
    <2>1. UNCHANGED <<wf, executed, ready_queue, current>> /\ phase' \in {"loop", "release"}
      BY <1>3 DEF SkipExecuted, BeginRelease, EndRelease, schedVars
    <2> QED
      BY <1>1, <2>1, LinkedGrows DEF Serving
  <1>4. CASE WaitUnmet
    <2>1. /\ UNCHANGED <<wf, executed, current>> /\ phase = "gate" /\ phase' = "loop"
          /\ ready_queue' = Append(ready_queue, current)
      BY <1>4 DEF WaitUnmet, Reached
    <2>2. \A k \in DOMAIN ready_queue' : \/ k \in DOMAIN ready_queue /\ ready_queue'[k] = ready_queue[k]
                                         \/ ready_queue'[k] = current
      BY <1>1, <2>1
    <2> QED
      BY <1>1, <2>1, <2>2, LinkedGrows DEF Serving
  <1>5. CASE CallSession \/ SessionStep
    <2>1. UNCHANGED <<wf, executed, ready_queue, current>> /\ phase \in Serving \cup {"gate"}
      BY <1>5, SessionAnswers DEF CallSession, Reached, schedVars
    <2> QED
      BY <1>1, <2>1, LinkedGrows
  <1>6. CASE Jump
    <2>1. UNCHANGED <<wf, executed, current>> /\ phase' = "loop"
      BY <1>6 DEF Jump
    <2>2. PICK target \in JumpTargets(Node) : ready_queue' = <<target>>
      BY <1>6 DEF Jump
    <2>3. \E k \in DOMAIN wf.nodes : Node = wf.nodes[k]
      BY <1>6, <2>2, CurrentNode, NodesTyped DEF Jump, IInv, CurrentPlaced, Serving
    <2>4. target \in Forced(wf)
      BY <2>2, <2>3 DEF Forced
    <2>5. \A k \in DOMAIN ready_queue' : ready_queue'[k] = target
      BY <2>2
    <2> QED
      BY <1>1, <2>1, <2>4, <2>5, LinkedGrows DEF Linked, Serving
  <1>7. CASE MarkExecuted
    <2>1. /\ UNCHANGED <<wf, ready_queue, current>> /\ phase = "result" /\ phase' = "executed"
          /\ executed' = executed \cup {current}
      BY <1>7 DEF MarkExecuted
    <2> QED
      BY <1>1, <2>1, LinkedGrows DEF Serving
  <1>8. CASE ReleaseSuccessor
    <2> DEFINE p0 == Node.next[cursor]
               e0 == <<node_map[current], cursor>>
    <2>1. /\ UNCHANGED <<wf, executed, current>> /\ phase = "release" /\ phase' = "release"
          /\ cursor <= Len(Node.next)
          /\ ready_queue' \in {ready_queue, Append(ready_queue, p0)}
      BY <1>8 DEF ReleaseSuccessor
    <2>2. Linked(p0, executed)
      <3>1. current \in executed /\ current \in DOMAIN node_map /\ cursor \in Nat \ {0}
        BY <2>1 DEF IInv, CurrentPlaced, SchedulerTypeOK
      <3>2. /\ IsWorkflow(wf) /\ Node = AllNodes(wf)[node_map[current]] /\ Node.path = current
            /\ node_map[current] \in DOMAIN AllNodes(wf) /\ cursor \in DOMAIN Node.next
        BY <2>1, <3>1, CurrentNode
      <3>3. e0 \in NextEdges(wf) /\ Source(wf, e0) = current /\ Target(wf, e0) = p0
        BY <3>2, SuccessorEdge
      <3> QED
        BY <3>1, <3>3 DEF Linked, EdgesInto
    <2>3. \A k \in DOMAIN ready_queue' : \/ k \in DOMAIN ready_queue /\ ready_queue'[k] = ready_queue[k]
                                         \/ ready_queue'[k] = p0
      <3> HIDE DEF p0
      <3> QED
        BY <1>1, <2>1
    <2> QED
      BY <1>1, <2>1, <2>2, <2>3, LinkedGrows DEF Serving
  <1> QED
    BY <1>2, <1>3, <1>4, <1>5, <1>6, <1>7, <1>8

LEMMA NextQueueLinked == IInv /\ QueueLinked /\ [Next]_vars => QueueLinked'
  <1> SUFFICES ASSUME IInv, QueueLinked, [Next]_vars PROVE QueueLinked'
    OBVIOUS
  <1>1. CASE RegisterNode \/ RejectDag \/ BuildDag \/ ScanNode \/ StartAtEntry
    BY <1>1, StartQueueLinked
  <1>2. CASE \/ PickNode \/ SkipExecuted \/ WaitUnmet \/ CallSession \/ SessionStep
             \/ Jump \/ MarkExecuted \/ BeginRelease \/ ReleaseSuccessor \/ EndRelease
    <2>1. phase \in Looping \ {"scan"}
      BY <1>2 DEF PickNode, SkipExecuted, WaitUnmet, Reached, CallSession, SessionStep,
         InSession, Jump, MarkExecuted, BeginRelease, ReleaseSuccessor, EndRelease, Looping
    <2> QED
      BY <1>2, <2>1, LoopQueueLinked
  <1>3. CASE \/ QueueEmpty \/ NodeNotFound \/ WaitUnresolved \/ NodeFails \/ Pause
             \/ TerminateFlow \/ DurationExceeded \/ ReportUnexecuted \/ Complete
    <2>1. UNCHANGED <<wf, executed>> /\ phase' \in {"check", "done"}
      BY <1>3 DEF QueueEmpty, NodeNotFound, WaitUnresolved, NodeFails, Pause, TerminateFlow,
         DurationExceeded, ReportUnexecuted, Complete, Return, schedVars
    <2> QED
      BY <2>1 DEF QueueLinked, Linked, Looping, Serving
  <1>4. CASE UNCHANGED vars
    BY <1>4 DEF QueueLinked, Linked, vars, schedVars
  <1> QED
    BY <1>1, <1>2, <1>3, <1>4 DEF Next, Finished

-----------------------------------------------------------------------------

\* A record lets the run go on unless it is of a model call; then it failed,
\* and its node has a text to jump by.
Settled(r) ==
  NodeAt(r.node_path).type = "DSL_CALL" =>
    r.status = "failed" /\ JumpTargets(NodeAt(r.node_path)) # {}

\* Where the run may still have to find out whether it goes on.
Deciding == {"run", "resave", "trace", "result", "executed", "check", "done"}

\* ModelCallEndsRun, with the moment it is decided: while the node of the last
\* record is dealt with, that record is known to be its own.
CallsSettled ==
  /\ phase = "executed" \/ (phase = "result" /\ outcome # "refused") =>
       /\ traces # << >> /\ traces[Len(traces)].node_path = current
       /\ phase = "result" /\ outcome = "jump" => traces[Len(traces)].status = "failed"
  /\ \A i \in DOMAIN traces : (i = Len(traces) /\ phase \in Deciding) \/ Settled(traces[i])

LEMMA SessionSettles == IInv /\ SessionInv /\ CallsSettled /\ SessionStep => CallsSettled'
  <1> SUFFICES ASSUME IInv, SessionInv, CallsSettled, SessionStep PROVE CallsSettled'
    OBVIOUS
  <1> DEFINE n == Len(traces)
  <1>1. /\ UNCHANGED <<wf, node_map, current>> /\ phase' \in Serving
        /\ phase \in {"enter", "charge", "run", "resave", "trace"}
    BY SessionAnswers DEF schedVars, SessionStep, InSession
  <1>2. \A r : Settled(r)' <=> Settled(r)
    BY <1>1 DEF Settled, NodeAt
  <1>3. \A i \in DOMAIN traces : (i = n /\ phase \in Deciding) \/ Settled(traces[i])
    BY DEF CallsSettled
  <1>4. DOMAIN traces = 1..n /\ n \in Nat /\ traces \in Seq(Range(traces))
    BY Positions, SeqOfRange DEF SessionInv, SessionTypeOK
  <1>5. CASE OpensRecord
    <2>1. /\ phase = "charge" /\ phase' = "run" /\ traces' = Append(traces, TE!Record(current))
      BY <1>5 DEF OpensRecord
    <2>2. /\ DOMAIN traces' = 1..(n + 1) /\ Len(traces') = n + 1
          /\ \A i \in 1..n : traces'[i] = traces[i]
      BY <1>4, <2>1
    <2>3. \A i \in 1..n : Settled(traces[i])
      BY <1>3, <1>4, <2>1 DEF Deciding
    <2>4. \A i \in DOMAIN traces' : i = n + 1 \/ Settled(traces'[i])
      BY <1>4, <2>2, <2>3
    <2> HIDE DEF n
    <2> QED
      BY <1>2, <2>1, <2>2, <2>4 DEF CallsSettled, Deciding
  <1>6. CASE ClosesRecord
    <2> DEFINE r == [node_path |-> current,
                     status |-> IF outcome = "ok" THEN "success" ELSE "failed",
                     ctx_snapshot_key |-> SnapshotKey(Node)]
    <2>1. /\ phase = "trace" /\ phase' = "result" /\ outcome' = outcome
          /\ traces' = [traces EXCEPT ![n] = r]
      BY <1>6 DEF ClosesRecord
    <2>2. n \in DOMAIN traces
      BY <2>1, Positions DEF Open
    <2>3. /\ DOMAIN traces' = DOMAIN traces /\ Len(traces') = n /\ traces'[n] = r
          /\ \A i \in DOMAIN traces : i # n => traces'[i] = traces[i]
      BY <1>4, <2>1, <2>2
    <2>4. r.node_path = current /\ (outcome = "jump" => r.status = "failed")
      OBVIOUS
    <2>5. \A i \in DOMAIN traces' : i = n \/ Settled(traces'[i])
      BY <1>3, <2>3
    <2>6. traces' # << >>
      BY <2>2, <2>3
    <2> HIDE DEF n, r
    <2> QED
      BY <1>1, <1>2, <2>1, <2>3, <2>4, <2>5, <2>6 DEF CallsSettled, Deciding
  <1>7. CASE KeepsRecords
    <2>1. traces' = traces /\ Open' = Open /\ (phase' = "result" => outcome' = "refused")
      BY <1>7 DEF KeepsRecords
    <2>2. phase \in Deciding => phase' \in Deciding
      BY <1>1, <2>1 DEF Open, Deciding
    <2> QED
      BY <1>1, <1>2, <1>3, <2>1, <2>2 DEF CallsSettled, Serving
  <1> QED
    BY <1>5, <1>6, <1>7, TraceStep

\* A run goes on after a model call only by a jump: a call that answered pauses
\* it, one that threw or was refused ends it.
LEMMA OutsideSettles == IInv /\ SessionInv /\ CallsSettled /\ Next /\ ~SessionStep => CallsSettled'
  <1> SUFFICES ASSUME IInv, SessionInv, CallsSettled, Next, ~SessionStep PROVE CallsSettled'
    OBVIOUS
  <1>1. /\ UNCHANGED <<wf, traces, outcome>>
        /\ phase \notin {"charge", "run", "resave", "trace"}
        /\ phase' \notin {"charge", "run", "resave", "trace", "result"}
        /\ node_map' = node_map \/ phase = "register"
    BY OutsideStep DEF sessionVars
  <1>2. CASE phase = "register"
    <2>1. traces' = << >> /\ DOMAIN traces' = {}
      BY <1>1, <1>2 DEF SessionInv, Accounted
    <2>2. phase' # "executed"
      BY <1>2 DEF Next, RegisterNode, RejectDag, BuildDag, ScanNode, StartAtEntry, PickNode,
         QueueEmpty, SkipExecuted, NodeNotFound, Reached, WaitUnmet, WaitUnresolved, CallSession,
         Jump, NodeFails, MarkExecuted, Pause, TerminateFlow, BeginRelease, ReleaseSuccessor,
         EndRelease, DurationExceeded, ReportUnexecuted, Complete, Finished, Return
    <2> QED
      BY <1>1, <2>1, <2>2 DEF CallsSettled
  <1>3. CASE phase # "register"
    <2>1. \A r : Settled(r)' <=> Settled(r)
      BY <1>1, <1>3 DEF Settled, NodeAt
    <2>2. /\ phase' = "executed" => /\ phase = "result" /\ outcome = "ok" /\ current' = current
          /\ phase \in Deciding =>
               \/ phase' \in Deciding
               \/ Jump \/ BeginRelease
      BY <1>1 DEF Next, RegisterNode, RejectDag, BuildDag, ScanNode, StartAtEntry, PickNode,
         QueueEmpty, SkipExecuted, NodeNotFound, Reached, WaitUnmet, WaitUnresolved, CallSession,
         NodeFails, MarkExecuted, Pause, TerminateFlow, ReleaseSuccessor, Jump, BeginRelease,
         EndRelease, DurationExceeded, ReportUnexecuted, Complete, Finished, Return, Deciding,
         vars, schedVars
    <2>3. ASSUME Jump \/ BeginRelease PROVE Settled(traces[Len(traces)])
      <3>1. Node = NodeAt(current)
        BY DEF Node, NodeAt
      <3>2. /\ phase = "executed" \/ (phase = "result" /\ outcome = "jump")
            /\ Jump => outcome = "jump" /\ phase = "result" /\ JumpTargets(Node) # {}
            /\ BeginRelease => Node.type # "DSL_CALL"
        BY <2>3 DEF Jump, BeginRelease
      <3>3. /\ traces[Len(traces)].node_path = current
            /\ phase = "result" /\ outcome = "jump" => traces[Len(traces)].status = "failed"
        BY <3>2 DEF CallsSettled
      <3> QED
        BY <2>3, <3>1, <3>2, <3>3 DEF Settled
    <2>4. \A i \in DOMAIN traces : (i = Len(traces) /\ phase' \in Deciding) \/ Settled(traces[i])
      BY <2>2, <2>3 DEF CallsSettled
    <2> QED
      BY <1>1, <2>1, <2>2, <2>4 DEF CallsSettled
  <1> QED
    BY <1>2, <1>3

LEMMA NextCallsSettled == IInv /\ SessionInv /\ CallsSettled /\ [Next]_vars => CallsSettled'
  <1>1. CallsSettled /\ UNCHANGED vars => CallsSettled'
    BY DEF CallsSettled, Settled, NodeAt, vars, sessionVars, schedVars
  <1> QED
    BY <1>1, SessionSettles, OutsideSettles

\* build_dag throws before anything runs.
ThrewEarly == result = "threw" => executed = {}

LEMMA NextThrewEarly == IInv /\ ThrewEarly /\ [Next]_vars => ThrewEarly'
  <1> SUFFICES ASSUME IInv, ThrewEarly, [Next]_vars, result' = "threw" PROVE executed' = {}
    BY DEF ThrewEarly
  <1>1. CASE RejectDag
    BY <1>1 DEF RejectDag, IInv, BeforeLoop
  <1>2. CASE phase = "done" \/ UNCHANGED vars
    <2>1. UNCHANGED vars
      BY <1>2 DEF Next, RegisterNode, RejectDag, BuildDag, ScanNode, StartAtEntry, PickNode,
         QueueEmpty, SkipExecuted, NodeNotFound, Reached, WaitUnmet, WaitUnresolved, CallSession,
         NodeFails, MarkExecuted, Pause, TerminateFlow, ReleaseSuccessor, Jump, BeginRelease,
         EndRelease, DurationExceeded, ReportUnexecuted, Complete, Finished, SessionStep, InSession
    <2> QED
      BY <2>1 DEF ThrewEarly, vars, schedVars
  <1>3. CASE phase # "done" /\ Next /\ ~RejectDag
    <2>1. result = "running"
      BY <1>3 DEF IInv, Ended
    <2>2. result' # "threw"
      BY <1>3, <2>1 DEF Next, RegisterNode, BuildDag, ScanNode, StartAtEntry, PickNode,
         QueueEmpty, SkipExecuted, NodeNotFound, Reached, WaitUnmet, WaitUnresolved, CallSession,
         NodeFails, MarkExecuted, Pause, TerminateFlow, ReleaseSuccessor, Jump, BeginRelease,
         EndRelease, DurationExceeded, ReportUnexecuted, Complete, Finished, SessionStep, Return,
         vars, schedVars
    <2> QED
      BY <2>2
  <1> QED
    BY <1>1, <1>2, <1>3

-----------------------------------------------------------------------------

\* Every path that was registered stands for its last definition.
LastRegistered ==
  /\ phase \notin {"register", "done"} => DOMAIN node_map = Registered(wf)
  /\ \A p \in DOMAIN node_map, j \in DOMAIN AllNodes(wf) :
        AllNodes(wf)[j].path = p /\ (phase = "register" => j < cursor) => j <= node_map[p]

LEMMA NextLastRegistered == IInv /\ LastRegistered /\ [Next]_vars => LastRegistered'
  <1> SUFFICES ASSUME IInv, LastRegistered, [Next]_vars PROVE LastRegistered'
    OBVIOUS
  <1>1. /\ IsWorkflow(wf) /\ cursor \in Nat \ {0}
        /\ DOMAIN AllNodes(wf) = 1..Len(AllNodes(wf)) /\ Len(AllNodes(wf)) \in Nat
    BY NodesTyped DEF IInv, SchedulerTypeOK
  <1>2. CASE RegisterNode
    <2> DEFINE p == AllNodes(wf)[cursor].path
    <2>1. /\ wf' = wf /\ phase = "register" /\ phase' = "register" /\ cursor' = cursor + 1
          /\ node_map' = [q \in DOMAIN node_map \cup {p} |-> IF q = p THEN cursor ELSE node_map[q]]
      BY <1>2 DEF RegisterNode
    <2>2. ASSUME NEW q \in DOMAIN node_map', NEW j \in DOMAIN AllNodes(wf),
                 AllNodes(wf)[j].path = q, j < cursor + 1
          PROVE  j <= node_map'[q]
      <3>1. CASE q = p
        BY <1>1, <2>1, <2>2, <3>1
      <3>2. CASE q # p
        <4>1. q \in DOMAIN node_map /\ node_map'[q] = node_map[q]
          BY <2>1, <3>2
        <4>2. j < cursor
          BY <1>1, <2>2, <3>2
        <4> QED
          BY <2>1, <2>2, <4>1, <4>2 DEF LastRegistered
      <3> QED
        BY <3>1, <3>2
    <2> HIDE DEF p
    <2> QED
      BY <2>1, <2>2 DEF LastRegistered
  <1>3. CASE RejectDag \/ BuildDag
    <2>1. /\ phase = "register" /\ phase' # "register" /\ wf' = wf /\ node_map' = node_map
          /\ cursor > Len(AllNodes(wf))
      BY <1>3 DEF RejectDag, BuildDag, Return
    <2>2. \A j \in DOMAIN AllNodes(wf) : j < cursor
      BY <1>1, <2>1
    <2>3. DOMAIN node_map = Registered(wf)
      <3>1. cursor - 1 = Len(AllNodes(wf))
        BY <1>1, <2>1 DEF IInv, Registering
      <3> QED
        BY <1>1, <2>1, <3>1 DEF IInv, Registering, Registered
    <2> QED
      BY <2>1, <2>2, <2>3 DEF LastRegistered
  <1>4. CASE Next /\ ~RegisterNode /\ ~RejectDag /\ ~BuildDag
    <2>1. /\ phase # "register" /\ phase' # "register" /\ wf' = wf /\ node_map' = node_map
          /\ phase = "done" => phase' = "done"
      BY <1>4, SessionAnswers DEF Next, ScanNode, StartAtEntry, PickNode,
         QueueEmpty, SkipExecuted, NodeNotFound, Reached, WaitUnmet, WaitUnresolved, CallSession,
         NodeFails, MarkExecuted, Pause, TerminateFlow, ReleaseSuccessor, Jump, BeginRelease,
         EndRelease, DurationExceeded, ReportUnexecuted, Complete, Finished, Return,
         SessionStep, InSession, Serving, vars, schedVars
    <2> QED
      BY <2>1 DEF LastRegistered
  <1>5. CASE UNCHANGED vars
    BY <1>5 DEF LastRegistered, vars, schedVars
  <1> QED
    BY <1>2, <1>3, <1>4, <1>5

-----------------------------------------------------------------------------

\* What holds in every run, and between two runs.
RunInv == /\ IInv /\ SessionInv
          /\ QueueLinked /\ CallsSettled /\ ThrewEarly /\ LastRegistered

\* The engine's graphs are what the parser makes, a run works on them until it
\* is over, and then its records are the ones that are shown.
EngineInv ==
  /\ full_graphs \in Seq(ParsedGraph) /\ runs \in 0..MaxRuns
  /\ SchedulerTypeOK /\ SessionInv
  /\ runs = 0 => phase = "done" /\ traces = << >> /\ executed = {}
  /\ runs > 0 => RunInv
  /\ phase # "done" => wf = WorkflowOf(full_graphs)
  /\ phase = "done" /\ runs > 0 /\ result # "threw" => last_traces = traces

LEMMA InitEngineInv == EngineInit => EngineInv
  <1> SUFFICES ASSUME EngineInit PROVE EngineInv
    OBVIOUS
  <1>1. full_graphs \in Seq(ParsedGraph) /\ IsWorkflow(wf)
    BY ParsedDocument, WorkflowTyped DEF EngineInit
  <1>2. /\ phase = "done" /\ executed = {} /\ runs = 0 /\ traces = << >>
    BY DEF EngineInit, SessionInit
  <1>3. SchedulerTypeOK
    <2>1. ready_queue \in Seq(Path) /\ DOMAIN node_map = {}
      BY EmptySeq DEF EngineInit
    <2>2. in_degree \in [DOMAIN in_degree -> Nat]
      BY DEF EngineInit
    <2> QED
      BY <1>1, <2>1, <2>2 DEF EngineInit, SchedulerTypeOK, Phases, Results
  <1>4. SessionInv
    BY <1>1, <1>2, UnservedSessionInv DEF EngineInit, Unserved
  <1>5. runs \in 0..MaxRuns
    BY <1>2, EngineAssumption
  <1> QED
    BY <1>1, <1>2, <1>3, <1>4, <1>5 DEF EngineInv

LEMMA FreshRun == (Fresh /\ Unserved)' => (IInv /\ SessionInv)'
  BY FreshIInv, UnservedSessionInv, PTL

\* A run starts afresh, whatever the last one left.
LEMMA RunEngineInv == ASSUME NEW ctx \in {{}, context} PROVE EngineInv /\ Run(ctx) => EngineInv'
  <1> SUFFICES ASSUME EngineInv, Run(ctx) PROVE EngineInv'
    OBVIOUS
  <1>1. full_graphs \in Seq(ParsedGraph) /\ full_graphs' = full_graphs
    BY TakenBudget DEF EngineInv, Run
  <1>2. /\ wf' = WorkflowOf(full_graphs) /\ IsWorkflow(wf') /\ context' \subseteq Path
        /\ phase' = "register" /\ result' = "running" /\ executed' = {} /\ traces' = << >>
        /\ DOMAIN node_map' = {}
    BY <1>1, WorkflowTyped DEF Run, FreshScheduler, FreshCounters, EngineInv, SchedulerTypeOK
  <1>3. wf'.budget = BudgetOf(full_graphs)
    BY <1>2 DEF WorkflowOf
  <1>4. Fresh'
    BY <1>2 DEF Run, FreshScheduler, Fresh
  <1>5. Unserved'
    BY <1>2, <1>3 DEF Run, FreshCounters, FreshStore, Unserved, SessionInit, CE!EmptyStore
  <1>6. IInv' /\ SessionInv'
    BY <1>4, <1>5, FreshRun
  <1>7. QueueLinked' /\ ThrewEarly' /\ LastRegistered'
    BY <1>2 DEF QueueLinked, ThrewEarly, LastRegistered, Looping, Serving
  <1>8. CallsSettled'
    <2>1. DOMAIN traces' = {}
      BY <1>2
    <2> QED
      BY <1>2, <2>1 DEF CallsSettled
  <1>9. RunInv' /\ SchedulerTypeOK'
    BY <1>6, <1>7, <1>8 DEF RunInv, IInv
  <1>10. runs' \in 0..MaxRuns /\ runs' > 0
    BY EngineAssumption DEF EngineInv, Run
  <1> QED
    BY <1>1, <1>2, <1>6, <1>9, <1>10 DEF EngineInv

LEMMA SchedulerEngineInv == EngineInv /\ SchedulerStep => EngineInv'
  <1> SUFFICES ASSUME EngineInv, SchedulerStep PROVE EngineInv'
    OBVIOUS
  <1>1. /\ phase # "done" /\ Next /\ runs > 0 /\ RunInv
        /\ UNCHANGED <<full_graphs, runs>>
        /\ last_traces' = IF phase' = "done" /\ result' # "threw" THEN traces' ELSE last_traces
    BY EngineAssumption DEF SchedulerStep, EngineInv
  <1>2. wf' = wf
    BY <1>1, OutsideStep, SessionAnswers DEF RunInv
  <1>3. RunInv'
    BY <1>1, NextIInv, NextSessionInv, NextQueueLinked, NextCallsSettled, NextThrewEarly,
       NextLastRegistered DEF RunInv
  <1>4. SchedulerTypeOK' /\ SessionInv'
    BY <1>3 DEF RunInv, IInv
  <1> QED
    BY <1>1, <1>2, <1>3, <1>4 DEF EngineInv

LEMMA StutterRunInv == RunInv /\ UNCHANGED vars => RunInv'
  BY StutterIInv, SessionStutter, NextQueueLinked, NextCallsSettled, NextThrewEarly,
     NextLastRegistered DEF RunInv

LEMMA ContinueEngineInv ==
  EngineInv /\ ((\E d \in Generated : Continue(d)) \/ UNCHANGED allVars) => EngineInv'
  <1> SUFFICES ASSUME EngineInv, (\E d \in Generated : Continue(d)) \/ UNCHANGED allVars
               PROVE  EngineInv'
    OBVIOUS
  <1>1. /\ UNCHANGED <<vars, last_traces, runs>>
        /\ full_graphs' # full_graphs => phase = "done"
    BY DEF Continue, allVars, engineVars
  <1>2. full_graphs' \in Seq(ParsedGraph)
    <2>1. \A d \in Generated : Parse(d) \in Seq(ParsedGraph)
      BY ParsedDocument, EngineAssumption
    <2>2. full_graphs \in Seq(ParsedGraph)
      BY DEF EngineInv
    <2> QED
      BY <2>1, <2>2, ConcatProperties DEF Continue, allVars, engineVars
  <1>3. UNCHANGED <<wf, phase, result, executed, traces>>
    BY <1>1 DEF vars, sessionVars, schedVars
  <1>4. SessionInv' /\ (RunInv => RunInv')
    BY <1>1, SessionStutter, StutterRunInv DEF EngineInv
  <1>5. SchedulerTypeOK'
    BY <1>1 DEF EngineInv, SchedulerTypeOK, vars, schedVars
  <1> QED
    BY <1>1, <1>2, <1>3, <1>4, <1>5 DEF EngineInv

LEMMA EngineInvariance == EngineSpec => []EngineInv
  <1>1. EngineInv /\ [EngineNext]_allVars => EngineInv'
    BY RunEngineInv, SchedulerEngineInv, ContinueEngineInv DEF EngineNext, Rest
  <1> QED
    BY InitEngineInv, <1>1, PTL DEF EngineSpec

-----------------------------------------------------------------------------

\* Whatever is appended between runs, and in whatever order: every variable of
\* the engine and of its runs keeps its type.
THEOREM EngineTyping == EngineSpec => []EngineTypeOK
  <1>1. EngineInv => EngineTypeOK
    <2>1. ParsedGraph \subseteq Graph
      <3>1. ParsedNode \subseteq NodeRecord
        BY DEF ParsedNode
      <3>2. \A s \in Seq(ParsedNode) : s \in Seq(NodeRecord)
        BY <3>1
      <3> QED
        BY <3>2 DEF ParsedGraph, Graph
    <2>2. full_graphs \in Seq(ParsedGraph) => full_graphs \in Seq(Graph)
      BY <2>1
    <2> QED
      BY <2>2 DEF EngineInv, EngineTypeOK, TypeOK, SessionInv
  <1> QED
    BY EngineInvariance, <1>1, PTL

\* However the workflow goes on after a model call, the run does not, unless
\* the call failed with a text the scheduler jumps by.
THEOREM CallsEndRuns == EngineSpec => []ModelCallEndsRun
  <1>1. EngineInv => ModelCallEndsRun
    <2> SUFFICES ASSUME EngineInv PROVE ModelCallEndsRun
      OBVIOUS
    <2>1. CASE runs > 0
      BY <2>1 DEF EngineInv, RunInv, CallsSettled, Settled, ModelCallEndsRun
    <2>2. CASE runs = 0
      <3>1. DOMAIN traces = {}
        BY <2>2 DEF EngineInv
      <3> QED
        BY <3>1 DEF ModelCallEndsRun
    <2> QED
      BY <2>1, <2>2 DEF EngineInv
  <1> QED
    BY EngineInvariance, <1>1, PTL

\* With an entry, no node runs that nothing executed leads to: in any engine,
\* what is appended without an edge to it stays unexecuted, and AppendedNodesRun
\* fails.
THEOREM LinkedNodes == EngineSpec => []OnlyLinkedNodesRun
  <1>1. EngineInv => OnlyLinkedNodesRun
    BY DEF EngineInv, RunInv, QueueLinked, Linked, OnlyLinkedNodesRun
  <1> QED
    BY EngineInvariance, <1>1, PTL

\* The traces that are shown after a run are those of the nodes it executed,
\* none of an earlier run's.
THEOREM LastTraces == EngineSpec => []TracesAreOfLastRun
  <1>1. EngineInv => TracesAreOfLastRun
    <2> SUFFICES ASSUME EngineInv, phase = "done", runs > 0
                 PROVE  IF result = "threw" THEN executed = {} ELSE Ran(last_traces) = executed
      BY DEF TracesAreOfLastRun
    <2>1. {traces[i].node_path : i \in Succeeded} = executed
      BY DEF EngineInv, SessionInv, Accounted
    <2>2. Ran(traces) = {traces[i].node_path : i \in Succeeded}
      BY DEF Ran, Succeeded
    <2> QED
      BY <2>1, <2>2 DEF EngineInv, RunInv, ThrewEarly
  <1> QED
    BY EngineInvariance, <1>1, PTL

\* The nodes of a workflow, behind the three system nodes.
LEMMA UserNodesFollow ==
  ASSUME NEW w, IsWorkflow(w)
  PROVE  /\ \A i \in DOMAIN w.nodes : i + 3 \in DOMAIN AllNodes(w) /\ AllNodes(w)[i + 3] = w.nodes[i]
         /\ \A j \in DOMAIN AllNodes(w) : j > 3 => j - 3 \in DOMAIN w.nodes
         /\ DOMAIN w.nodes \subseteq Nat \ {0} /\ DOMAIN AllNodes(w) \subseteq Nat
  <1>1. w.nodes \in Seq(NodeRecord)
    BY DEF IsWorkflow, WorkflowRecord
  <1>2. /\ Len(AllNodes(w)) = 3 + Len(w.nodes)
        /\ \A i \in 1..(3 + Len(w.nodes)) :
              AllNodes(w)[i] = IF i <= 3 THEN SystemNodes[i] ELSE w.nodes[i - 3]
    BY <1>1, SystemNodesTyped, Prefixed DEF AllNodes
  <1>3. /\ Len(w.nodes) \in Nat /\ DOMAIN w.nodes = 1..Len(w.nodes)
        /\ DOMAIN AllNodes(w) = 1..(3 + Len(w.nodes))
    BY <1>1, <1>2, NodesTyped, LenProperties
  <1>4. ASSUME NEW i \in 1..Len(w.nodes)
        PROVE  i + 3 \in 1..(3 + Len(w.nodes)) /\ AllNodes(w)[i + 3] = w.nodes[i]
    <2>1. i + 3 \in 1..(3 + Len(w.nodes)) /\ ~(i + 3 <= 3) /\ i + 3 - 3 = i
      BY <1>3
    <2> QED
      BY <1>2, <2>1
  <1> QED
    BY <1>3, <1>4

\* A run works on the last definition that any document has given a path.
THEOREM WrittenNodes == EngineSpec => []WrittenNodesRun
  <1>1. EngineInv => WrittenNodesRun
    <2> DEFINE nodes == NodesOf(full_graphs)
    <2> SUFFICES ASSUME EngineInv, phase \notin {"register", "done"}, NEW i \in DOMAIN nodes,
                        \A j \in DOMAIN nodes : nodes[j].path = nodes[i].path => j <= i
                 PROVE  LET n == nodes[i]
                            m == NodeAt(n.path)
                        IN  n = IF n.type = "RESOURCE" THEN [m EXCEPT !.guarded = n.guarded] ELSE m
      BY DEF WrittenNodesRun
    <2> DEFINE n == nodes[i]
    <2>1. /\ full_graphs \in Seq(ParsedGraph) /\ wf = WorkflowOf(full_graphs)
          /\ SchedulerTypeOK /\ LastRegistered /\ IsWorkflow(wf)
      BY EngineAssumption DEF EngineInv, RunInv, SchedulerTypeOK
    <2>2. nodes \in Seq(ParsedNode) /\ \A j \in DOMAIN nodes : nodes[j] \in ParsedNode
      BY <2>1, NodesOfTyped, ElementOfSeq
    <2>3. DOMAIN wf.nodes = DOMAIN nodes /\ \A j \in DOMAIN nodes : wf.nodes[j] = Clone(nodes[j])
      BY <2>1 DEF WorkflowOf
    <2> HIDE DEF nodes
    <2>4. \A j \in DOMAIN nodes : wf.nodes[j].path = nodes[j].path
      BY <2>2, <2>3, ClonedNode
    <2> DEFINE k == node_map[n.path]
    <2>5. i + 3 \in DOMAIN AllNodes(wf) /\ AllNodes(wf)[i + 3] = Clone(n) /\ Clone(n).path = n.path
      BY <2>1, <2>2, <2>3, ClonedNode, UserNodesFollow
    <2>6. n.path \in DOMAIN node_map
      BY <2>1, <2>5 DEF LastRegistered, Registered
    <2>7. k \in DOMAIN AllNodes(wf) /\ AllNodes(wf)[k].path = n.path
      BY <2>1, <2>6 DEF SchedulerTypeOK
    <2>8. i + 3 <= k
      BY <2>1, <2>5, <2>6 DEF LastRegistered
    <2>9. k - 3 \in DOMAIN nodes /\ nodes[k - 3].path = n.path
      <3>1. k > 3 /\ k \in Nat /\ i \in Nat \ {0}
        BY <2>1, <2>3, <2>7, <2>8, UserNodesFollow
      <3>2. k - 3 \in DOMAIN wf.nodes /\ k - 3 + 3 = k
        BY <2>1, <2>7, <3>1, UserNodesFollow
      <3>3. AllNodes(wf)[k] = wf.nodes[k - 3]
        BY <2>1, <3>2, UserNodesFollow
      <3> QED
        BY <2>3, <2>4, <2>7, <3>2, <3>3
    <2>10. k = i + 3
      <3>1. k - 3 <= i /\ k \in Nat /\ i \in Nat
        BY <2>1, <2>3, <2>7, <2>9, UserNodesFollow
      <3> QED
        BY <2>8, <3>1
    <2>11. NodeAt(n.path) = Clone(n)
      BY <2>5, <2>10 DEF NodeAt
    <2> QED
      BY <2>2, <2>11, ClonedNode
  <1> QED
    BY EngineInvariance, <1>1, PTL

\* A budget that was written holds for every run to come.
THEOREM BudgetStays == EngineSpec => BudgetIsNeverLifted
  <1> DEFINE Stays == BudgetOf(full_graphs).engaged => BudgetOf(full_graphs)' = BudgetOf(full_graphs)
  <1>1. EngineInv /\ [EngineNext]_allVars => [Stays]_allVars
    <2> SUFFICES ASSUME EngineInv, EngineNext PROVE Stays
      OBVIOUS
    <2>1. full_graphs \in Seq(ParsedGraph)
      BY DEF EngineInv
    <2>2. CASE \E ctx \in {{}, context} : Run(ctx)
      BY <2>1, <2>2, TakenBudget DEF Run
    <2>3. CASE SchedulerStep \/ Rest
      BY <2>3 DEF SchedulerStep, Rest, allVars, engineVars
    <2>4. CASE \E d \in Generated : Continue(d)
      <3>1. PICK d \in Generated : full_graphs' = full_graphs \o Parse(d)
        BY <2>4 DEF Continue
      <3>2. Parse(d) \in Seq(ParsedGraph)
        BY ParsedDocument, EngineAssumption
      <3> QED
        BY <2>1, <3>1, <3>2, AppendedBudget
    <2> QED
      BY <2>2, <2>3, <2>4 DEF EngineNext
  <1> QED
    BY EngineInvariance, <1>1, PTL DEF EngineSpec, BudgetIsNeverLifted
================================================================================
