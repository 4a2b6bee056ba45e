-------------------------- MODULE TopoSchedulerProofs --------------------------
(***************************************************************************)
(* For every set of workflows: the scheduler keeps its types, its          *)
(* in-degrees count the edges still pending, and a run executes its        *)
(* workflow in dependency order (DagExecution).                            *)
(***************************************************************************)
EXTENDS SchedulerProperties, FiniteSetTheorems, SequenceTheorems, WellFoundedInduction, TLAPS

\* Facts about every workflow: its nodes are node records, its edges are
\* finitely many, and its nodes' paths are paths.  Last, induction.

LEMMA SystemNodesTyped == SystemNodes \in Seq(NodeRecord) /\ Len(SystemNodes) = 3
  <1>1. \A p \in SystemPath, mode \in {"hard", "soft"} : SystemEnd(p, mode) \in NodeRecord
    <2>1. << >> \in Seq(Path)
      BY EmptySeq
    <2> QED
      BY <2>1 DEF SystemEnd, NodeRecord, NodeType, Path
  <1>2. BudgetExceeded \in SystemPath /\ EndSoft \in SystemPath /\ Noop \in SystemPath
    BY DEF SystemPath
  <1> QED
    BY <1>1, <1>2 DEF SystemNodes

LEMMA Prefixed ==
  ASSUME NEW S, NEW s \in Seq(S), NEW t \in Seq(S), Len(s) = 3
  PROVE  /\ s \o t \in Seq(S)
         /\ Len(s \o t) = 3 + Len(t)
         /\ \A i \in 1..(3 + Len(t)) : (s \o t)[i] = IF i <= 3 THEN s[i] ELSE t[i - 3]
  <1>1. Len(t) \in Nat /\ s \o t \in Seq(S) /\ Len(s \o t) = Len(s) + Len(t)
    BY LenProperties, ConcatProperties
  <1>2. \A i \in 1..(3 + Len(t)) : (s \o t)[i] = IF i <= Len(s) THEN s[i] ELSE t[i - Len(s)]
    BY <1>1, ConcatProperties
  <1> QED
    BY <1>1, <1>2

\* The positions of a sequence are finitely many.
LEMMA FinitePositions == ASSUME NEW S, NEW s \in Seq(S) PROVE IsFiniteSet(DOMAIN s)
  <1>1. DOMAIN s = 1..Len(s) /\ Len(s) \in Nat
    BY LenProperties
  <1>2. IsFiniteSet(1..Len(s))
    BY <1>1, FS_Interval
  <1> QED
    BY <1>1, <1>2

\* The nodes of a run, the system nodes first.
LEMMA NodesTyped ==
  ASSUME NEW w, IsWorkflow(w)
  PROVE  /\ AllNodes(w) \in Seq(NodeRecord)
         /\ DOMAIN AllNodes(w) = 1..Len(AllNodes(w)) /\ Len(AllNodes(w)) \in Nat
         /\ \A i \in DOMAIN AllNodes(w) :
               /\ AllNodes(w)[i] \in NodeRecord
               /\ \/ JumpTargets(AllNodes(w)[i]) = {}
                  \/ \E k \in DOMAIN w.nodes : AllNodes(w)[i] = w.nodes[k]
  <1>1. w.nodes \in Seq(NodeRecord)
    BY DEF IsWorkflow, WorkflowRecord
  <1>2. /\ AllNodes(w) \in Seq(NodeRecord)
        /\ Len(AllNodes(w)) = 3 + Len(w.nodes)
        /\ \A i \in 1..(3 + Len(w.nodes)) :
              AllNodes(w)[i] = IF i <= 3 THEN SystemNodes[i] ELSE w.nodes[i - 3]
    BY <1>1, SystemNodesTyped, Prefixed DEF AllNodes
  <1>3. \A i \in 1..3 : JumpTargets(SystemNodes[i]) = {}
    <2>1. \A path, mode : JumpTargets(SystemEnd(path, mode)) = {}
      BY DEF JumpTargets, SystemEnd
    <2>2. /\ JumpTargets(SystemNodes[1]) = {} /\ JumpTargets(SystemNodes[2]) = {}
          /\ JumpTargets(SystemNodes[3]) = {}
      BY <2>1 DEF SystemNodes
    <2>3. \A i \in 1..3 : i = 1 \/ i = 2 \/ i = 3
      OBVIOUS
    <2> QED
      BY <2>2, <2>3
  <1>4. Len(w.nodes) \in Nat /\ DOMAIN w.nodes = 1..Len(w.nodes)
    BY <1>1, LenProperties
  <1>5. DOMAIN AllNodes(w) = 1..Len(AllNodes(w)) /\ Len(AllNodes(w)) \in Nat
    BY <1>2, LenProperties
  <1>6. ASSUME NEW i \in DOMAIN AllNodes(w)
        PROVE  /\ AllNodes(w)[i] \in NodeRecord
               /\ \/ JumpTargets(AllNodes(w)[i]) = {}
                  \/ \E k \in DOMAIN w.nodes : AllNodes(w)[i] = w.nodes[k]
    <2>1. AllNodes(w)[i] \in NodeRecord
      BY <1>2, <1>5, ElementOfSeq
    <2>2. CASE i <= 3
      BY <1>2, <1>3, <1>5, <2>1, <2>2
    <2>3. CASE i > 3
      <3>1. i - 3 \in DOMAIN w.nodes /\ AllNodes(w)[i] = w.nodes[i - 3]
        BY <1>2, <1>4, <1>5, <2>3
      <3> QED
        BY <2>1, <3>1
    <2> QED
      BY <1>5, <2>2, <2>3
  <1> QED
    BY <1>2, <1>5, <1>6

\* A node's lists are sequences of paths.
LEMMA NodeFields ==
  ASSUME NEW w, IsWorkflow(w), NEW i \in DOMAIN AllNodes(w)
  PROVE  /\ AllNodes(w)[i].path \in Path
         /\ AllNodes(w)[i].next \in Seq(Path)
         /\ AllNodes(w)[i].wait_for \in Seq(Path)
         /\ AllNodes(w)[i].on_failure \in Path \cup {NoPath}
  BY NodesTyped DEF NodeRecord

LEMMA RegisteredPaths == ASSUME NEW w, IsWorkflow(w) PROVE Registered(w) \subseteq Path
  BY NodeFields DEF Registered

LEMMA ForcedPaths == ASSUME NEW w, IsWorkflow(w) PROVE Forced(w) \subseteq Path
  <1>1. w.nodes \in Seq(NodeRecord) /\ w.entry \in Path \cup {NoPath}
    BY DEF IsWorkflow, WorkflowRecord
  <1>2. \A k \in DOMAIN w.nodes : w.nodes[k] \in NodeRecord
    BY <1>1, LenProperties, ElementOfSeq
  <1>3. \A k \in DOMAIN w.nodes : JumpTargets(w.nodes[k]) \subseteq Path
    BY <1>2 DEF NodeRecord, JumpTargets
  <1> QED
    BY <1>1, <1>3 DEF Forced

\* A set indexed by a finite interval of finite sets has a finite union.
LEMMA FiniteUnion ==
  ASSUME NEW n \in Nat, NEW f, \A i \in 1..n : IsFiniteSet(f[i])
  PROVE  IsFiniteSet(UNION {f[i] : i \in 1..n})
  <1> DEFINE g == [i \in 1..n |-> f[i]]
             S == {f[i] : i \in 1..n}
  <1>1. g \in Surjection(1..n, S)
    BY DEF Surjection
  <1>2. IsFiniteSet(S)
    BY <1>1, FS_Interval, FS_Surjection
  <1>3. \A T \in S : IsFiniteSet(T)
    OBVIOUS
  <1> QED
    BY <1>2, <1>3, FS_UNION

LEMMA NextEdgesFinite == ASSUME NEW w, IsWorkflow(w) PROVE IsFiniteSet(NextEdges(w))
  <1> DEFINE n == Len(AllNodes(w))
             f == [i \in 1..n |-> {i} \X DOMAIN AllNodes(w)[i].next]
  <1>1. n \in Nat /\ DOMAIN AllNodes(w) = 1..n
    BY NodesTyped
  <1>2. \A i \in 1..n : IsFiniteSet(f[i])
    <2> TAKE i \in 1..n
    <2>1. IsFiniteSet(DOMAIN AllNodes(w)[i].next)
      <3>1. AllNodes(w)[i].next \in Seq(Path)
        BY <1>1, NodeFields
      <3> HIDE DEF f
      <3> QED
        BY <3>1, FinitePositions
    <2>2. IsFiniteSet({i} \X DOMAIN AllNodes(w)[i].next)
      <3>1. IsFiniteSet({i})
        BY FS_Singleton
      <3> HIDE DEF f
      <3> QED
        BY <2>1, <3>1, FS_Product
    <2> QED
      BY <2>2
  <1>3. IsFiniteSet(UNION {f[i] : i \in 1..n})
    <2> HIDE DEF f
    <2> QED
      BY <1>1, <1>2, FiniteUnion
  <1>4. NextEdges(w) = UNION {f[i] : i \in 1..n}
    BY <1>1 DEF NextEdges
  <1> QED
    BY <1>3, <1>4

LEMMA WaitEdgesFinite == ASSUME NEW w, IsWorkflow(w) PROVE IsFiniteSet(WaitEdges(w))
  <1> DEFINE n == Len(AllNodes(w))
             f == [i \in 1..n |-> {i} \X DOMAIN AllNodes(w)[i].wait_for]
  <1>1. n \in Nat /\ DOMAIN AllNodes(w) = 1..n
    BY NodesTyped
  <1>2. \A i \in 1..n : IsFiniteSet(f[i])
    <2> TAKE i \in 1..n
    <2>1. IsFiniteSet(DOMAIN AllNodes(w)[i].wait_for)
      <3>1. AllNodes(w)[i].wait_for \in Seq(Path)
        BY <1>1, NodeFields
      <3> HIDE DEF f
      <3> QED
        BY <3>1, FinitePositions
    <2>2. IsFiniteSet({i} \X DOMAIN AllNodes(w)[i].wait_for)
      <3>1. IsFiniteSet({i})
        BY FS_Singleton
      <3> HIDE DEF f
      <3> QED
        BY <2>1, <3>1, FS_Product
    <2> QED
      BY <2>2
  <1>3. IsFiniteSet(UNION {f[i] : i \in 1..n})
    <2> HIDE DEF f
    <2> QED
      BY <1>1, <1>2, FiniteUnion
  <1>4. WaitEdges(w) = UNION {f[i] : i \in 1..n}
    BY <1>1 DEF WaitEdges
  <1> QED
    BY <1>3, <1>4

\* An edge is the pair of a node and one of its successors.
LEMMA EdgeShape ==
  ASSUME NEW w, IsWorkflow(w), NEW e \in NextEdges(w)
  PROVE  /\ e = <<e[1], e[2]>>
         /\ e[1] \in DOMAIN AllNodes(w)
         /\ e[2] \in DOMAIN AllNodes(w)[e[1]].next
         /\ e[2] \in Nat \ {0}
         /\ e[2] <= Len(AllNodes(w)[e[1]].next)
  <1>1. PICK i \in DOMAIN AllNodes(w) : e \in {i} \X DOMAIN AllNodes(w)[i].next
    BY DEF NextEdges
  <1>2. e = <<e[1], e[2]>> /\ e[1] = i /\ e[2] \in DOMAIN AllNodes(w)[i].next
    BY <1>1
  <1>3. /\ DOMAIN AllNodes(w)[i].next = 1..Len(AllNodes(w)[i].next)
        /\ Len(AllNodes(w)[i].next) \in Nat
    BY NodeFields, LenProperties
  <1> QED
    BY <1>2, <1>3

\* Every successor of every node is an edge.
LEMMA SuccessorEdge ==
  ASSUME NEW w, IsWorkflow(w), NEW i \in DOMAIN AllNodes(w),
         NEW k \in DOMAIN AllNodes(w)[i].next
  PROVE  /\ <<i, k>> \in NextEdges(w)
         /\ Source(w, <<i, k>>) = AllNodes(w)[i].path
         /\ Target(w, <<i, k>>) = AllNodes(w)[i].next[k]
  <1>1. <<i, k>> \in {i} \X DOMAIN AllNodes(w)[i].next
    OBVIOUS
  <1> QED
    BY <1>1 DEF NextEdges, Source, Target

-----------------------------------------------------------------------------

\* Every nonempty set of naturals has a least element.
LEMMA LeastNumber ==
  ASSUME NEW S \in SUBSET Nat, S # {}
  PROVE  \E m \in S : \A k \in S : m <= k
  <1> DEFINE R == {p \in Nat \X Nat : p[1] < p[2]}
  <1>1. IsWellFoundedOn(R, Nat)
    BY NatLessThanWellFounded DEF OpToRel
  <1>2. PICK x \in S : \A y \in S : ~(<<y, x>> \in R)
    <2> HIDE DEF R
    <2> QED
      BY <1>1, WFMin
  <1>3. \A y \in S : ~(y < x)
    BY <1>2
  <1> QED
    BY <1>3

\* Induction, for a set instead of a predicate.
LEMMA InductiveSet ==
  ASSUME NEW S, 0 \in S, \A n \in Nat : n \in S => n + 1 \in S
  PROVE  Nat \subseteq S
  <1> SUFFICES ASSUME Nat \ S # {} PROVE FALSE
    OBVIOUS
  <1>1. PICK n \in Nat \ S : \A m \in Nat \ S : n <= m
    BY LeastNumber
  <1>2. n # 0 /\ n - 1 \in Nat /\ n - 1 \notin Nat \ S
    BY <1>1
  <1> QED
    BY <1>2

-----------------------------------------------------------------------------

Serving == {"enter", "charge", "run", "resave", "trace", "result"}

\* While nodes are registered nothing else has happened.
Registering ==
  phase = "register" =>
    /\ cursor <= Len(AllNodes(wf)) + 1
    /\ DOMAIN node_map = {AllNodes(wf)[i].path : i \in 1..(cursor - 1)}
    /\ in_degree = [p \in {} |-> 0]
    /\ ready_queue = << >>

BeforeLoop == phase \in {"register", "scan"} => executed = {}

Built ==
  phase \in Looping =>
    /\ DOMAIN node_map = Registered(wf)
    /\ DOMAIN in_degree = Registered(wf)
    /\ WellFormed(wf)

Counted ==
  phase \in Looping =>
    \A p \in Registered(wf) :
       in_degree[p] = Cardinality(Pending(p)) + Cardinality(WaitsOf(wf, p))

\* The paths that may run: nothing is pending before them, or they are forced.
Allowed(p) == p \in Forced(wf) \/ (p \in Registered(wf) /\ in_degree[p] = 0)

QueueAllowed == phase \in Looping => \A k \in DOMAIN ready_queue : Allowed(ready_queue[k])

CurrentPlaced ==
  /\ phase \in Serving \cup {"gate"} => Allowed(current)
  /\ phase \in Serving => current \in DOMAIN node_map /\ current \notin executed
  /\ phase \in {"executed", "release"} => current \in executed

\* A jump comes from a node that has a target.
JumpKnown ==
  /\ phase = "resave" => outcome = "ok"
  /\ phase \in {"trace", "result"} /\ outcome = "jump" => JumpTargets(Node) # {}

Ended == phase = "done" <=> result # "running"

IInv == /\ SchedulerTypeOK /\ Registering /\ BeforeLoop /\ Built /\ Counted
        /\ QueueAllowed /\ CurrentPlaced /\ JumpKnown /\ Ended

-----------------------------------------------------------------------------

\* The sets whose cardinalities make an in-degree are finite.
LEMMA PendingFinite ==
  ASSUME IsWorkflow(wf), NEW p
  PROVE  /\ IsFiniteSet(Pending(p)) /\ Cardinality(Pending(p)) \in Nat
         /\ IsFiniteSet(WaitsOf(wf, p)) /\ Cardinality(WaitsOf(wf, p)) \in Nat
  <1>1. Pending(p) \subseteq NextEdges(wf) /\ WaitsOf(wf, p) \subseteq WaitEdges(wf)
    BY DEF Pending, EdgesInto, WaitsOf
  <1>2. IsFiniteSet(Pending(p)) /\ IsFiniteSet(WaitsOf(wf, p))
    BY <1>1, NextEdgesFinite, WaitEdgesFinite, FS_Subset
  <1> QED
    BY <1>2, FS_CardinalityType

\* Pending edges change only with what has executed and the release under way.
LEMMA PendingFrame ==
  ASSUME UNCHANGED <<wf, node_map, executed>>,
         phase \notin {"executed", "release"}, phase' \notin {"executed", "release"},
         NEW p
  PROVE  Pending(p)' = Pending(p)
  BY DEF Pending, Released

\* A run before its first step, whatever context it is given.
Fresh == /\ IsWorkflow(wf) /\ context \subseteq Path
         /\ phase = "register" /\ result = "running"
         /\ cursor = 1 /\ node_map = [p \in {} |-> 0] /\ in_degree = [p \in {} |-> 0]
         /\ ready_queue = << >> /\ current = NoPath /\ executed = {}

LEMMA FreshIInv == Fresh => IInv
  <1> SUFFICES ASSUME Fresh PROVE IInv
    OBVIOUS
  <1> USE DEF Fresh
  <1>1. IsWorkflow(wf) /\ Len(AllNodes(wf)) \in Nat
    BY NodesTyped
  <1>2. DOMAIN node_map = {} /\ {AllNodes(wf)[i].path : i \in 1..(cursor - 1)} = {}
    OBVIOUS
  <1>3. ready_queue \in Seq(Path)
    BY EmptySeq
  <1>4. in_degree \in [DOMAIN in_degree -> Nat]
    OBVIOUS
  <1>5. SchedulerTypeOK
    BY <1>1, <1>2, <1>3, <1>4 DEF SchedulerTypeOK, Phases, Results
  <1>6. Registering
    BY <1>1, <1>2 DEF Registering
  <1>7. /\ BeforeLoop /\ Built /\ Counted /\ QueueAllowed /\ CurrentPlaced
        /\ JumpKnown /\ Ended
    BY DEF BeforeLoop, Built, Counted, QueueAllowed, CurrentPlaced, JumpKnown, Ended,
           Looping, Serving
  <1> QED
    BY <1>5, <1>6, <1>7 DEF IInv

LEMMA InitIInv == Init => IInv
  BY FreshIInv, WorkflowAssumption DEF Init, Fresh

\* A step that ends the run.
LEMMA ReturnIInv ==
  ASSUME IInv, phase' = "done", result' \in Results \ {"running"},
         UNCHANGED <<wf, context, cursor, node_map, in_degree, current, executed>>,
         ready_queue' \in Seq(Path)
  PROVE  IInv'
  <1>1. SchedulerTypeOK'
    BY DEF IInv, SchedulerTypeOK, Phases
  <1>2. /\ Registering' /\ BeforeLoop' /\ Built' /\ Counted' /\ QueueAllowed'
        /\ CurrentPlaced' /\ JumpKnown' /\ Ended'
    BY DEF Registering, BeforeLoop, Built, Counted, QueueAllowed, CurrentPlaced,
           JumpKnown, Ended, Looping, Serving
  <1> QED
    BY <1>1, <1>2 DEF IInv

\* A step that moves the run on without touching the graph.
LEMMA FrameCounted ==
  ASSUME IInv, UNCHANGED <<wf, node_map, in_degree, executed>>, phase \in Looping,
         phase \notin {"executed", "release"}, phase' \notin {"executed", "release"}
  PROVE  Built' /\ Counted'
  <1>1. Built'
    BY DEF IInv, Built
  <1>2. \A p : Pending(p)' = Pending(p)
    BY PendingFrame
  <1>3. \A p \in Registered(wf) :
          in_degree[p] = Cardinality(Pending(p)) + Cardinality(WaitsOf(wf, p))
    BY DEF IInv, Counted
  <1>4. wf' = wf /\ in_degree' = in_degree
    OBVIOUS
  <1>5. Counted'
    BY <1>2, <1>3, <1>4 DEF Counted
  <1> QED
    BY <1>1, <1>5

-----------------------------------------------------------------------------

LEMMA RegisterNodeIInv == IInv /\ RegisterNode => IInv'
  <1> SUFFICES ASSUME IInv, RegisterNode PROVE IInv'
    OBVIOUS
  <1> DEFINE p == AllNodes(wf)[cursor].path
  <1>1. IsWorkflow(wf) /\ cursor \in Nat \ {0}
    BY DEF IInv, SchedulerTypeOK
  <1>2. /\ DOMAIN AllNodes(wf) = 1..Len(AllNodes(wf)) /\ Len(AllNodes(wf)) \in Nat
    BY <1>1, NodesTyped
  <1>3. cursor \in DOMAIN AllNodes(wf) /\ cursor' = cursor + 1 /\ cursor' \in Nat \ {0}
    BY <1>1, <1>2 DEF RegisterNode
  <1>4. node_map' = [q \in DOMAIN node_map \cup {p} |-> IF q = p THEN cursor ELSE node_map[q]]
    BY DEF RegisterNode
  <1>5. /\ phase = "register" /\ phase' = "register" /\ executed = {} /\ executed' = {}
        /\ result' = result /\ current' = current /\ wf' = wf /\ context' = context
        /\ ready_queue' = ready_queue /\ in_degree' = in_degree
    BY DEF RegisterNode, IInv, BeforeLoop
  <1>6. DOMAIN node_map' \subseteq Registered(wf)
    BY <1>3, <1>4 DEF IInv, SchedulerTypeOK, Registered
  <1>7. \A q \in DOMAIN node_map' : /\ node_map'[q] \in DOMAIN AllNodes(wf)
                                    /\ AllNodes(wf)[node_map'[q]].path = q
    BY <1>3, <1>4 DEF IInv, SchedulerTypeOK
  <1>8. SchedulerTypeOK'
    BY <1>1, <1>3, <1>5, <1>6, <1>7 DEF IInv, SchedulerTypeOK
  <1>9. Registering'
    <2>1. DOMAIN node_map = {AllNodes(wf)[i].path : i \in 1..(cursor - 1)}
      BY <1>5 DEF IInv, Registering
    <2>2. 1..(cursor' - 1) = 1..(cursor - 1) \cup {cursor}
      BY <1>1, <1>3
    <2>3. DOMAIN node_map' = {AllNodes(wf)[i].path : i \in 1..(cursor' - 1)}
      BY <1>4, <2>1, <2>2
    <2>4. cursor' <= Len(AllNodes(wf)) + 1
      BY <1>1, <1>2, <1>3
    <2> QED
      BY <1>5, <2>3, <2>4 DEF IInv, Registering
  <1>10. /\ BeforeLoop' /\ Built' /\ Counted' /\ QueueAllowed' /\ CurrentPlaced'
         /\ JumpKnown' /\ Ended'
    BY <1>5 DEF IInv, BeforeLoop, Built, Counted, QueueAllowed, CurrentPlaced, JumpKnown,
           Ended, Looping, Serving
  <1> QED
    BY <1>8, <1>9, <1>10 DEF IInv

\* build_dag counts every edge into a node, for nothing has executed.
LEMMA BuildDagIInv == IInv /\ BuildDag => IInv'
  <1> SUFFICES ASSUME IInv, BuildDag PROVE IInv'
    OBVIOUS
  <1>1. IsWorkflow(wf) /\ cursor \in Nat \ {0}
    BY DEF IInv, SchedulerTypeOK
  <1>2. DOMAIN AllNodes(wf) = 1..Len(AllNodes(wf)) /\ Len(AllNodes(wf)) \in Nat
    BY <1>1, NodesTyped
  <1>3. /\ phase = "register" /\ phase' = "scan" /\ cursor' = 1 /\ executed = {} /\ executed' = {}
        /\ result' = result /\ current' = current /\ wf' = wf /\ context' = context
        /\ node_map' = node_map /\ ready_queue' = << >>
    BY DEF BuildDag, IInv, BeforeLoop, Registering
  <1>4. DOMAIN node_map = Registered(wf)
    <2>1. cursor - 1 = Len(AllNodes(wf))
      BY <1>1, <1>2 DEF BuildDag, IInv, Registering
    <2> QED
      BY <1>2, <2>1 DEF BuildDag, IInv, Registering, Registered
  <1>5. \A p : Pending(p) = EdgesInto(wf, p) /\ Pending(p)' = EdgesInto(wf, p)
    BY <1>3 DEF Pending, Released
  <1>6. /\ DOMAIN in_degree' = Registered(wf)
        /\ \A p \in Registered(wf) :
              in_degree'[p] = Cardinality(EdgesInto(wf, p)) + Cardinality(WaitsOf(wf, p))
    BY <1>4 DEF BuildDag
  <1>7. \A p \in Registered(wf) : in_degree'[p] \in Nat
    BY <1>1, <1>5, <1>6, PendingFinite
  <1>8. in_degree' \in [DOMAIN in_degree' -> Nat]
    <2>1. in_degree' = [p \in DOMAIN in_degree' |-> in_degree'[p]]
      BY DEF BuildDag
    <2> QED
      BY <1>6, <1>7, <2>1
  <1>9. SchedulerTypeOK'
    <2>1. ready_queue' \in Seq(Path)
      BY <1>3, EmptySeq
    <2> QED
      BY <1>3, <1>8, <2>1 DEF IInv, SchedulerTypeOK, Phases
  <1>10. Built'
    BY <1>3, <1>4, <1>6 DEF BuildDag, Built
  <1>11. Counted'
    BY <1>3, <1>5, <1>6 DEF Counted
  <1>12. /\ Registering' /\ BeforeLoop' /\ QueueAllowed' /\ CurrentPlaced' /\ JumpKnown' /\ Ended'
    BY <1>3 DEF IInv, Registering, BeforeLoop, QueueAllowed, CurrentPlaced, JumpKnown, Ended, Serving
  <1> QED
    BY <1>9, <1>10, <1>11, <1>12 DEF IInv

LEMMA ScanNodeIInv == IInv /\ ScanNode => IInv'
  <1> SUFFICES ASSUME IInv, ScanNode PROVE IInv'
    OBVIOUS
  <1> DEFINE p == AllNodes(wf)[cursor].path
  <1>1. IsWorkflow(wf) /\ cursor \in Nat \ {0} /\ ready_queue \in Seq(Path)
    BY DEF IInv, SchedulerTypeOK
  <1>2. DOMAIN AllNodes(wf) = 1..Len(AllNodes(wf)) /\ Len(AllNodes(wf)) \in Nat
    BY <1>1, NodesTyped
  <1>3. p \in Registered(wf) /\ p \in Path
    BY <1>1, <1>2, RegisteredPaths DEF ScanNode, Registered
  <1>4. ready_queue' \in {ready_queue, Append(ready_queue, p)} /\ ready_queue' \in Seq(Path)
    BY <1>1, <1>3 DEF ScanNode
  <1>5. QueueAllowed'
    <2>1. \A k \in DOMAIN ready_queue : Allowed(ready_queue[k])
      BY DEF ScanNode, IInv, QueueAllowed, Looping
    <2>2. \A k \in DOMAIN ready_queue' : Allowed(ready_queue'[k])
      <3>1. CASE in_degree[p] = 0
        <4>1. Allowed(p)
          BY <1>3, <3>1 DEF Allowed
        <4> QED
          BY <1>1, <1>3, <2>1, <3>1, <4>1 DEF ScanNode
      <3>2. CASE in_degree[p] # 0
        BY <2>1, <3>2 DEF ScanNode
      <3> QED
        BY <3>1, <3>2
    <2>3. wf' = wf /\ in_degree' = in_degree
      BY DEF ScanNode
    <2> QED
      BY <2>2, <2>3 DEF QueueAllowed, Allowed
  <1>6. Built' /\ Counted'
    BY FrameCounted DEF ScanNode, Looping
  <1>7. SchedulerTypeOK'
    BY <1>1, <1>4 DEF ScanNode, IInv, SchedulerTypeOK
  <1>8. Registering' /\ BeforeLoop' /\ CurrentPlaced' /\ JumpKnown' /\ Ended'
    BY DEF ScanNode, IInv, Registering, BeforeLoop, CurrentPlaced, JumpKnown, Ended, Serving
  <1> QED
    BY <1>5, <1>6, <1>7, <1>8 DEF IInv

\* The entry is a forced path.
LEMMA StartAtEntryIInv == IInv /\ StartAtEntry => IInv'
  <1> SUFFICES ASSUME IInv, StartAtEntry PROVE IInv'
    OBVIOUS
  <1> DEFINE Unchanged == UNCHANGED <<wf, context, sessionVars, cursor, node_map, in_degree,
                                      current, executed>>
  <1>1. IsWorkflow(wf) /\ ready_queue \in Seq(Path) /\ DOMAIN node_map = Registered(wf)
    BY DEF IInv, SchedulerTypeOK, StartAtEntry, Built, Looping
  <1>2. phase = "scan" /\ Unchanged
    BY DEF StartAtEntry
  <1>3. \/ phase' = "loop" /\ ready_queue' = ready_queue /\ result' = result
        \/ /\ wf.entry # NoPath /\ wf.entry \in Registered(wf)
           /\ phase' = "loop" /\ ready_queue' = <<wf.entry>> /\ result' = result
        \/ Return("entry not found") /\ ready_queue' = << >>
    BY <1>1 DEF StartAtEntry
  <1>4. CASE Return("entry not found") /\ ready_queue' = << >>
    <2>1. ready_queue' \in Seq(Path)
      BY <1>4, EmptySeq
    <2>2. phase' = "done" /\ result' \in Results \ {"running"}
      BY <1>4 DEF Return, Results
    <2> QED
      BY <1>2, <2>1, <2>2, ReturnIInv
  <1>5. CASE phase' = "loop" /\ result' = result
    <2>1. /\ ready_queue' \in Seq(Path)
          /\ \A k \in DOMAIN ready_queue' : Allowed(ready_queue'[k])
      <3>1. CASE ready_queue' = ready_queue
        BY <1>1, <1>2, <3>1 DEF IInv, QueueAllowed, Looping
      <3>2. CASE wf.entry # NoPath /\ wf.entry \in Registered(wf) /\ ready_queue' = <<wf.entry>>
        <4>1. wf.entry \in Path
          BY <1>1, <3>2, RegisteredPaths
        <4>2. Allowed(wf.entry)
          BY <3>2 DEF Allowed, Forced
        <4>3. /\ <<wf.entry>> \in Seq(Path) /\ DOMAIN <<wf.entry>> = {1}
              /\ <<wf.entry>>[1] = wf.entry
          BY <4>1
        <4> QED
          BY <3>2, <4>2, <4>3
      <3> QED
        BY <1>3, <1>5, <3>1, <3>2 DEF Return
    <2>2. QueueAllowed'
      BY <1>2, <2>1 DEF QueueAllowed, Allowed
    <2>3. Built' /\ Counted'
      BY <1>2, <1>5, FrameCounted DEF Looping
    <2>4. SchedulerTypeOK'
      BY <1>2, <1>5, <2>1 DEF IInv, SchedulerTypeOK, Phases
    <2>5. Registering' /\ BeforeLoop' /\ CurrentPlaced' /\ JumpKnown' /\ Ended'
      BY <1>2, <1>5 DEF IInv, Registering, BeforeLoop, CurrentPlaced, JumpKnown, Ended, Serving
    <2> QED
      BY <2>2, <2>3, <2>4, <2>5 DEF IInv
  <1> QED
    BY <1>3, <1>4, <1>5

LEMMA PickNodeIInv == IInv /\ PickNode => IInv'
  <1> SUFFICES ASSUME IInv, PickNode PROVE IInv'
    OBVIOUS
  <1>1. /\ phase = "loop" /\ phase' = "gate"
        /\ UNCHANGED <<wf, context, sessionVars, cursor, node_map, in_degree, executed, result>>
    BY DEF PickNode
  <1>2. ready_queue \in Seq(Path) /\ ready_queue # << >>
    BY DEF PickNode, IInv, SchedulerTypeOK
  <1>3. /\ ready_queue' = Tail(ready_queue) /\ current' = Head(ready_queue)
        /\ ready_queue' \in Seq(Path) /\ current' \in Path
        /\ 1 \in DOMAIN ready_queue /\ current' = ready_queue[1]
        /\ \A k \in DOMAIN ready_queue' : /\ k + 1 \in DOMAIN ready_queue
                                          /\ ready_queue'[k] = ready_queue[k + 1]
    BY <1>2 DEF PickNode
  <1>4. \A k \in DOMAIN ready_queue : Allowed(ready_queue[k])
    BY <1>1 DEF IInv, QueueAllowed, Looping
  <1>5. Allowed(current') /\ \A k \in DOMAIN ready_queue' : Allowed(ready_queue'[k])
    BY <1>3, <1>4
  <1>6. QueueAllowed' /\ CurrentPlaced'
    BY <1>1, <1>5 DEF QueueAllowed, CurrentPlaced, Allowed, Serving
  <1>7. Built' /\ Counted'
    BY <1>1, FrameCounted DEF Looping
  <1>8. SchedulerTypeOK'
    BY <1>1, <1>3 DEF IInv, SchedulerTypeOK, Phases
  <1>9. Registering' /\ BeforeLoop' /\ JumpKnown' /\ Ended'
    BY <1>1 DEF IInv, Registering, BeforeLoop, JumpKnown, Ended
  <1> QED
    BY <1>6, <1>7, <1>8, <1>9 DEF IInv

\* Steps that only move to another statement of the loop.
LEMMA MoveIInv ==
  ASSUME IInv, UNCHANGED <<wf, context, sessionVars, schedVars>>,
         \/ phase \in {"loop", "gate"} /\ phase' \in {"loop", "check"}
         \/ /\ phase = "gate" /\ phase' = "enter"
            /\ current \in DOMAIN node_map /\ current \notin executed
  PROVE  IInv'
  <1> USE DEF sessionVars, schedVars
  <1>1. Built' /\ Counted'
    BY FrameCounted DEF Looping
  <1>2. SchedulerTypeOK'
    BY DEF IInv, SchedulerTypeOK, Phases
  <1>3. QueueAllowed'
    BY DEF IInv, QueueAllowed, Allowed, Looping
  <1>4. CurrentPlaced'
    BY DEF IInv, CurrentPlaced, Allowed, Serving
  <1>5. Registering' /\ BeforeLoop' /\ JumpKnown' /\ Ended'
    BY DEF IInv, Registering, BeforeLoop, JumpKnown, Ended
  <1> QED
    BY <1>1, <1>2, <1>3, <1>4, <1>5 DEF IInv

LEMMA LoopMovesIInv == IInv /\ (QueueEmpty \/ SkipExecuted \/ CallSession) => IInv'
  BY MoveIInv DEF QueueEmpty, SkipExecuted, CallSession, Reached

LEMMA WaitUnmetIInv == IInv /\ WaitUnmet => IInv'
  <1> SUFFICES ASSUME IInv, WaitUnmet PROVE IInv'
    OBVIOUS
  <1>1. /\ phase = "gate" /\ phase' = "loop" /\ current \in DOMAIN node_map
        /\ UNCHANGED <<wf, context, sessionVars, cursor, node_map, in_degree, current, executed, result>>
        /\ ready_queue' = Append(ready_queue, current)
    BY DEF WaitUnmet, Reached
  <1>2. ready_queue \in Seq(Path) /\ current \in Path /\ IsWorkflow(wf)
    BY <1>1, RegisteredPaths DEF IInv, SchedulerTypeOK
  <1>3. Allowed(current) /\ \A k \in DOMAIN ready_queue : Allowed(ready_queue[k])
    BY <1>1 DEF IInv, QueueAllowed, CurrentPlaced, Looping
  <1>4. /\ ready_queue' \in Seq(Path)
        /\ \A k \in DOMAIN ready_queue' : Allowed(ready_queue'[k])
    BY <1>1, <1>2, <1>3
  <1>5. QueueAllowed' /\ CurrentPlaced'
    BY <1>1, <1>4 DEF QueueAllowed, CurrentPlaced, Allowed, Serving
  <1>6. Built' /\ Counted'
    BY <1>1, FrameCounted DEF Looping
  <1>7. SchedulerTypeOK'
    BY <1>1, <1>4 DEF IInv, SchedulerTypeOK, Phases
  <1>8. Registering' /\ BeforeLoop' /\ JumpKnown' /\ Ended'
    BY <1>1 DEF IInv, Registering, BeforeLoop, JumpKnown, Ended
  <1> QED
    BY <1>5, <1>6, <1>7, <1>8 DEF IInv

\* The session works on its own variables, and answers "jump" only for a node
\* with a target.
LEMMA SessionAnswers ==
  ASSUME IInv, SessionStep
  PROVE  /\ phase \in Serving /\ phase' \in Serving /\ UNCHANGED <<wf, context, schedVars>>
         /\ phase' = "resave" => outcome' = "ok"
         /\ phase' \in {"trace", "result"} /\ outcome' = "jump" =>
              \/ outcome = "jump" /\ phase \in {"trace", "result"}
              \/ JumpTargets(Node) # {}
  <1>1. /\ phase \in Serving /\ UNCHANGED <<wf, context, schedVars>>
    BY DEF SessionStep, InSession, Serving
  <1>2. /\ phase' \in Serving
        /\ phase' = "resave" => outcome' = "ok"
        /\ phase' \in {"trace", "result"} /\ outcome' = "jump" =>
             \/ outcome = "jump" /\ phase \in {"trace", "result"}
             \/ JumpTargets(Node) # {}
    <2> USE DEF Serving
    <2>1. CASE SnapshotBefore(Node)
      BY <2>1 DEF SnapshotBefore
    <2>2. CASE EnforceSnapshotBudget
      BY <1>1, <2>2 DEF EnforceSnapshotBudget, IInv, JumpKnown
    <2>3. CASE RefuseLlmCall(Node) \/ RefuseDepth(Node) \/ RefuseNode(Node)
      BY <2>3 DEF RefuseLlmCall, RefuseDepth, RefuseNode, Refuse
    <2>4. CASE AdmitNode(Node)
      BY <2>4 DEF AdmitNode
    <2>5. CASE RunNode(Node)
      BY <2>5 DEF RunNode, Outcomes
    <2>6. CASE SnapshotAfter(Node)
      BY <2>6 DEF SnapshotAfter, IInv, JumpKnown
    <2>7. CASE EndTrace(Node)
      BY <2>7 DEF EndTrace
    <2> QED
      BY <2>1, <2>2, <2>3, <2>4, <2>5, <2>6, <2>7 DEF SessionStep, ExecuteNode
  <1> QED
    BY <1>1, <1>2

LEMMA SessionStepIInv == IInv /\ SessionStep => IInv'
  <1> SUFFICES ASSUME IInv, SessionStep PROVE IInv'
    OBVIOUS
  <1>1. phase \in Serving /\ UNCHANGED <<wf, context, schedVars>>
    BY SessionAnswers
  <1>2. /\ phase' \in Serving
        /\ phase' = "resave" => outcome' = "ok"
        /\ phase' \in {"trace", "result"} /\ outcome' = "jump" =>
             \/ outcome = "jump" /\ phase \in {"trace", "result"}
             \/ JumpTargets(Node) # {}
    BY SessionAnswers
  <1>3. Built' /\ Counted'
    BY <1>1, <1>2, FrameCounted DEF Looping, Serving, schedVars
  <1>4. SchedulerTypeOK'
    BY <1>1, <1>2 DEF IInv, SchedulerTypeOK, Phases, Serving, schedVars
  <1>5. QueueAllowed' /\ CurrentPlaced'
    BY <1>1, <1>2 DEF IInv, QueueAllowed, CurrentPlaced, Allowed, Looping, Serving, schedVars
  <1>6. JumpKnown'
    BY <1>1, <1>2 DEF IInv, JumpKnown, Node, schedVars
  <1>7. Registering' /\ BeforeLoop' /\ Ended'
    BY <1>1, <1>2 DEF IInv, Registering, BeforeLoop, Ended, Serving, schedVars
  <1> QED
    BY <1>3, <1>4, <1>5, <1>6, <1>7 DEF IInv

\* The node under way is one of the workflow's, registered under its path.
LEMMA CurrentNode ==
  ASSUME IInv, current \in DOMAIN node_map
  PROVE  /\ IsWorkflow(wf)
         /\ node_map[current] \in DOMAIN AllNodes(wf)
         /\ Node = AllNodes(wf)[node_map[current]]
         /\ Node.path = current
         /\ Node.next \in Seq(Path)
         /\ Len(Node.next) \in Nat /\ DOMAIN Node.next = 1..Len(Node.next)
  <1>1. /\ IsWorkflow(wf) /\ node_map[current] \in DOMAIN AllNodes(wf)
        /\ AllNodes(wf)[node_map[current]].path = current
    BY DEF IInv, SchedulerTypeOK
  <1>2. Node.next \in Seq(Path)
    BY <1>1, NodeFields DEF Node
  <1> QED
    BY <1>1, <1>2, LenProperties DEF Node

\* The target of a jump is a forced path.
LEMMA JumpIInv == IInv /\ Jump => IInv'
  <1> SUFFICES ASSUME IInv, Jump PROVE IInv'
    OBVIOUS
  <1>1. /\ phase = "result" /\ phase' = "loop"
        /\ UNCHANGED <<wf, context, sessionVars, cursor, node_map, in_degree, current, executed, result>>
    BY DEF Jump
  <1>0. PICK target \in JumpTargets(Node) : ready_queue' = <<target>>
    BY DEF Jump
  <1>2. current \in DOMAIN node_map
    BY DEF Jump, IInv, CurrentPlaced, Serving
  <1>3. IsWorkflow(wf) /\ \E k \in DOMAIN wf.nodes : Node = wf.nodes[k]
    BY <1>2, <1>0, CurrentNode, NodesTyped
  <1>4. target \in Forced(wf) /\ target \in Path
    BY <1>3, <1>0, ForcedPaths DEF Forced
  <1>5. /\ ready_queue' \in Seq(Path)
        /\ \A k \in DOMAIN ready_queue' : Allowed(ready_queue'[k])
    <2>1. /\ <<target>> \in Seq(Path) /\ DOMAIN <<target>> = {1} /\ <<target>>[1] = target
      BY <1>4
    <2> QED
      BY <1>4, <1>0, <2>1 DEF Allowed
  <1>6. QueueAllowed' /\ CurrentPlaced'
    BY <1>1, <1>5 DEF QueueAllowed, CurrentPlaced, Allowed, Serving
  <1>7. Built' /\ Counted'
    BY <1>1, FrameCounted DEF Looping
  <1>8. SchedulerTypeOK'
    BY <1>1, <1>5 DEF IInv, SchedulerTypeOK, Phases
  <1>9. Registering' /\ BeforeLoop' /\ JumpKnown' /\ Ended'
    BY <1>1 DEF IInv, Registering, BeforeLoop, JumpKnown, Ended
  <1> QED
    BY <1>6, <1>7, <1>8, <1>9 DEF IInv

\* A node that has just executed has not released its edges.
LEMMA MarkExecutedPending == ASSUME IInv, MarkExecuted, NEW p PROVE Pending(p)' = Pending(p)
  <1>1. /\ phase = "result" /\ phase' = "executed" /\ executed' = executed \cup {current}
        /\ UNCHANGED <<wf, cursor, node_map, current>>
    BY DEF MarkExecuted
  <1>2. current \notin executed
    BY <1>1 DEF IInv, CurrentPlaced, Serving
  <1> QED
    BY <1>1, <1>2 DEF Pending, Released

LEMMA MarkExecutedIInv == IInv /\ MarkExecuted => IInv'
  <1> SUFFICES ASSUME IInv, MarkExecuted PROVE IInv'
    OBVIOUS
  <1>1. /\ phase = "result" /\ phase' = "executed" /\ executed' = executed \cup {current}
        /\ context' \in {context, context \cup {current}}
        /\ UNCHANGED <<wf, sessionVars, cursor, node_map, in_degree, ready_queue, current, result>>
    BY DEF MarkExecuted
  <1>2. current \in DOMAIN node_map /\ current \notin executed
    BY <1>1 DEF IInv, CurrentPlaced, Serving
  <1>3. IsWorkflow(wf) /\ current \in Path
    BY <1>2, RegisteredPaths DEF IInv, SchedulerTypeOK
  <1>4. \A p : Pending(p)' = Pending(p)
    BY MarkExecutedPending
  <1>5. Built'
    BY <1>1 DEF IInv, Built, Looping
  <1>6. Counted'
    <2>1. \A p \in Registered(wf) :
            in_degree[p] = Cardinality(Pending(p)) + Cardinality(WaitsOf(wf, p))
      BY <1>1 DEF IInv, Counted, Looping
    <2>2. wf' = wf /\ in_degree' = in_degree
      BY <1>1
    <2> QED
      BY <1>4, <2>1, <2>2 DEF Counted
  <1>7. SchedulerTypeOK'
    BY <1>1, <1>2, <1>3 DEF IInv, SchedulerTypeOK, Phases
  <1>8. QueueAllowed' /\ CurrentPlaced'
    BY <1>1 DEF IInv, QueueAllowed, CurrentPlaced, Allowed, Looping, Serving
  <1>9. Registering' /\ BeforeLoop' /\ JumpKnown' /\ Ended'
    BY <1>1 DEF IInv, Registering, BeforeLoop, JumpKnown, Ended
  <1> QED
    BY <1>5, <1>6, <1>7, <1>8, <1>9 DEF IInv

LEMMA TerminateFlowIInv == IInv /\ TerminateFlow => IInv'
  <1> SUFFICES ASSUME IInv, TerminateFlow PROVE IInv'
    OBVIOUS
  <1>1. phase = "executed" /\ phase' = "check" /\ UNCHANGED <<wf, context, sessionVars, schedVars>>
    BY DEF TerminateFlow
  <1>2. SchedulerTypeOK'
    BY <1>1 DEF schedVars, IInv, SchedulerTypeOK, Phases
  <1>3. /\ Registering' /\ BeforeLoop' /\ Built' /\ Counted' /\ QueueAllowed'
        /\ CurrentPlaced' /\ JumpKnown' /\ Ended'
    BY <1>1 DEF schedVars, IInv, Registering, BeforeLoop, Built, Counted, QueueAllowed,
                CurrentPlaced, JumpKnown, Ended, Looping, Serving
  <1> QED
    BY <1>2, <1>3 DEF IInv

-----------------------------------------------------------------------------

LEMMA BeginReleasePending == ASSUME IInv, BeginRelease, NEW p PROVE Pending(p)' = Pending(p)
  <1>1. /\ phase = "executed" /\ phase' = "release" /\ cursor' = 1
        /\ UNCHANGED <<wf, node_map, current, executed>>
    BY DEF BeginRelease
  <1>2. \A e \in NextEdges(wf) : e[2] >= 1
    BY EdgeShape DEF IInv, SchedulerTypeOK
  <1> QED
    BY <1>1, <1>2 DEF Pending, Released, EdgesInto

LEMMA BeginReleaseIInv == IInv /\ BeginRelease => IInv'
  <1> SUFFICES ASSUME IInv, BeginRelease PROVE IInv'
    OBVIOUS
  <1>1. /\ phase = "executed" /\ phase' = "release" /\ cursor' = 1
        /\ UNCHANGED <<wf, context, sessionVars, node_map, in_degree, ready_queue, current, executed, result>>
    BY DEF BeginRelease
  <1>4. \A p : Pending(p)' = Pending(p)
    BY BeginReleasePending
  <1>5. Built' /\ Counted'
    <2>1. \A p \in Registered(wf) :
            in_degree[p] = Cardinality(Pending(p)) + Cardinality(WaitsOf(wf, p))
      BY <1>1 DEF IInv, Counted, Looping
    <2>2. wf' = wf /\ in_degree' = in_degree
      BY <1>1
    <2>3. Counted'
      BY <1>4, <2>1, <2>2 DEF Counted
    <2> QED
      BY <1>1, <2>3 DEF IInv, Built, Looping
  <1>6. SchedulerTypeOK'
    BY <1>1 DEF IInv, SchedulerTypeOK, Phases
  <1>7. QueueAllowed' /\ CurrentPlaced'
    BY <1>1 DEF IInv, QueueAllowed, CurrentPlaced, Allowed, Looping, Serving
  <1>8. Registering' /\ BeforeLoop' /\ JumpKnown' /\ Ended'
    BY <1>1 DEF IInv, Registering, BeforeLoop, JumpKnown, Ended
  <1> QED
    BY <1>5, <1>6, <1>7, <1>8 DEF IInv

LEMMA EndReleasePending == ASSUME IInv, EndRelease, NEW p PROVE Pending(p)' = Pending(p)
  <1>1. /\ phase = "release" /\ phase' = "loop" /\ cursor > Len(Node.next)
        /\ UNCHANGED <<wf, node_map, current, executed>>
    BY DEF EndRelease, schedVars
  <1>2. current \in DOMAIN node_map /\ cursor \in Nat
    BY <1>1 DEF IInv, CurrentPlaced, SchedulerTypeOK
  <1>3. IsWorkflow(wf) /\ Node = AllNodes(wf)[node_map[current]] /\ Len(Node.next) \in Nat
    BY <1>2, CurrentNode
  <1>4. \A e \in NextEdges(wf) : e[1] = node_map[current] => ~(e[2] >= cursor)
    BY <1>1, <1>2, <1>3, EdgeShape
  <1> QED
    BY <1>1, <1>4 DEF Pending, Released, EdgesInto

LEMMA EndReleaseIInv == IInv /\ EndRelease => IInv'
  <1> SUFFICES ASSUME IInv, EndRelease PROVE IInv'
    OBVIOUS
  <1>1. /\ phase = "release" /\ phase' = "loop"
        /\ UNCHANGED <<wf, context, sessionVars, schedVars>>
    BY DEF EndRelease
  <1>5. \A p : Pending(p)' = Pending(p)
    BY EndReleasePending
  <1>6. Built' /\ Counted'
    <2>1. \A p \in Registered(wf) :
            in_degree[p] = Cardinality(Pending(p)) + Cardinality(WaitsOf(wf, p))
      BY <1>1 DEF IInv, Counted, Looping
    <2>2. wf' = wf /\ in_degree' = in_degree
      BY <1>1 DEF schedVars
    <2>3. Counted'
      BY <1>5, <2>1, <2>2 DEF Counted
    <2> QED
      BY <1>1, <2>3 DEF IInv, Built, Looping, schedVars
  <1>7. SchedulerTypeOK'
    BY <1>1 DEF IInv, SchedulerTypeOK, Phases, schedVars
  <1>8. QueueAllowed' /\ CurrentPlaced'
    BY <1>1 DEF IInv, QueueAllowed, CurrentPlaced, Allowed, Looping, Serving, schedVars
  <1>9. Registering' /\ BeforeLoop' /\ JumpKnown' /\ Ended'
    BY <1>1 DEF IInv, Registering, BeforeLoop, JumpKnown, Ended, schedVars
  <1> QED
    BY <1>6, <1>7, <1>8, <1>9 DEF IInv

\* The edge under the cursor, and what releasing it does to the pending sets.
LEMMA ReleasedEdge ==
  ASSUME IInv, phase = "release", cursor <= Len(Node.next)
  PROVE  LET e0 == <<node_map[current], cursor>>
             p0 == Node.next[cursor]
         IN  /\ p0 \in Registered(wf)
             /\ e0 \in Pending(p0)
             /\ \A p : p # p0 => e0 \notin Pending(p)
  <1> DEFINE e0 == <<node_map[current], cursor>>
             p0 == Node.next[cursor]
  <1>1. current \in executed /\ current \in DOMAIN node_map /\ cursor \in Nat \ {0}
    BY DEF IInv, CurrentPlaced, SchedulerTypeOK
  <1>2. /\ IsWorkflow(wf) /\ Node = AllNodes(wf)[node_map[current]] /\ Node.path = current
        /\ node_map[current] \in DOMAIN AllNodes(wf) /\ cursor \in DOMAIN Node.next
    BY <1>1, CurrentNode
  <1>3. e0 \in NextEdges(wf) /\ Source(wf, e0) = current /\ Target(wf, e0) = p0
    BY <1>2, SuccessorEdge
  <1>4. p0 \in Registered(wf)
    BY <1>3 DEF IInv, Built, Looping, WellFormed
  <1>5. ~Released(e0)
    BY <1>1, <1>3 DEF Released
  <1> QED
    BY <1>3, <1>4, <1>5 DEF Pending, EdgesInto

\* Releasing the edge under the cursor takes it, and no other, from what is
\* pending.
LEMMA ReleasePending ==
  ASSUME IInv, ReleaseSuccessor, NEW p
  PROVE  Pending(p)' = Pending(p) \ {<<node_map[current], cursor>>}
  <1> DEFINE e0 == <<node_map[current], cursor>>
  <1>1. /\ phase = "release" /\ phase' = "release" /\ cursor <= Len(Node.next)
        /\ cursor' = cursor + 1 /\ UNCHANGED <<wf, node_map, current, executed>>
    BY DEF ReleaseSuccessor
  <1>2. /\ IsWorkflow(wf) /\ cursor \in Nat \ {0}
        /\ current \in executed /\ current \in DOMAIN node_map
    BY <1>1 DEF IInv, CurrentPlaced, SchedulerTypeOK
  <1>3. ASSUME NEW e \in NextEdges(wf) PROVE Released(e)' <=> Released(e) \/ e = e0
    <2>1. e = <<e[1], e[2]>> /\ e[2] \in Nat
      BY <1>2, EdgeShape
    <2>2. Source(wf, e0) = current
      BY <1>1, <1>2, CurrentNode, SuccessorEdge
    <2>3. e[1] = node_map[current] /\ e[2] = cursor <=> e = e0
      BY <2>1
    <2>4. e[2] >= cursor + 1 <=> e[2] >= cursor /\ e[2] # cursor
      BY <1>2, <2>1
    <2> QED
      BY <1>1, <1>2, <2>2, <2>3, <2>4 DEF Released
  <1> QED
    BY <1>1, <1>3 DEF Pending, EdgesInto

LEMMA ReleaseSuccessorIInv == IInv /\ ReleaseSuccessor => IInv'
  <1> SUFFICES ASSUME IInv, ReleaseSuccessor PROVE IInv'
    OBVIOUS
  <1> DEFINE e0 == <<node_map[current], cursor>>
             p0 == Node.next[cursor]
             Count(p) == Cardinality(Pending(p)) + Cardinality(WaitsOf(wf, p))
  <1>1. /\ phase = "release" /\ phase' = "release" /\ cursor <= Len(Node.next)
        /\ cursor' = cursor + 1
        /\ in_degree' = [in_degree EXCEPT ![p0] = @ - 1]
        /\ ready_queue' = IF in_degree[p0] = 1 THEN Append(ready_queue, p0) ELSE ready_queue
        /\ UNCHANGED <<wf, context, sessionVars, node_map, current, executed, result>>
    BY DEF ReleaseSuccessor
  <1>2. /\ IsWorkflow(wf) /\ cursor \in Nat \ {0} /\ ready_queue \in Seq(Path)
        /\ current \in executed /\ current \in DOMAIN node_map
        /\ in_degree = [p \in DOMAIN in_degree |-> in_degree[p]]
    BY <1>1 DEF IInv, CurrentPlaced, SchedulerTypeOK
  <1>3. /\ p0 \in Registered(wf) /\ e0 \in Pending(p0)
        /\ \A p : p # p0 => e0 \notin Pending(p)
    BY <1>1, ReleasedEdge
  <1>4. /\ DOMAIN node_map = Registered(wf) /\ DOMAIN in_degree = Registered(wf)
        /\ WellFormed(wf) /\ \A p \in Registered(wf) : in_degree[p] = Count(p)
        /\ \A k \in DOMAIN ready_queue : Allowed(ready_queue[k])
    BY <1>1 DEF IInv, Built, Counted, QueueAllowed, Looping
  <1>5. \A p : Pending(p)' = Pending(p) \ {e0}
    BY ReleasePending
  <1>6. ASSUME NEW p, p = p0
        PROVE  /\ Cardinality(Pending(p)') = Cardinality(Pending(p)) - 1
               /\ Cardinality(Pending(p)) \in Nat \ {0}
    <2>1. IsFiniteSet(Pending(p)) /\ Cardinality(Pending(p)) \in Nat
      BY <1>2, PendingFinite
    <2>2. Cardinality(Pending(p) \ {e0}) = Cardinality(Pending(p)) - 1
      BY <1>3, <1>6, <2>1, FS_RemoveElement
    <2>3. Cardinality(Pending(p)) # 0
      BY <1>3, <1>6, <2>1, FS_EmptySet
    <2>4. Pending(p)' = Pending(p) \ {e0}
      BY <1>5
    <2> QED
      BY <2>1, <2>2, <2>3, <2>4
  <1>7. \A p \in Registered(wf) : Count(p) \in Nat
    BY <1>2, PendingFinite
  <1>8. in_degree[p0] \in Nat \ {0}
    <2>1. PICK p : p = p0
      OBVIOUS
    <2>2. Cardinality(WaitsOf(wf, p)) \in Nat /\ Cardinality(Pending(p)) \in Nat \ {0}
      BY <1>2, <1>6, <2>1, PendingFinite
    <2>3. in_degree[p] = Cardinality(Pending(p)) + Cardinality(WaitsOf(wf, p))
      BY <1>3, <1>4, <2>1
    <2>4. in_degree[p] \in Nat \ {0}
      BY <2>2, <2>3
    <2> QED
      BY <2>1, <2>4
  <1>9. /\ DOMAIN in_degree' = Registered(wf)
        /\ in_degree'[p0] = in_degree[p0] - 1
        /\ \A p \in Registered(wf) : p # p0 => in_degree'[p] = in_degree[p]
    BY <1>1, <1>3, <1>4
  <1>10. in_degree' \in [DOMAIN in_degree' -> Nat]
    <2>1. \A p \in Registered(wf) : in_degree'[p] \in Nat
      BY <1>4, <1>7, <1>8, <1>9
    <2>2. in_degree' = [p \in DOMAIN in_degree' |-> in_degree'[p]]
      BY <1>1
    <2> QED
      BY <1>9, <2>1, <2>2
  <1>11. Counted'
    <2> SUFFICES ASSUME NEW p \in Registered(wf)
                 PROVE  in_degree'[p] = Cardinality(Pending(p)') + Cardinality(WaitsOf(wf, p))
      BY <1>1 DEF Counted
    <2>1. CASE p = p0
      <3>1. Cardinality(WaitsOf(wf, p)) \in Nat
        BY <1>2, PendingFinite
      <3>2. /\ Cardinality(Pending(p)') = Cardinality(Pending(p)) - 1
            /\ Cardinality(Pending(p)) \in Nat \ {0}
        BY <1>6, <2>1
      <3>3. in_degree[p] = Cardinality(Pending(p)) + Cardinality(WaitsOf(wf, p))
        BY <1>4
      <3>4. in_degree'[p] = in_degree[p] - 1
        BY <1>9, <2>1
      <3> QED
        BY <3>1, <3>2, <3>3, <3>4
    <2>2. CASE p # p0
      <3>1. Pending(p)' = Pending(p)
        BY <1>3, <1>5, <2>2
      <3> QED
        BY <1>4, <1>9, <2>2, <3>1
    <2> QED
      BY <2>1, <2>2
  <1>12. ready_queue' \in Seq(Path) /\ QueueAllowed'
    <2> DEFINE Ready(p) == p \in Forced(wf) \/ (p \in Registered(wf) /\ in_degree'[p] = 0)
    <2>1. \A p : Allowed(p) => Ready(p)
      BY <1>8, <1>9 DEF Allowed
    <2>2. p0 \in Path
      BY <1>2, <1>3, RegisteredPaths
    <2>3. CASE in_degree[p0] = 1
      <3>1. Ready(p0)
        BY <1>3, <1>9, <2>3
      <3>2. ready_queue' = Append(ready_queue, p0)
        BY <1>1, <2>3
      <3>3. \A k \in DOMAIN ready_queue' : ready_queue'[k] = p0 \/
               (k \in DOMAIN ready_queue /\ ready_queue'[k] = ready_queue[k])
        BY <1>2, <2>2, <3>2
      <3>4. \A k \in DOMAIN ready_queue' : Ready(ready_queue'[k])
        BY <1>4, <2>1, <3>1, <3>3
      <3>5. ready_queue' \in Seq(Path)
        BY <1>2, <2>2, <3>2
      <3> QED
        BY <1>1, <3>4, <3>5 DEF QueueAllowed, Allowed
    <2>4. CASE in_degree[p0] # 1
      <3>1. ready_queue' = ready_queue
        BY <1>1, <2>4
      <3>2. \A k \in DOMAIN ready_queue' : Ready(ready_queue'[k])
        BY <1>4, <2>1, <3>1
      <3> QED
        BY <1>1, <1>2, <3>1, <3>2 DEF QueueAllowed, Allowed
    <2> QED
      BY <2>3, <2>4
  <1>13. Built'
    BY <1>1, <1>4, <1>9 DEF Built
  <1>14. SchedulerTypeOK'
    BY <1>1, <1>2, <1>10, <1>12 DEF IInv, SchedulerTypeOK, Phases
  <1>15. Registering' /\ BeforeLoop' /\ CurrentPlaced' /\ JumpKnown' /\ Ended'
    BY <1>1 DEF IInv, Registering, BeforeLoop, CurrentPlaced, JumpKnown, Ended, Serving
  <1> QED
    BY <1>11, <1>12, <1>13, <1>14, <1>15 DEF IInv

-----------------------------------------------------------------------------

LEMMA ReturnsIInv ==
  ASSUME IInv, \/ RejectDag \/ NodeNotFound \/ WaitUnresolved \/ NodeFails \/ Pause
               \/ DurationExceeded \/ ReportUnexecuted \/ Complete
  PROVE  IInv'
  <1>1. /\ UNCHANGED <<wf, context, cursor, node_map, in_degree, ready_queue, current, executed>>
        /\ phase' = "done" /\ result' \in Results \ {"running"}
    BY DEF RejectDag, NodeNotFound, WaitUnresolved, NodeFails, Pause, DurationExceeded,
           ReportUnexecuted, Complete, Return, Results
  <1>2. ready_queue' \in Seq(Path)
    BY <1>1 DEF IInv, SchedulerTypeOK
  <1> QED
    BY <1>1, <1>2, ReturnIInv

LEMMA StutterIInv == IInv /\ UNCHANGED vars => IInv'
  <1> SUFFICES ASSUME IInv, UNCHANGED vars PROVE IInv'
    OBVIOUS
  <1>1. UNCHANGED <<wf, phase, context, outcome, cursor, node_map, in_degree, ready_queue,
                    current, executed, result>>
    BY DEF vars, sessionVars, schedVars
  <1>2. ASSUME NEW p PROVE Pending(p)' = Pending(p)
    BY <1>1 DEF Pending, Released
  <1>3. Counted'
    BY <1>1, <1>2 DEF IInv, Counted
  <1>4. SchedulerTypeOK'
    BY <1>1 DEF IInv, SchedulerTypeOK
  <1>5. Registering' /\ BeforeLoop' /\ Built' /\ Ended'
    BY <1>1 DEF IInv, Registering, BeforeLoop, Built, Ended
  <1>6. JumpKnown'
    BY <1>1 DEF IInv, JumpKnown, Node
  <1>7. QueueAllowed' /\ CurrentPlaced'
    BY <1>1 DEF IInv, QueueAllowed, CurrentPlaced, Allowed
  <1> QED
    BY <1>3, <1>4, <1>5, <1>6, <1>7 DEF IInv

LEMMA NextIInv == IInv /\ [Next]_vars => IInv'
  BY RegisterNodeIInv, BuildDagIInv, ScanNodeIInv, StartAtEntryIInv, PickNodeIInv,
     LoopMovesIInv, WaitUnmetIInv, SessionStepIInv, JumpIInv, MarkExecutedIInv,
     TerminateFlowIInv, BeginReleaseIInv, EndReleaseIInv, ReleaseSuccessorIInv,
     ReturnsIInv, StutterIInv DEF Next, Finished

LEMMA Invariance == Spec => []IInv
  BY InitIInv, NextIInv, PTL DEF Spec

\* Every variable of the scheduler keeps its type, whatever the workflows; an
\* in-degree never goes below zero.
THEOREM Typing == Spec => []SchedulerTypeOK
  <1>1. IInv => SchedulerTypeOK
    BY DEF IInv
  <1> QED
    BY Invariance, <1>1, PTL

\* In every workflow, with its cycles, duplicates, jumps and repeated edges,
\* a node's in-degree counts its pending edges and its static dependencies.
THEOREM InDegrees == Spec => []InDegreeIsPending
  <1>1. IInv => InDegreeIsPending
    BY DEF IInv, InDegreeIsPending, Built, Counted
  <1> QED
    BY Invariance, <1>1, PTL

-----------------------------------------------------------------------------

\* What wakes a path up: it has run, it waits in the queue, or it is the one
\* the loop has in its hands.
Awake(p) == \/ p \in executed
            \/ \E k \in DOMAIN ready_queue : ready_queue[k] = p
            \/ phase \in Serving \cup {"gate"} /\ p = current

\* A path is due when its predecessors have released it and it waits for
\* nothing else.
Due(p) == EdgesInto(wf, p) # {} /\ Pending(p) = {} /\ WaitsOf(wf, p) = {}

\* NoLostWakeup speaks of the moment the queue runs empty; until then a due
\* path is on its way.
Woken == phase \in Looping \ {"scan"} /\ ~JumpsPossible =>
           \A p \in Registered(wf) : Due(p) => Awake(p)

\* A jump is possible only in a workflow with a target.
LEMMA JumpIsPossible == IInv /\ Jump => JumpsPossible
  <1> SUFFICES ASSUME IInv, Jump PROVE JumpsPossible
    OBVIOUS
  <1>1. JumpTargets(Node) # {} /\ current \in DOMAIN node_map
    BY DEF Jump, IInv, CurrentPlaced, Serving
  <1>2. IsWorkflow(wf) /\ \E k \in DOMAIN wf.nodes : Node = wf.nodes[k]
    BY <1>1, CurrentNode, NodesTyped
  <1> QED
    BY <1>1, <1>2 DEF JumpsPossible

\* The loop keeps hold of every path it is to serve.
LEMMA AwakeKept ==
  ASSUME IInv, NEW p, Awake(p), phase' \in Looping,
         \/ PickNode \/ SkipExecuted \/ WaitUnmet \/ CallSession \/ SessionStep
         \/ MarkExecuted \/ BeginRelease \/ ReleaseSuccessor \/ EndRelease
  PROVE  Awake(p)'
  <1>1. CASE PickNode
    <2>1. /\ phase' = "gate" /\ executed' = executed
          /\ current' = Head(ready_queue) /\ ready_queue' = Tail(ready_queue)
          /\ ready_queue # << >> /\ phase = "loop"
      BY <1>1 DEF PickNode
    <2>2. ready_queue \in Seq(Path)
      BY DEF IInv, SchedulerTypeOK
    <2>3. ASSUME NEW k \in DOMAIN ready_queue
          PROVE  \/ ready_queue[k] = current'
                 \/ \E j \in DOMAIN ready_queue' : ready_queue'[j] = ready_queue[k]
      <3>1. k = 1 => ready_queue[k] = current'
        BY <2>1, <2>2
      <3>2. k # 1 => k - 1 \in DOMAIN ready_queue' /\ ready_queue'[k - 1] = ready_queue[k]
        BY <2>1, <2>2
      <3> QED
        BY <3>1, <3>2
    <2> QED
      BY <2>1, <2>3 DEF Awake, Serving
  <1>2. CASE SkipExecuted
    BY <1>2 DEF SkipExecuted, Awake, Serving, schedVars
  <1>3. CASE WaitUnmet
    <2>1. /\ phase = "gate" /\ executed' = executed /\ ready_queue' = Append(ready_queue, current)
      BY <1>3 DEF WaitUnmet, Reached
    <2>2. ready_queue \in Seq(Path)
      BY DEF IInv, SchedulerTypeOK
    <2>3. /\ \A k \in DOMAIN ready_queue : /\ k \in DOMAIN ready_queue'
                                           /\ ready_queue'[k] = ready_queue[k]
          /\ Len(ready_queue) + 1 \in DOMAIN ready_queue'
          /\ ready_queue'[Len(ready_queue) + 1] = current
      BY <2>1, <2>2
    <2> QED
      BY <2>1, <2>3 DEF Awake
  <1>4. CASE CallSession
    BY <1>4 DEF CallSession, Reached, Awake, Serving, schedVars
  <1>5. CASE SessionStep
    BY <1>5, SessionAnswers DEF Awake, schedVars
  <1>6. CASE MarkExecuted
    BY <1>6 DEF MarkExecuted, Awake
  <1>7. CASE BeginRelease \/ EndRelease
    BY <1>7 DEF BeginRelease, EndRelease, Awake, Serving, schedVars
  <1>8. CASE ReleaseSuccessor
    <2>1. /\ phase = "release" /\ executed' = executed
          /\ ready_queue' \in {ready_queue, Append(ready_queue, Node.next[cursor])}
      BY <1>8 DEF ReleaseSuccessor
    <2>2. ready_queue \in Seq(Path)
      BY DEF IInv, SchedulerTypeOK
    <2>3. \A k \in DOMAIN ready_queue : /\ k \in DOMAIN ready_queue'
                                        /\ ready_queue'[k] = ready_queue[k]
      BY <2>1, <2>2
    <2> QED
      BY <2>1, <2>3 DEF Awake, Serving
  <1> QED
    BY <1>1, <1>2, <1>3, <1>4, <1>5, <1>6, <1>7, <1>8

\* The path whose last edge is released is put in the queue.
LEMMA ReleaseWakes ==
  ASSUME IInv, ReleaseSuccessor, NEW p \in Registered(wf), Due(p)', ~Due(p)
  PROVE  Awake(p)'
  <1> DEFINE e0 == <<node_map[current], cursor>>
             p0 == Node.next[cursor]
  <1>1. /\ phase = "release" /\ cursor <= Len(Node.next) /\ wf' = wf
        /\ ready_queue' = IF in_degree[p0] = 1 THEN Append(ready_queue, p0) ELSE ready_queue
    BY DEF ReleaseSuccessor
  <1>2. /\ p0 \in Registered(wf) /\ e0 \in Pending(p0)
        /\ \A q : q # p0 => e0 \notin Pending(q)
    BY <1>1, ReleasedEdge
  <1>3. /\ EdgesInto(wf, p) # {} /\ WaitsOf(wf, p) = {}
        /\ Pending(p) # {} /\ Pending(p) \ {e0} = {}
    <2>1. Pending(p)' = Pending(p) \ {e0}
      BY ReleasePending
    <2> QED
      BY <1>1, <2>1 DEF Due
  <1>4. p = p0 /\ Pending(p) = {e0}
    BY <1>2, <1>3
  <1>5. in_degree[p] = 1
    <2>1. in_degree[p] = Cardinality(Pending(p)) + Cardinality(WaitsOf(wf, p))
      BY <1>1 DEF IInv, Counted, Looping
    <2>2. Cardinality({e0}) = 1 /\ Cardinality(WaitsOf(wf, p)) = 0
      BY <1>3, FS_Singleton, FS_EmptySet
    <2> QED
      BY <1>4, <2>1, <2>2
  <1>6. ready_queue \in Seq(Path) /\ p0 \in Path
    BY <1>2, RegisteredPaths DEF IInv, SchedulerTypeOK
  <1>7. ready_queue' = Append(ready_queue, p0)
    BY <1>1, <1>4, <1>5
  <1>8. Len(ready_queue) + 1 \in DOMAIN ready_queue' /\ ready_queue'[Len(ready_queue) + 1] = p0
    BY <1>6, <1>7
  <1> QED
    BY <1>4, <1>8 DEF Awake

LEMMA NextWoken == IInv /\ Woken /\ [Next]_vars => Woken'
  <1> SUFFICES ASSUME IInv, Woken, [Next]_vars, phase' \in Looping \ {"scan"},
                      ~JumpsPossible', NEW p \in Registered(wf'), Due(p)'
               PROVE  Awake(p)'
    BY DEF Woken
  <1> USE DEF Looping
  <1>1. wf' = wf /\ p \in Registered(wf) /\ ~JumpsPossible
    BY DEF Next, RegisterNode, RejectDag, BuildDag, ScanNode, StartAtEntry, PickNode, QueueEmpty,
           SkipExecuted, NodeNotFound, WaitUnmet, WaitUnresolved, CallSession, SessionStep, Jump,
           NodeFails, MarkExecuted, Pause, TerminateFlow, BeginRelease, ReleaseSuccessor,
           EndRelease, DurationExceeded, ReportUnexecuted, Complete, Finished, vars, JumpsPossible
  <1>2. CASE StartAtEntry
    <2>1. executed = {} /\ executed' = {}
      BY <1>2 DEF StartAtEntry, IInv, BeforeLoop
    <2>2. Pending(p)' = EdgesInto(wf', p)
      BY <2>1 DEF Pending, Released
    <2> QED
      BY <2>2 DEF Due
  <1>3. CASE PickNode \/ SkipExecuted \/ WaitUnmet \/ CallSession \/ SessionStep
    <2>1. /\ phase \in Looping \ {"scan"} /\ phase \notin {"executed", "release"}
          /\ phase' \notin {"executed", "release"} /\ UNCHANGED <<wf, node_map, executed>>
      <3>1. CASE SessionStep
        BY <3>1, SessionAnswers DEF Serving, schedVars
      <3> QED
        BY <1>3, <3>1 DEF PickNode, SkipExecuted, WaitUnmet, CallSession, Reached, schedVars
    <2>2. Pending(p)' = Pending(p)
      BY <2>1, PendingFrame
    <2>3. Due(p)
      BY <2>1, <2>2 DEF Due
    <2> QED
      BY <1>1, <1>3, <2>1, <2>3, AwakeKept DEF Woken
  <1>4. CASE MarkExecuted \/ BeginRelease \/ EndRelease
    <2>1. phase \in Looping \ {"scan"}
      BY <1>4 DEF MarkExecuted, BeginRelease, EndRelease
    <2>2. Pending(p)' = Pending(p)
      BY <1>4, MarkExecutedPending, BeginReleasePending, EndReleasePending
    <2>3. Due(p)
      BY <1>1, <2>2 DEF Due
    <2> QED
      BY <1>1, <1>4, <2>1, <2>3, AwakeKept DEF Woken
  <1>5. CASE ReleaseSuccessor
    <2>1. phase = "release"
      BY <1>5 DEF ReleaseSuccessor
    <2>2. CASE Due(p)
      BY <1>1, <1>5, <2>1, <2>2, AwakeKept DEF Woken
    <2> QED
      BY <1>1, <1>5, <2>2, ReleaseWakes
  <1>6. CASE Jump
    BY <1>1, <1>6, JumpIsPossible
  <1>7. CASE Finished \/ UNCHANGED vars
    <2>1. UNCHANGED <<wf, phase, cursor, node_map, ready_queue, current, executed>>
      BY <1>7 DEF Finished, vars, schedVars
    <2>2. Due(p) /\ (Awake(p)' <=> Awake(p))
      BY <2>1 DEF Due, Pending, Released, Awake
    <2> QED
      BY <1>1, <2>1, <2>2 DEF Woken
  <1>8. CASE \/ RegisterNode \/ RejectDag \/ BuildDag \/ ScanNode \/ QueueEmpty \/ NodeNotFound
             \/ WaitUnresolved \/ NodeFails \/ Pause \/ TerminateFlow
             \/ DurationExceeded \/ ReportUnexecuted \/ Complete
    BY <1>8 DEF RegisterNode, RejectDag, BuildDag, ScanNode, QueueEmpty, NodeNotFound,
                WaitUnresolved, NodeFails, Pause, TerminateFlow, DurationExceeded,
                ReportUnexecuted, Complete, Return
  <1> QED
    BY <1>2, <1>3, <1>4, <1>5, <1>6, <1>7, <1>8 DEF Next

\* When the queue has run empty without a jump having cleared it, every path
\* whose predecessors have all released it has run, in every workflow: no
\* order of releases, retries of a wait and duplicates loses one.
THEOREM Wakeups == Spec => []NoLostWakeup
  <1>1. Init => Woken
    BY DEF Init, Woken, Looping
  <1>2. IInv /\ Woken => NoLostWakeup
    <2> SUFFICES ASSUME IInv, Woken, phase = "loop", ready_queue = << >>, ~JumpsPossible,
                        NEW p \in DOMAIN node_map, Due(p)
                 PROVE  p \in executed
      BY DEF NoLostWakeup, Due
    <2>1. Awake(p)
      BY DEF Woken, Looping, IInv, SchedulerTypeOK
    <2>2. DOMAIN ready_queue = {}
      OBVIOUS
    <2> QED
      BY <2>1, <2>2 DEF Awake, Serving
  <1> QED
    BY Invariance, NextWoken, <1>1, <1>2, PTL DEF Spec

-----------------------------------------------------------------------------

\* The abstract specification reads a workflow the same way.
LEMMA SameReading ==
  ASSUME NEW w, NEW p
  PROVE  /\ DE!Registered(w) = Registered(w) /\ DE!UserNodes(w) = UserNodes(w)
         /\ DE!EdgesInto(w, p) = EdgesInto(w, p) /\ DE!WaitsOf(w, p) = WaitsOf(w, p)
         /\ DE!WellFormed(w) = WellFormed(w) /\ DE!Forced(w) = Forced(w)
         /\ \A e : DE!Source(w, e) = Source(w, e)
  <1>1. DE!AllNodes(w) = AllNodes(w)
    BY DEF DE!AllNodes, AllNodes, DE!SystemNodes, SystemNodes, DE!SystemEnd, SystemEnd,
           DE!BudgetExceeded, BudgetExceeded, DE!EndSoft, EndSoft, DE!Noop, Noop
  <1>2. DE!SystemPath = SystemPath
    BY DEF DE!SystemPath, SystemPath, DE!BudgetExceeded, BudgetExceeded,
           DE!EndSoft, EndSoft, DE!Noop, Noop
  <1>3. DE!Registered(w) = Registered(w)
    BY <1>1 DEF DE!Registered, Registered
  <1>4. DE!UserNodes(w) = UserNodes(w)
    BY <1>2, <1>3 DEF DE!UserNodes, UserNodes
  <1>5. DE!NextEdges(w) = NextEdges(w) /\ DE!WaitEdges(w) = WaitEdges(w)
    BY <1>1 DEF DE!NextEdges, NextEdges, DE!WaitEdges, WaitEdges
  <1>6. \A e : /\ DE!Source(w, e) = Source(w, e) /\ DE!Target(w, e) = Target(w, e)
               /\ DE!Awaited(w, e) = Awaited(w, e)
    BY <1>1 DEF DE!Source, Source, DE!Target, Target, DE!Awaited, Awaited
  <1>7. DE!EdgesInto(w, p) = EdgesInto(w, p) /\ DE!WaitsOf(w, p) = WaitsOf(w, p)
    BY <1>5, <1>6 DEF DE!EdgesInto, EdgesInto, DE!WaitsOf, WaitsOf
  <1>8. DE!WellFormed(w) = WellFormed(w)
    BY <1>3, <1>5, <1>6 DEF DE!WellFormed, WellFormed
  <1>9. DE!Forced(w) = Forced(w)
    BY DEF DE!Forced, Forced, DE!JumpTargets, JumpTargets
  <1> QED
    BY <1>3, <1>4, <1>6, <1>7, <1>8, <1>9

\* What may run has everything before it executed, unless it is forced.
LEMMA AllowedIsMet ==
  ASSUME IInv, phase \in Looping, NEW p, Allowed(p)
  PROVE  p \in DE!Forced(wf) \/ DE!DependenciesMet(p)
  <1>1. CASE p \in Forced(wf)
    BY <1>1, SameReading
  <1>2. CASE p \in Registered(wf) /\ in_degree[p] = 0
    <2>1. IsWorkflow(wf)
      BY DEF IInv, SchedulerTypeOK
    <2>2. /\ IsFiniteSet(Pending(p)) /\ Cardinality(Pending(p)) \in Nat
          /\ IsFiniteSet(WaitsOf(wf, p)) /\ Cardinality(WaitsOf(wf, p)) \in Nat
      BY <2>1, PendingFinite
    <2>3. 0 = Cardinality(Pending(p)) + Cardinality(WaitsOf(wf, p))
      BY <1>2 DEF IInv, Counted
    <2>4. Cardinality(Pending(p)) = 0 /\ Cardinality(WaitsOf(wf, p)) = 0
      BY <2>2, <2>3
    <2>5. Pending(p) = {} /\ WaitsOf(wf, p) = {}
      BY <2>2, <2>4, FS_EmptySet
    <2>6. \A e \in EdgesInto(wf, p) : Source(wf, e) \in executed
      BY <2>5 DEF Pending, Released
    <2> QED
      BY <2>5, <2>6, SameReading DEF DE!DependenciesMet
  <1> QED
    BY <1>1, <1>2 DEF Allowed

LEMMA InitImplements == Init => DE!Init
  BY DEF Init, DE!Init, Verdict

LEMMA MarkExecutedImplements ==
  ASSUME IInv, MarkExecuted PROVE DE!Next
  <1>1. /\ phase = "result" /\ phase' = "executed" /\ executed' = executed \cup {current}
        /\ wf' = wf /\ result' = result
    BY DEF MarkExecuted
  <1>2. current \in Registered(wf) /\ current \notin executed /\ WellFormed(wf) /\ Allowed(current)
    BY <1>1 DEF IInv, CurrentPlaced, Built, Looping, Serving
  <1>3. PICK p : p = current
    OBVIOUS
  <1>4. p \in DE!Forced(wf) \/ DE!DependenciesMet(p)
    BY <1>1, <1>2, <1>3, AllowedIsMet DEF Looping
  <1>5. Verdict = "running" /\ Verdict' = Verdict
    BY <1>1 DEF IInv, Ended, Verdict
  <1>6. DE!Execute(p)
    BY <1>1, <1>2, <1>3, <1>4, <1>5, SameReading DEF DE!Execute
  <1>7. p \in DE!Registered(wf)
    BY <1>2, <1>3, SameReading
  <1> QED
    BY <1>6, <1>7 DEF DE!Next

LEMMA ReturnImplements ==
  ASSUME IInv, phase # "done", phase' = "done", result' \in Results \ {"running"},
         UNCHANGED <<wf, executed>>,
         result' = "completed" => UserNodes(wf) \subseteq executed,
         result' = "paused" => current \in executed
  PROVE  DE!Next
  <1>1. Verdict = "running"
    BY DEF IInv, Ended, Verdict
  <1>2. PICK v \in {"completed", "paused", "failed"} :
          Verdict' = v /\ (v \in {"completed", "paused"} => v = result')
    BY DEF Verdict, Results
  <1>3. DE!Conclude(v)
    BY <1>1, <1>2, SameReading DEF DE!Conclude
  <1> QED
    BY <1>3 DEF DE!Next

LEMMA NextImplements == IInv /\ [Next]_vars => [DE!Next]_<<wf, executed, Verdict>>
  <1> SUFFICES ASSUME IInv, [Next]_vars
               PROVE  DE!Next \/ UNCHANGED <<wf, executed, Verdict>>
    OBVIOUS
  <1>1. CASE MarkExecuted
    BY <1>1, MarkExecutedImplements
  <1>2. CASE \/ RejectDag \/ NodeNotFound \/ WaitUnresolved \/ NodeFails \/ Pause
             \/ DurationExceeded \/ ReportUnexecuted \/ Complete
    <2>1. /\ phase # "done" /\ UNCHANGED <<wf, executed>>
          /\ phase' = "done" /\ result' \in Results \ {"running"}
          /\ result' = "completed" => UserNodes(wf) \subseteq executed
          /\ result' = "paused" => current \in executed
      BY <1>2 DEF RejectDag, NodeNotFound, Reached, WaitUnresolved, NodeFails, Pause,
                  DurationExceeded, ReportUnexecuted, Complete, FC!MayPass, Return, Results,
                  IInv, CurrentPlaced
    <2> QED
      BY <2>1, ReturnImplements
  <1>3. CASE StartAtEntry
    <2>1. /\ phase # "done" /\ UNCHANGED <<wf, executed>>
          /\ \/ result' = result
             \/ phase' = "done" /\ result' = "entry not found"
      BY <1>3 DEF StartAtEntry, Return
    <2> QED
      BY <2>1, ReturnImplements DEF Verdict, Results
  <1>4. CASE \/ RegisterNode \/ BuildDag \/ ScanNode \/ PickNode \/ QueueEmpty \/ SkipExecuted
             \/ WaitUnmet \/ CallSession \/ SessionStep \/ Jump \/ TerminateFlow
             \/ BeginRelease \/ ReleaseSuccessor \/ EndRelease \/ Finished \/ UNCHANGED vars
    <2>1. UNCHANGED <<wf, executed, result>>
      BY <1>4 DEF RegisterNode, BuildDag, ScanNode, PickNode, QueueEmpty, SkipExecuted,
                  WaitUnmet, CallSession, SessionStep, Jump, TerminateFlow, BeginRelease,
                  ReleaseSuccessor, EndRelease, Finished, vars, schedVars
    <2> QED
      BY <2>1 DEF Verdict
  <1> QED
    BY <1>1, <1>2, <1>3, <1>4 DEF Next

\* The scheduler implements DagExecution: in every workflow a node is executed
\* once, after everything it depends on unless it is the entry or the target
\* of a jump, and "completed" is the verdict on complete workflows only.
THEOREM Refinement == Spec => ImplementsDag
  BY Invariance, InitImplements, NextImplements, PTL DEF Spec, ImplementsDag, DE!Spec
================================================================================
