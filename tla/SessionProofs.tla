----------------------------- MODULE SessionProofs -----------------------------
(***************************************************************************)
(* For every set of workflows: what a run's sessions leave behind, their   *)
(* trace records, the budget they have spent and the snapshots they took,  *)
(* is a true account of the run.  The invariant is in two parts.           *)
(* SessionInv says nothing of the context a run is given, so that it       *)
(* serves the engine as well, whose second run is given what the first one *)
(* left; PreState is about a run that starts with an empty context.        *)
(***************************************************************************)
EXTENDS TopoSchedulerProofs

\* The proofs about the snapshot store, for the store of a session.
CEP == INSTANCE ContextEngineProofs WITH Key <- Path, Ctx <- SUBSET Path,
                                         Kb <- ContextKb, Limits <- {}

\* No session changes the limits, so its store never has anything to evict.
StoreInv == CEP!IInv /\ ~CEP!InLimits

\* The save under way is the one of the node that is served.
SavePending ==
  call # CE!Idle =>
    /\ call = [op |-> "save", key |-> current, ctx |-> context]
    /\ NeedsSnapshot(Node)
    /\ phase = "charge" \/ (phase = "trace" /\ outcome = "ok")

Answered == phase = "trace" => outcome \in {"ok", "throw", "jump"}

\* A record is open exactly while its node runs.
Open == phase \in {"run", "resave", "trace"}

\* AuditTrail, with what it leaves out: where the open record is, and the node
\* whose record is closed but which is not marked as executed yet.
Accounted ==
  /\ phase = "register" => traces = << >>
  /\ Open => traces # << >> /\ traces[Len(traces)].node_path = current
  /\ \A i \in DOMAIN traces : /\ traces[i].node_path \in DOMAIN node_map
                              /\ traces[i].status = "running" <=> Open /\ i = Len(traces)
  /\ {traces[i].node_path : i \in Succeeded} =
       executed \cup (IF phase = "result" /\ outcome = "ok" THEN {current} ELSE {})
  /\ \A i, j \in Succeeded : traces[i].node_path = traces[j].node_path => i = j

\* The records of model calls.
ModelCalls == {i \in DOMAIN traces : NodeAt(traces[i].node_path).type = "DSL_CALL"}

\* BudgetBoundsWork, through the counters it is enforced with: a refused node
\* may have spent a model call that has no record.
Spent ==
  wf.budget.engaged =>
    /\ nodes_used = Len(traces)
    /\ wf.budget.max_nodes >= 0 => nodes_used <= wf.budget.max_nodes
    /\ Cardinality(ModelCalls) <= llm_calls_used
    /\ wf.budget.max_llm_calls >= 0 => llm_calls_used <= wf.budget.max_llm_calls

\* SnapshotKeysResolve, from the first save of a node on.
Resolved ==
  ~StoreRefuses =>
    /\ \A i \in DOMAIN traces :
         traces[i].ctx_snapshot_key \in DOMAIN snapshots \cup {NoPath}
    /\ phase \in {"charge", "run", "resave", "trace"} /\ NeedsSnapshot(Node) =>
         current \in DOMAIN snapshots /\ snapshots[current] = context

SessionInv == /\ SessionTypeOK /\ StoreInv /\ SavePending /\ Answered
              /\ Accounted /\ Spent /\ Resolved

\* The context of a run that began with an empty one holds the output of
\* executed nodes only, and so does every snapshot.
PreState == context \subseteq executed /\ SnapshotIsPreState

-----------------------------------------------------------------------------

\* The store of a session satisfies what the store's proofs assume.
LEMMA StoreAssumption == CEP!ContextAssumption
  BY ContextKbAssumption DEF CEP!ContextAssumption

\* Its cardinalities are those of this module.
LEMMA SameCounting ==
  ASSUME NEW S
  PROVE  /\ CE!Cardinality(S) = Cardinality(S) /\ CEP!Cardinality(S) = Cardinality(S)
         /\ CEP!IsFiniteSet(S) <=> IsFiniteSet(S)
  BY DEF CE!Cardinality, CEP!Cardinality, Cardinality, CEP!IsFiniteSet, IsFiniteSet

\* And so are its tests.
LEMMA SameTests ==
  /\ CE!OverLimits <=> CEP!OverLimits
  /\ CE!Evicting <=> CEP!Evicting
  /\ \A ctx : CE!Fits(ctx) <=> CEP!Fits(ctx)
  <1>1. CE!Cardinality(DOMAIN snapshots) = CEP!Cardinality(DOMAIN snapshots)
    BY SameCounting
  <1>2. CE!OverLimits <=> CEP!OverLimits
    BY <1>1 DEF CE!OverLimits, CEP!OverLimits
  <1>3. \A ctx : CE!Fits(ctx) <=> CEP!Fits(ctx)
    BY <1>1 DEF CE!Fits, CEP!Fits
  <1> QED
    BY <1>2, <1>3 DEF CE!Evicting, CEP!Evicting

\* The node that a session serves.
LEMMA Served ==
  ASSUME IInv, phase \in Serving
  PROVE  /\ IsWorkflow(wf) /\ current \in DOMAIN node_map /\ current \notin executed
         /\ current \in Path /\ Node = NodeAt(current) /\ Node.path = current
         /\ node_map[current] \in DOMAIN AllNodes(wf)
  <1>1. current \in DOMAIN node_map /\ current \notin executed
    BY DEF IInv, CurrentPlaced
  <1> QED
    BY <1>1, CurrentNode, RegisteredPaths DEF IInv, SchedulerTypeOK, NodeAt, Node

\* Every other step of the scheduler leaves the session's variables alone, and
\* is taken neither while a session runs nor into one.
LEMMA OutsideStep ==
  ASSUME IInv, Next, ~SessionStep
  PROVE  /\ UNCHANGED <<wf, sessionVars>>
         /\ phase \notin {"charge", "run", "resave", "trace"}
         /\ phase' \notin {"charge", "run", "resave", "trace", "result"}
         /\ context \subseteq context' /\ context' \subseteq context \cup {current}
         /\ DOMAIN node_map \subseteq DOMAIN node_map'
         /\ node_map' = node_map \/ phase = "register"
         /\ phase' = "register" => phase = "register"
         /\ executed' = executed \cup
                          (IF phase = "result" /\ outcome = "ok" THEN {current} ELSE {})
  <1>1. CASE RegisterNode
    BY <1>1 DEF RegisterNode
  <1>2. CASE RejectDag \/ BuildDag \/ ScanNode \/ StartAtEntry
    BY <1>2 DEF RejectDag, BuildDag, ScanNode, StartAtEntry, Return
  <1>3. CASE PickNode \/ QueueEmpty \/ SkipExecuted \/ NodeNotFound \/ WaitUnmet
             \/ WaitUnresolved \/ CallSession
    BY <1>3 DEF PickNode, QueueEmpty, SkipExecuted, NodeNotFound, WaitUnmet, WaitUnresolved,
                CallSession, Reached, Return, schedVars
  <1>4. CASE Jump \/ NodeFails
    BY <1>4 DEF Jump, NodeFails, Return
  <1>5. CASE MarkExecuted
    BY <1>5 DEF MarkExecuted
  <1>6. CASE Pause \/ TerminateFlow \/ BeginRelease \/ ReleaseSuccessor \/ EndRelease
    BY <1>6 DEF Pause, TerminateFlow, BeginRelease, ReleaseSuccessor, EndRelease, Return, schedVars
  <1>7. CASE DurationExceeded \/ ReportUnexecuted \/ Complete
    BY <1>7 DEF DurationExceeded, ReportUnexecuted, Complete, Return
  <1>8. CASE Finished
    BY <1>8 DEF Finished, vars, schedVars
  <1> QED
    BY <1>1, <1>2, <1>3, <1>4, <1>5, <1>6, <1>7, <1>8 DEF Next

-----------------------------------------------------------------------------

\* What a session step does to the store is a step of ContextEngine.
LEMMA StoreStep ==
  ASSUME IInv, SessionStep
  PROVE  [CEP!Next]_(CEP!vars)
  <1>1. current \in Path /\ Node.path = current /\ context \in SUBSET Path
    BY Served DEF SessionStep, InSession, Serving, IInv, SchedulerTypeOK
  <1>2. ASSUME SaveIfNeeded(Node) PROVE CEP!SaveSnapshot(current, context) \/ UNCHANGED CEP!vars
    BY <1>1, <1>2, SameTests
       DEF SaveIfNeeded, CE!SaveSnapshot, CE!Store, CE!Idle, CE!store, CE!limits,
           CEP!SaveSnapshot, CEP!Store, CEP!Idle, CEP!store, CEP!limits, CEP!vars, storeVars
  <1>3. ASSUME CE!EvictOldest PROVE CEP!EvictOldest
    BY <1>3, SameTests DEF CE!EvictOldest, CE!Idle, CEP!EvictOldest, CEP!Idle
  <1>4. ASSUME CE!RecheckSave PROVE CEP!RecheckSave
    BY <1>4, SameTests
       DEF CE!RecheckSave, CE!InSave, CE!Idle, CE!Store, CE!store, CE!limits,
           CEP!RecheckSave, CEP!InSave, CEP!Idle, CEP!Store, CEP!store, CEP!limits
  <1>5. CASE SnapshotBefore(Node) \/ SnapshotAfter(Node)
    <2>1. SaveIfNeeded(Node)
      BY <1>5 DEF SnapshotBefore, SnapshotAfter
    <2> QED
      BY <1>1, <1>2, <2>1 DEF CEP!Next
  <1>6. CASE EnforceSnapshotBudget
    BY <1>3, <1>4, <1>6 DEF EnforceSnapshotBudget, CEP!Next
  <1>7. CASE \/ RefuseLlmCall(Node) \/ RefuseDepth(Node) \/ RefuseNode(Node)
             \/ AdmitNode(Node) \/ RunNode(Node) \/ EndTrace(Node)
    BY <1>7 DEF RefuseLlmCall, RefuseDepth, RefuseNode, Refuse, AdmitNode, RunNode, EndTrace,
                storeVars, CEP!vars
  <1> QED
    BY <1>5, <1>6, <1>7 DEF SessionStep, ExecuteNode

\* In the end a session step either leaves the store alone or puts the context
\* of the node that is served into it: nothing is ever evicted.
LEMMA StoreGrows ==
  ASSUME IInv, SessionInv, SessionStep
  PROVE  /\ UNCHANGED <<max_snapshots, max_snapshot_size_kb>>
         /\ \/ UNCHANGED <<snapshots, current_total_size_kb>>
            \/ /\ snapshots' = [k \in DOMAIN snapshots \cup {current} |->
                                  IF k = current THEN context ELSE snapshots[k]]
               /\ current_total_size_kb' = current_total_size_kb + ContextKb[context]
               /\ phase' # "result"
  <1>1. Node.path = current
    BY Served DEF SessionStep, InSession, Serving
  <1>2. CASE SnapshotBefore(Node) \/ SnapshotAfter(Node)
    BY <1>1, <1>2 DEF SnapshotBefore, SnapshotAfter, SaveIfNeeded, CE!SaveSnapshot, CE!Store,
                      CE!store, CE!limits, storeVars
  <1>3. CASE EnforceSnapshotBudget
    <2>1. ~CE!EvictOldest
      BY SameTests DEF SessionInv, StoreInv, CEP!IInv, CEP!NothingToEvict, CE!EvictOldest
    <2>2. CE!RecheckSave /\ call # CE!Idle /\ phase' = phase
      BY <1>3, <2>1 DEF EnforceSnapshotBudget, CE!RecheckSave, CE!InSave
    <2>3. call.key = current /\ call.ctx = context /\ phase # "result"
      BY <2>2 DEF SessionInv, SavePending
    <2> QED
      BY <2>2, <2>3 DEF CE!RecheckSave, CE!Store, CE!store, CE!limits
  <1>4. CASE \/ RefuseLlmCall(Node) \/ RefuseDepth(Node) \/ RefuseNode(Node)
             \/ AdmitNode(Node) \/ RunNode(Node) \/ EndTrace(Node)
    BY <1>4 DEF RefuseLlmCall, RefuseDepth, RefuseNode, Refuse, AdmitNode, RunNode, EndTrace,
                storeVars
  <1> QED
    BY <1>2, <1>3, <1>4 DEF SessionStep, ExecuteNode

-----------------------------------------------------------------------------

\* What a session step does to the records: it opens one, closes the open one,
\* or leaves them alone.
OpensRecord ==
  /\ phase = "charge" /\ phase' = "run" /\ outcome' = outcome
  /\ traces' = Append(traces, TE!Record(current))

ClosesRecord ==
  /\ phase = "trace" /\ phase' = "result" /\ outcome' = outcome
  /\ traces' = [traces EXCEPT ![Len(traces)] =
                  [node_path |-> current,
                   status |-> IF outcome = "ok" THEN "success" ELSE "failed",
                   ctx_snapshot_key |-> SnapshotKey(Node)]]

KeepsRecords ==
  /\ traces' = traces /\ Open' = Open
  /\ phase' = "result" => outcome' = "refused"

\* The records are a sequence with positions 1 to its length, and the last one
\* is the open one.
LEMMA Positions ==
  ASSUME SessionInv
  PROVE  /\ DOMAIN traces = 1..Len(traces) /\ Len(traces) \in Nat
         /\ \A i \in DOMAIN traces : traces[i] \in [node_path : Path,
               status : {"running", "success", "failed"}, ctx_snapshot_key : Path \cup {NoPath}]
         /\ Open => /\ Len(traces) \in DOMAIN traces /\ traces[Len(traces)].node_path = current
                    /\ traces[Len(traces)].status = "running"
  <1>1. traces \in Seq([node_path : Path, status : {"running", "success", "failed"},
                        ctx_snapshot_key : Path \cup {NoPath}])
    BY DEF SessionInv, SessionTypeOK
  <1>2. DOMAIN traces = 1..Len(traces) /\ Len(traces) \in Nat
    BY <1>1, LenProperties
  <1>3. Open => Len(traces) \in DOMAIN traces
    <2>1. Open => traces # << >>
      BY DEF SessionInv, Accounted
    <2> QED
      BY <1>1, <1>2, <2>1, EmptySeq
  <1> QED
    BY <1>1, <1>2, <1>3, ElementOfSeq DEF SessionInv, Accounted

\* on_node_end finds the record of the node that is served.
LEMMA LastIsRunning ==
  ASSUME SessionInv, Open
  PROVE  TE!Running(current) = {Len(traces)} /\ TE!LastRunning(current) = Len(traces)
  <1>1. TE!Running(current) = {Len(traces)}
    BY Positions DEF TE!Running, SessionInv, Accounted
  <1>2. Len(traces) <= Len(traces)
    BY Positions
  <1> QED
    BY <1>1, <1>2 DEF TE!LastRunning

\* Closing a record sets two of its fields.
LEMMA Closing ==
  ASSUME NEW ts, NEW n \in DOMAIN ts, NEW status, NEW key,
         ts[n] = [node_path |-> ts[n].node_path, status |-> ts[n].status,
                  ctx_snapshot_key |-> ts[n].ctx_snapshot_key]
  PROVE  [ts EXCEPT ![n].status = status, ![n].ctx_snapshot_key = key] =
         [ts EXCEPT ![n] = [node_path |-> ts[n].node_path, status |-> status,
                            ctx_snapshot_key |-> key]]
  <1> DEFINE r == [ts[n] EXCEPT !.status = status]
  <1>1. r = [node_path |-> ts[n].node_path, status |-> status,
             ctx_snapshot_key |-> ts[n].ctx_snapshot_key]
    OBVIOUS
  <1>2. [r EXCEPT !.ctx_snapshot_key = key] =
          [node_path |-> ts[n].node_path, status |-> status, ctx_snapshot_key |-> key]
    <2> HIDE DEF r
    <2> QED
      BY <1>1
  <1> QED
    BY <1>2

LEMMA EndTraceCloses ==
  ASSUME IInv, SessionInv, EndTrace(Node) PROVE ClosesRecord
  <1> DEFINE n == Len(traces)
             status == IF outcome = "ok" THEN "success" ELSE "failed"
             key == SnapshotKey(Node)
  <1>1. /\ phase = "trace" /\ phase' = "result" /\ outcome' = outcome
        /\ TE!OnNodeEnd(Node.path, status, key)
    BY DEF EndTrace
  <1>2. Node.path = current /\ Open
    BY <1>1, Served DEF Serving, Open
  <1>3. /\ DOMAIN traces = 1..n /\ n \in DOMAIN traces /\ traces[n].node_path = current
        /\ traces[n] \in [node_path : Path, status : {"running", "success", "failed"},
                          ctx_snapshot_key : Path \cup {NoPath}]
    BY <1>2, Positions
  <1>4. traces' = [traces EXCEPT ![n].status = status, ![n].ctx_snapshot_key = key]
    BY <1>1, <1>2, LastIsRunning DEF TE!OnNodeEnd
  <1>6. traces' = [traces EXCEPT ![n] =
                     [node_path |-> current, status |-> status, ctx_snapshot_key |-> key]]
    <2>1. traces[n] = [node_path |-> traces[n].node_path, status |-> traces[n].status,
                       ctx_snapshot_key |-> traces[n].ctx_snapshot_key]
      BY <1>3
    <2> HIDE DEF n, status, key
    <2>2. [traces EXCEPT ![n].status = status, ![n].ctx_snapshot_key = key] =
            [traces EXCEPT ![n] = [node_path |-> traces[n].node_path, status |-> status,
                                   ctx_snapshot_key |-> key]]
      BY <1>3, <2>1, Closing
    <2> QED
      BY <1>3, <1>4, <2>2
  <1> QED
    BY <1>1, <1>6 DEF ClosesRecord

LEMMA TraceStep ==
  ASSUME IInv, SessionInv, SessionStep
  PROVE  OpensRecord \/ ClosesRecord \/ KeepsRecords
  <1>1. Node.path = current
    BY Served DEF SessionStep, InSession, Serving
  <1>2. CASE AdmitNode(Node)
    BY <1>1, <1>2 DEF AdmitNode, TE!OnNodeStart, OpensRecord
  <1>3. CASE EndTrace(Node)
    BY <1>3, EndTraceCloses
  <1>4. CASE SnapshotBefore(Node) \/ RunNode(Node) \/ SnapshotAfter(Node)
    BY <1>4 DEF SnapshotBefore, RunNode, SnapshotAfter, KeepsRecords, Open
  <1>5. CASE EnforceSnapshotBudget
    BY <1>5 DEF EnforceSnapshotBudget, KeepsRecords, Open, SessionStep, InSession
  <1>6. CASE RefuseLlmCall(Node) \/ RefuseDepth(Node) \/ RefuseNode(Node)
    BY <1>6 DEF RefuseLlmCall, RefuseDepth, RefuseNode, Refuse, KeepsRecords, Open
  <1> QED
    BY <1>2, <1>3, <1>4, <1>5, <1>6 DEF SessionStep, ExecuteNode

-----------------------------------------------------------------------------

LEMMA SessionTypes ==
  ASSUME IInv, SessionInv, SessionStep
  PROVE  SessionTypeOK' /\ StoreInv'
  <1> DEFINE Kinds == [node_path : Path, status : {"running", "success", "failed"},
                       ctx_snapshot_key : Path \cup {NoPath}]
  <1>1. StoreInv'
    <2>1. CEP!IInv'
      <3>1. CEP!IInv
        BY DEF SessionInv, StoreInv
      <3>2. [CEP!Next]_(CEP!vars)
        BY StoreStep
      <3> QED
        BY <3>1, <3>2, CEP!NextIInv, StoreAssumption
    <2>2. ~CEP!InLimits'
      BY StoreStep DEF SessionInv, StoreInv, CEP!InLimits, CEP!Next, CEP!SaveSnapshot, CEP!EvictOldest,
         CEP!RecheckSave, CEP!LimitsEnforced, CEP!SetSnapshotLimits, CEP!Idle, CEP!vars
    <2> QED
      BY <2>1, <2>2 DEF StoreInv
  <1>2. CE!TypeOK'
    BY <1>1 DEF StoreInv, CEP!IInv, CEP!TypeOK, CE!TypeOK, CEP!Idle, CE!Idle
  <1>3. /\ outcome' \in {"none", "ok", "throw", "jump", "refused"}
        /\ nodes_used' \in Nat /\ llm_calls_used' \in Nat /\ subgraph_depth_used' \in Nat
    <2>1. /\ outcome \in {"none", "ok", "throw", "jump", "refused"}
          /\ nodes_used \in Nat /\ llm_calls_used \in Nat /\ subgraph_depth_used \in Nat
      BY DEF SessionInv, SessionTypeOK
    <2>2. \A used \in Nat : Consume(used) \in Nat
      BY DEF Consume
    <2>3. CASE AdmitNode(Node) \/ RefuseNode(Node)
      BY <2>1, <2>2, <2>3 DEF AdmitNode, RefuseNode, Refuse, ConsumeSpecial
    <2>4. CASE RunNode(Node)
      BY <2>1, <2>4 DEF RunNode, Outcomes, counters
    <2>5. CASE RefuseLlmCall(Node) \/ RefuseDepth(Node)
      BY <2>1, <2>5 DEF RefuseLlmCall, RefuseDepth, Refuse, counters
    <2>6. CASE \/ SnapshotBefore(Node) \/ EnforceSnapshotBudget \/ SnapshotAfter(Node)
               \/ EndTrace(Node)
      BY <2>1, <2>6 DEF SnapshotBefore, EnforceSnapshotBudget, SnapshotAfter, EndTrace, counters
    <2> QED
      BY <2>3, <2>4, <2>5, <2>6 DEF SessionStep, ExecuteNode
  <1>4. traces' \in Seq(Kinds)
    <2>1. traces \in Seq(Kinds)
      BY DEF SessionInv, SessionTypeOK
    <2>2. current \in Path /\ SnapshotKey(Node) \in Path \cup {NoPath}
      BY Served DEF SessionStep, InSession, Serving, SnapshotKey
    <2>3. CASE OpensRecord
      <3>1. TE!Record(current) \in Kinds
        BY <2>2 DEF TE!Record
      <3> QED
        BY <2>1, <2>3, <3>1, AppendProperties DEF OpensRecord
    <2>4. CASE ClosesRecord
      <3> DEFINE r == [node_path |-> current,
                       status |-> IF outcome = "ok" THEN "success" ELSE "failed",
                       ctx_snapshot_key |-> SnapshotKey(Node)]
      <3>1. r \in Kinds
        BY <2>2
      <3>2. Len(traces) \in 1..Len(traces)
        BY <2>4, Positions DEF ClosesRecord, Open
      <3>3. traces' = [traces EXCEPT ![Len(traces)] = r]
        BY <2>4 DEF ClosesRecord
      <3> HIDE DEF r, Kinds
      <3> QED
        BY <2>1, <3>1, <3>2, <3>3, ExceptSeq
    <2> QED
      BY <2>1, <2>3, <2>4, TraceStep DEF KeepsRecords
  <1> QED
    BY <1>1, <1>2, <1>3, <1>4 DEF SessionTypeOK

LEMMA SessionSaves ==
  ASSUME IInv, SessionInv, SessionStep
  PROVE  SavePending' /\ Answered'
  <1>1. UNCHANGED <<wf, context, node_map, current>> /\ Node' = Node /\ Node.path = current
    BY Served DEF SessionStep, InSession, Serving, schedVars, Node
  <1>2. CASE SnapshotBefore(Node) \/ SnapshotAfter(Node)
    <2>1. call' # CE!Idle => /\ call' = [op |-> "save", key |-> current, ctx |-> context]
                             /\ NeedsSnapshot(Node)
      BY <1>1, <1>2 DEF SnapshotBefore, SnapshotAfter, SaveIfNeeded, CE!SaveSnapshot, storeVars
    <2>2. /\ phase' = "charge" \/ (phase' = "trace" /\ outcome' = "ok")
      BY <1>2 DEF SnapshotBefore, SnapshotAfter, IInv, JumpKnown
    <2> QED
      BY <1>1, <2>1, <2>2 DEF SavePending, Answered
  <1>3. CASE EnforceSnapshotBudget
    <2>1. ~CE!EvictOldest
      BY SameTests DEF SessionInv, StoreInv, CEP!IInv, CEP!NothingToEvict, CE!EvictOldest
    <2>2. call' = CE!Idle /\ phase' = phase /\ outcome' = outcome
      BY <1>3, <2>1 DEF EnforceSnapshotBudget, CE!RecheckSave
    <2> QED
      BY <2>2 DEF SavePending, Answered, SessionInv
  <1>4. CASE RunNode(Node)
    <2>1. /\ call' = call /\ phase = "run" /\ phase' \in {"resave", "trace"}
          /\ phase' = "trace" => outcome' \in {"throw", "jump"}
      BY <1>4 DEF RunNode, storeVars, Outcomes
    <2>2. call = CE!Idle
      BY <2>1 DEF SavePending, SessionInv
    <2> QED
      BY <2>1, <2>2 DEF SavePending, Answered
  <1>5. CASE \/ RefuseLlmCall(Node) \/ RefuseDepth(Node) \/ RefuseNode(Node)
             \/ AdmitNode(Node) \/ EndTrace(Node)
    <2>1. call = CE!Idle /\ call' = call /\ phase' \in {"result", "run"}
      BY <1>5 DEF RefuseLlmCall, RefuseDepth, RefuseNode, Refuse, AdmitNode, EndTrace, storeVars
    <2> QED
      BY <2>1 DEF SavePending, Answered
  <1> QED
    BY <1>2, <1>3, <1>4, <1>5 DEF SessionStep, ExecuteNode

-----------------------------------------------------------------------------

\* A session closes the record of the node it served, which has not executed
\* before, as a success exactly when it answers "ok".
LEMMA SessionAccounts ==
  ASSUME IInv, SessionInv, SessionStep
  PROVE  Accounted'
  <1> DEFINE n == Len(traces)
  <1>1. /\ UNCHANGED <<node_map, current, executed>> /\ phase' # "register"
        /\ phase # "result" /\ current \notin executed /\ current \in DOMAIN node_map
    BY SessionAnswers, Served DEF schedVars, Serving, SessionStep, InSession
  <1>2. /\ traces \in Seq(Range(traces)) /\ DOMAIN traces = 1..n /\ n \in Nat
    BY Positions, SeqOfRange DEF SessionInv, SessionTypeOK
  <1>3. /\ \A i \in DOMAIN traces : /\ traces[i].node_path \in DOMAIN node_map
                                    /\ traces[i].status = "running" <=> Open /\ i = n
        /\ {traces[i].node_path : i \in Succeeded} = executed
        /\ \A i, j \in Succeeded : traces[i].node_path = traces[j].node_path => i = j
    BY <1>1 DEF SessionInv, Accounted
  <1>4. CASE OpensRecord
    <2>1. /\ traces' = Append(traces, TE!Record(current)) /\ phase' = "run" /\ ~Open /\ Open'
      BY <1>4 DEF OpensRecord, Open
    <2>2. /\ DOMAIN traces' = 1..(n + 1) /\ Len(traces') = n + 1
          /\ \A i \in 1..n : traces'[i] = traces[i]
          /\ traces'[n + 1] = TE!Record(current)
      BY <1>2, <2>1
    <2>3. traces'[n + 1].node_path = current /\ traces'[n + 1].status = "running"
      BY <2>2 DEF TE!Record
    <2>4. Succeeded' = Succeeded
      BY <1>2, <2>2, <2>3 DEF Succeeded
    <2>5. \A i \in DOMAIN traces' : /\ traces'[i].node_path \in DOMAIN node_map
                                    /\ traces'[i].status = "running" <=> i = n + 1
      BY <1>1, <1>2, <1>3, <2>1, <2>2, <2>3
    <2>6. \A i \in Succeeded : traces'[i] = traces[i]
      BY <1>2, <2>2 DEF Succeeded
    <2>7. /\ {traces'[i].node_path : i \in Succeeded} = executed
          /\ \A i, j \in Succeeded : traces'[i].node_path = traces'[j].node_path => i = j
      BY <1>3, <2>6
    <2>8. traces' # << >> /\ traces'[Len(traces')].node_path = current
      BY <1>2, <2>1, <2>2, <2>3
    <2> QED
      BY <1>1, <2>1, <2>2, <2>4, <2>5, <2>7, <2>8 DEF Accounted
  <1>5. CASE ClosesRecord
    <2> DEFINE r == [node_path |-> current,
                     status |-> IF outcome = "ok" THEN "success" ELSE "failed",
                     ctx_snapshot_key |-> SnapshotKey(Node)]
    <2>1. traces' = [traces EXCEPT ![n] = r] /\ phase = "trace" /\ phase' = "result" /\ outcome' = outcome
      BY <1>5 DEF ClosesRecord
    <2>2. n \in DOMAIN traces /\ traces[n].status = "running" /\ Open /\ ~Open'
      BY <2>1, Positions DEF Open
    <2>3. /\ DOMAIN traces' = DOMAIN traces /\ traces'[n] = r
          /\ \A i \in DOMAIN traces : i # n => traces'[i] = traces[i]
      BY <2>1, <2>2
    <2>4. r.node_path = current /\ r.status # "running" /\ (r.status = "success" <=> outcome = "ok")
      OBVIOUS
    <2>5. n \notin Succeeded
      BY <2>2 DEF Succeeded
    <2>6. Succeeded' = Succeeded \cup (IF outcome = "ok" THEN {n} ELSE {})
      BY <2>2, <2>3, <2>4, <2>5 DEF Succeeded
    <2>7. \A i \in Succeeded : traces'[i] = traces[i] /\ traces[i].node_path \in executed
      BY <1>3, <2>3, <2>5 DEF Succeeded
    <2>8. /\ {traces'[i].node_path : i \in Succeeded'} =
               executed \cup (IF outcome = "ok" THEN {current} ELSE {})
          /\ \A i, j \in Succeeded' : traces'[i].node_path = traces'[j].node_path => i = j
      <3>1. {traces'[i].node_path : i \in Succeeded} = executed
        BY <1>3, <2>7
      <3>2. \A i, j \in Succeeded : traces'[i].node_path = traces'[j].node_path => i = j
        BY <1>3, <2>7
      <3>3. CASE outcome = "ok"
        <4>1. Succeeded' = Succeeded \cup {n} /\ traces'[n].node_path = current
          BY <2>3, <2>4, <2>6, <3>3
        <4>2. \A i \in Succeeded : traces'[i].node_path # current
          BY <1>1, <2>7
        <4> QED
          BY <3>1, <3>2, <3>3, <4>1, <4>2
      <3>4. CASE outcome # "ok"
        BY <2>6, <3>1, <3>2, <3>4
      <3> QED
        BY <3>3, <3>4
    <2>9. \A i \in DOMAIN traces' : /\ traces'[i].node_path \in DOMAIN node_map
                                    /\ traces'[i].status # "running"
      BY <1>1, <1>3, <2>2, <2>3, <2>4
    <2> QED
      BY <1>1, <2>1, <2>2, <2>8, <2>9 DEF Accounted
  <1>6. CASE KeepsRecords
    <2>1. /\ traces' = traces /\ Open' = Open /\ ~(phase' = "result" /\ outcome' = "ok")
          /\ Succeeded' = Succeeded
      BY <1>6 DEF KeepsRecords, Succeeded
    <2>2. Open => traces # << >> /\ traces[Len(traces)].node_path = current
      BY DEF SessionInv, Accounted
    <2> QED
      BY <1>1, <1>3, <2>1, <2>2 DEF Accounted
  <1> QED
    BY <1>4, <1>5, <1>6, TraceStep

-----------------------------------------------------------------------------

LEMMA CallsFinite ==
  ASSUME SessionInv
  PROVE  IsFiniteSet(ModelCalls) /\ Cardinality(ModelCalls) \in Nat
  <1>1. IsFiniteSet(1..Len(traces)) /\ ModelCalls \subseteq 1..Len(traces)
    BY Positions, FS_Interval DEF ModelCalls
  <1> QED
    BY <1>1, FS_Subset, FS_CardinalityType

\* The records of model calls grow by the one that is opened, if it is one.
LEMMA CallsGrow ==
  ASSUME IInv, SessionInv, SessionStep
  PROVE  IF OpensRecord
           THEN /\ Len(traces') = Len(traces) + 1
                /\ Cardinality(ModelCalls') =
                     Cardinality(ModelCalls) + (IF Node.type = "DSL_CALL" THEN 1 ELSE 0)
           ELSE Len(traces') = Len(traces) /\ ModelCalls' = ModelCalls
  <1> DEFINE n == Len(traces)
  <1>1. /\ UNCHANGED <<wf, node_map, current>> /\ Node = NodeAt(current)
        /\ \A p : NodeAt(p)' = NodeAt(p)
    BY SessionAnswers, Served DEF schedVars, NodeAt
  <1>2. /\ traces \in Seq(Range(traces)) /\ DOMAIN traces = 1..n /\ n \in Nat
    BY Positions, SeqOfRange DEF SessionInv, SessionTypeOK
  <1>3. CASE OpensRecord
    <2>1. traces' = Append(traces, TE!Record(current))
      BY <1>3 DEF OpensRecord
    <2>2. /\ DOMAIN traces' = 1..(n + 1) /\ Len(traces') = n + 1
          /\ \A i \in 1..n : traces'[i] = traces[i]
          /\ traces'[n + 1].node_path = current
      BY <1>2, <2>1 DEF TE!Record
    <2>3. ModelCalls' = ModelCalls \cup (IF Node.type = "DSL_CALL" THEN {n + 1} ELSE {})
      BY <1>1, <1>2, <2>2 DEF ModelCalls
    <2>4. n + 1 \notin ModelCalls
      BY <1>2 DEF ModelCalls
    <2>5. Cardinality(ModelCalls') =
            Cardinality(ModelCalls) + (IF Node.type = "DSL_CALL" THEN 1 ELSE 0)
      <3>1. CASE Node.type = "DSL_CALL"
        <4>1. ModelCalls' = ModelCalls \cup {n + 1}
          BY <2>3, <3>1
        <4>2. Cardinality(ModelCalls \cup {n + 1}) = Cardinality(ModelCalls) + 1
          BY <2>4, CallsFinite, FS_AddElement
        <4> QED
          BY <3>1, <4>1, <4>2
      <3>2. CASE Node.type # "DSL_CALL"
        BY <2>3, <3>2, CallsFinite
      <3> QED
        BY <3>1, <3>2
    <2> QED
      BY <1>3, <2>2, <2>5
  <1>4. CASE ClosesRecord
    <2>1. n \in DOMAIN traces /\ traces[n].node_path = current
      BY <1>4, Positions DEF ClosesRecord, Open
    <2>2. /\ DOMAIN traces' = DOMAIN traces /\ Len(traces') = n
          /\ \A i \in DOMAIN traces : traces'[i].node_path = traces[i].node_path
      BY <1>2, <1>4, <2>1 DEF ClosesRecord
    <2>3. ModelCalls' = ModelCalls
      BY <1>1, <2>2 DEF ModelCalls
    <2> QED
      BY <1>4, <2>2, <2>3 DEF ClosesRecord, OpensRecord
  <1>5. CASE KeepsRecords
    <2>1. ~OpensRecord /\ traces' = traces
      BY <1>5 DEF KeepsRecords, OpensRecord, Open
    <2>2. ModelCalls' = ModelCalls
      BY <1>1, <2>1 DEF ModelCalls
    <2> QED
      BY <2>1, <2>2
  <1> QED
    BY <1>3, <1>4, <1>5, TraceStep

\* Whatever opens a record has paid for it, and for the model call it is of.
LEMMA SessionSpends ==
  ASSUME IInv, SessionInv, SessionStep
  PROVE  Spent'
  <1> SUFFICES ASSUME wf.budget.engaged
               PROVE  /\ nodes_used' = Len(traces')
                      /\ wf.budget.max_nodes >= 0 => nodes_used' <= wf.budget.max_nodes
                      /\ Cardinality(ModelCalls') <= llm_calls_used'
                      /\ wf.budget.max_llm_calls >= 0 =>
                           llm_calls_used' <= wf.budget.max_llm_calls
    BY SessionAnswers DEF Spent
  <1>1. /\ nodes_used = Len(traces)
        /\ wf.budget.max_nodes >= 0 => nodes_used <= wf.budget.max_nodes
        /\ Cardinality(ModelCalls) <= llm_calls_used
        /\ wf.budget.max_llm_calls >= 0 => llm_calls_used <= wf.budget.max_llm_calls
    BY DEF SessionInv, Spent
  <1>2. /\ nodes_used \in Nat /\ llm_calls_used \in Nat /\ Cardinality(ModelCalls) \in Nat
        /\ wf.budget.max_nodes \in Int /\ wf.budget.max_llm_calls \in Int
    BY CallsFinite DEF SessionInv, SessionTypeOK, IInv, SchedulerTypeOK, IsWorkflow,
                       WorkflowRecord, Budget
  <1>3. CASE AdmitNode(Node)
    <2>1. OpensRecord
      BY <1>3, Served DEF AdmitNode, TE!OnNodeStart, OpensRecord, Serving
    <2>2. /\ nodes_used' = nodes_used + 1
          /\ wf.budget.max_nodes >= 0 => ~(nodes_used >= wf.budget.max_nodes)
      BY <1>3 DEF AdmitNode, Consume, NodesExhausted, Exhausted
    <2>3. CASE Node.type = "DSL_CALL"
      <3>1. /\ llm_calls_used' = llm_calls_used + 1
            /\ wf.budget.max_llm_calls >= 0 => ~(llm_calls_used >= wf.budget.max_llm_calls)
        BY <1>3, <2>3 DEF AdmitNode, ConsumeSpecial, Consume, LlmCallExhausted, Exhausted
      <3> QED
        BY <1>1, <1>2, <2>1, <2>2, <2>3, <3>1, CallsGrow
    <2>4. CASE Node.type # "DSL_CALL"
      <3>1. llm_calls_used' = llm_calls_used
        BY <1>3, <2>4 DEF AdmitNode, ConsumeSpecial
      <3> QED
        BY <1>1, <1>2, <2>1, <2>2, <2>4, <3>1, CallsGrow
    <2> QED
      BY <2>3, <2>4
  <1>4. CASE ~AdmitNode(Node)
    <2>1. ~OpensRecord
      BY <1>4 DEF OpensRecord, SessionStep, ExecuteNode, SnapshotBefore, EnforceSnapshotBudget,
                  RefuseLlmCall, RefuseDepth, RefuseNode, Refuse, RunNode, SnapshotAfter, EndTrace
    <2>2. /\ nodes_used' = nodes_used /\ llm_calls_used' >= llm_calls_used
          /\ wf.budget.max_llm_calls >= 0 => llm_calls_used' <= wf.budget.max_llm_calls
      <3>1. CASE RefuseNode(Node)
        <4>1. CASE Node.type = "DSL_CALL"
          BY <1>1, <1>2, <3>1, <4>1
             DEF RefuseNode, ConsumeSpecial, Consume, LlmCallExhausted, Exhausted
        <4>2. CASE Node.type # "DSL_CALL"
          BY <1>1, <1>2, <3>1, <4>2 DEF RefuseNode, ConsumeSpecial
        <4> QED
          BY <4>1, <4>2
      <3>2. CASE \/ SnapshotBefore(Node) \/ EnforceSnapshotBudget \/ RefuseLlmCall(Node)
                 \/ RefuseDepth(Node) \/ RunNode(Node) \/ SnapshotAfter(Node) \/ EndTrace(Node)
        <4>1. UNCHANGED counters
          BY <3>2 DEF SnapshotBefore, EnforceSnapshotBudget, RefuseLlmCall, RefuseDepth, RunNode,
                      SnapshotAfter, EndTrace
        <4> QED
          BY <1>1, <1>2, <4>1 DEF counters
      <3> QED
        BY <1>4, <3>1, <3>2 DEF SessionStep, ExecuteNode
    <2>3. Len(traces') = Len(traces) /\ ModelCalls' = ModelCalls
      BY <2>1, CallsGrow
    <2>4. llm_calls_used' \in Nat
      BY SessionTypes DEF SessionTypeOK
    <2> QED
      BY <1>1, <1>2, <2>2, <2>3, <2>4
  <1> QED
    BY <1>3, <1>4

-----------------------------------------------------------------------------

\* What the store's own invariant says of its sizes.
LEMMA StoreSizes ==
  ASSUME IInv, StoreInv
  PROVE  /\ IsFiniteSet(DOMAIN snapshots) /\ Cardinality(DOMAIN snapshots) \in Nat
         /\ current_total_size_kb \in Nat /\ max_snapshots \in Nat /\ max_snapshot_size_kb \in Nat
         /\ \A ctx \in SUBSET context : ContextKb[ctx] \in Nat
         /\ ContextKb[context] \in Nat
  <1>1. IsFiniteSet(DOMAIN snapshots)
    BY SameCounting DEF StoreInv, CEP!IInv, CEP!Finite
  <1>2. context \subseteq Path
    BY DEF IInv, SchedulerTypeOK
  <1>3. \A ctx \in SUBSET context : ContextKb[ctx] \in Nat
    BY <1>2, ContextKbAssumption
  <1> QED
    BY <1>1, <1>3, FS_CardinalityType DEF StoreInv, CEP!IInv, CEP!TypeOK

\* A store without room never has room again: snapshots, their estimate and
\* the context only grow.
LEMMA RefusesOn ==
  ASSUME IInv, SessionInv, StoreRefuses, StoreInv', context \subseteq context',
         UNCHANGED <<max_snapshots, max_snapshot_size_kb>>,
         DOMAIN snapshots \subseteq DOMAIN snapshots',
         current_total_size_kb' >= current_total_size_kb
  PROVE  StoreRefuses'
  <1>1. /\ Cardinality(DOMAIN snapshots) \in Nat /\ current_total_size_kb \in Nat
        /\ max_snapshots \in Nat /\ max_snapshot_size_kb \in Nat
        /\ \A ctx \in SUBSET context : ContextKb[ctx] \in Nat
    BY StoreSizes DEF SessionInv
  <1>2. /\ IsFiniteSet(DOMAIN snapshots') /\ Cardinality(DOMAIN snapshots') \in Nat
        /\ current_total_size_kb' \in Nat
    <2>1. IsFiniteSet(DOMAIN snapshots')
      BY SameCounting DEF StoreInv, CEP!IInv, CEP!Finite
    <2> QED
      BY <2>1, FS_CardinalityType DEF StoreInv, CEP!IInv, CEP!TypeOK
  <1>3. Cardinality(DOMAIN snapshots) <= Cardinality(DOMAIN snapshots')
    BY <1>2, FS_Subset
  <1>4. CASE Cardinality(DOMAIN snapshots) >= max_snapshots
    BY <1>1, <1>2, <1>3, <1>4 DEF StoreRefuses
  <1>5. CASE \E ctx \in SUBSET context : current_total_size_kb + ContextKb[ctx] > max_snapshot_size_kb
    <2>1. PICK ctx \in SUBSET context : current_total_size_kb + ContextKb[ctx] > max_snapshot_size_kb
      BY <1>5
    <2>2. ctx \in SUBSET context' /\ current_total_size_kb' + ContextKb[ctx] > max_snapshot_size_kb'
      BY <1>1, <1>2, <2>1
    <2> QED
      BY <2>2 DEF StoreRefuses
  <1> QED
    BY <1>4, <1>5 DEF StoreRefuses

\* With room left, a snapshot is stored before its node is charged for, and is
\* still there, of the same context, when the record is closed.
LEMMA SessionResolves ==
  ASSUME IInv, SessionInv, SessionStep
  PROVE  Resolved'
  <1> SUFFICES ASSUME ~StoreRefuses'
               PROVE  /\ \A i \in DOMAIN traces' :
                           traces'[i].ctx_snapshot_key \in DOMAIN snapshots' \cup {NoPath}
                      /\ phase' \in {"charge", "run", "resave", "trace"} /\ NeedsSnapshot(Node) =>
                           current \in DOMAIN snapshots' /\ snapshots'[current] = context
    <2>1. UNCHANGED <<context, current>> /\ Node' = Node
      BY SessionAnswers DEF schedVars, Node
    <2> QED
      BY <2>1 DEF Resolved
  <1>1. /\ UNCHANGED <<wf, context>> /\ phase \in Serving \ {"result"} /\ Node.path = current
    BY Served DEF SessionStep, InSession, Serving
  <1>2. /\ UNCHANGED <<max_snapshots, max_snapshot_size_kb>>
        /\ DOMAIN snapshots \subseteq DOMAIN snapshots'
        /\ current_total_size_kb' >= current_total_size_kb
        /\ current \in DOMAIN snapshots /\ snapshots[current] = context =>
             current \in DOMAIN snapshots' /\ snapshots'[current] = context
    <2>1. ContextKb[context] \in Nat /\ current_total_size_kb \in Nat
      BY StoreSizes DEF SessionInv
    <2> QED
      BY <2>1, StoreGrows
  <1>3. ~StoreRefuses
    BY <1>1, <1>2, RefusesOn, SessionTypes
  <1>4. /\ \A i \in DOMAIN traces : traces[i].ctx_snapshot_key \in DOMAIN snapshots \cup {NoPath}
        /\ phase \in {"charge", "run", "resave", "trace"} /\ NeedsSnapshot(Node) =>
             current \in DOMAIN snapshots /\ snapshots[current] = context
    BY <1>3 DEF SessionInv, Resolved
  <1>5. \A i \in DOMAIN traces' : traces'[i].ctx_snapshot_key \in DOMAIN snapshots' \cup {NoPath}
    <2>1. CASE OpensRecord
      <3>1. traces \in Seq(Range(traces)) /\ traces' = Append(traces, TE!Record(current))
        BY <2>1, SeqOfRange DEF OpensRecord, SessionInv, SessionTypeOK
      <3>2. \A i \in DOMAIN traces' : \/ i \in DOMAIN traces /\ traces'[i] = traces[i]
                                      \/ traces'[i].ctx_snapshot_key = NoPath
        BY <3>1 DEF TE!Record
      <3> QED
        BY <1>2, <1>4, <3>2
    <2>2. CASE ClosesRecord
      <3>1. SnapshotKey(Node) \in DOMAIN snapshots \cup {NoPath}
        BY <1>1, <1>4, <2>2 DEF ClosesRecord, SnapshotKey
      <3>2. Len(traces) \in DOMAIN traces
        BY <2>2, Positions DEF ClosesRecord, Open
      <3>3. \A i \in DOMAIN traces' : \/ i \in DOMAIN traces /\ traces'[i] = traces[i]
                                      \/ traces'[i].ctx_snapshot_key = SnapshotKey(Node)
        BY <2>2, <3>2 DEF ClosesRecord
      <3> QED
        BY <1>2, <1>4, <3>1, <3>3
    <2> QED
      BY <1>2, <1>4, <2>1, <2>2, TraceStep DEF KeepsRecords
  <1>6. ASSUME phase' \in {"charge", "run", "resave", "trace"}, NeedsSnapshot(Node)
        PROVE  current \in DOMAIN snapshots' /\ snapshots'[current] = context
    <2>1. CASE phase = "enter"
      <3>1. ~EnforceSnapshotBudget
        BY <2>1 DEF EnforceSnapshotBudget, CE!EvictOldest, CE!RecheckSave, CE!InSave,
                    SessionInv, SavePending
      <3>2. SnapshotBefore(Node)
        BY <2>1, <3>1 DEF SessionStep, ExecuteNode, RefuseLlmCall, RefuseDepth, RefuseNode,
                          AdmitNode, RunNode, SnapshotAfter, EndTrace
      <3>3. CE!Fits(context)
        <4>1. /\ ~(Cardinality(DOMAIN snapshots) >= max_snapshots)
              /\ ~(current_total_size_kb + ContextKb[context] > max_snapshot_size_kb)
          BY <1>3 DEF StoreRefuses
        <4>2. /\ Cardinality(DOMAIN snapshots) \in Nat /\ current_total_size_kb \in Nat
              /\ max_snapshots \in Nat /\ max_snapshot_size_kb \in Nat
              /\ ContextKb[context] \in Nat
          BY StoreSizes DEF SessionInv
        <4>3. CE!Cardinality(DOMAIN snapshots) = Cardinality(DOMAIN snapshots)
          BY SameCounting
        <4> QED
          BY <4>1, <4>2, <4>3 DEF CE!Fits
      <3>4. CE!Store(current, context)
        BY <1>1, <1>6, <3>2, <3>3 DEF SnapshotBefore, SaveIfNeeded, CE!SaveSnapshot
      <3> QED
        BY <3>4 DEF CE!Store
    <2>2. CASE phase # "enter"
      BY <1>1, <1>2, <1>4, <1>6, <2>2 DEF Serving
    <2> QED
      BY <2>1, <2>2
  <1> QED
    BY <1>5, <1>6

-----------------------------------------------------------------------------

LEMMA SessionStepInv == IInv /\ SessionInv /\ SessionStep => SessionInv'
  BY SessionTypes, SessionSaves, SessionAccounts, SessionSpends, SessionResolves DEF SessionInv

\* The scheduler's own steps keep the account true: the one that marks a node
\* as executed follows the one that closed its record.
LEMMA OutsideInv == IInv /\ SessionInv /\ Next /\ ~SessionStep => SessionInv'
  <1> SUFFICES ASSUME IInv, SessionInv, Next, ~SessionStep PROVE SessionInv'
    OBVIOUS
  <1> USE DEF sessionVars, storeVars, counters
  <1>1. /\ UNCHANGED <<wf, sessionVars>>
        /\ phase \notin {"charge", "run", "resave", "trace"}
        /\ phase' \notin {"charge", "run", "resave", "trace", "result"}
        /\ context \subseteq context'
        /\ DOMAIN node_map \subseteq DOMAIN node_map'
        /\ node_map' = node_map \/ phase = "register"
        /\ phase' = "register" => phase = "register"
        /\ executed' = executed \cup
                         (IF phase = "result" /\ outcome = "ok" THEN {current} ELSE {})
    BY OutsideStep
  <1>2. SessionTypeOK' /\ StoreInv'
    <2>1. CE!TypeOK'
      BY <1>1 DEF SessionInv, SessionTypeOK, CE!TypeOK
    <2>2. CEP!IInv' /\ ~CEP!InLimits'
      BY <1>1 DEF SessionInv, StoreInv, CEP!IInv, CEP!TypeOK, CEP!Finite, CEP!StoredIsListed,
         CEP!Listed, CEP!TotalCoversStored, CEP!StoredKb, CEP!NothingToEvict, CEP!Evicting,
         CEP!OverLimits, CEP!InLimits
    <2> QED
      BY <1>1, <2>1, <2>2 DEF SessionInv, SessionTypeOK, StoreInv
  <1>3. SavePending' /\ Answered'
    BY <1>1 DEF SessionInv, SavePending, Answered
  <1>4. Accounted'
    <2>1. ~Open /\ ~Open' /\ Succeeded' = Succeeded
      BY <1>1 DEF Open, Succeeded
    <2>2. /\ phase = "register" => traces = << >>
          /\ \A i \in DOMAIN traces : traces[i].node_path \in DOMAIN node_map
          /\ \A i \in DOMAIN traces : traces[i].status # "running"
          /\ {traces[i].node_path : i \in Succeeded} = executed'
          /\ \A i, j \in Succeeded : traces[i].node_path = traces[j].node_path => i = j
      BY <1>1, <2>1 DEF SessionInv, Accounted
    <2> QED
      BY <1>1, <2>1, <2>2 DEF Accounted
  <1>5. Spent'
    <2>1. ModelCalls' = ModelCalls
      <3>1. CASE node_map' = node_map
        BY <1>1, <3>1 DEF ModelCalls, NodeAt
      <3>2. CASE phase = "register"
        <4>1. traces = << >> /\ traces' = << >>
          BY <1>1, <3>2 DEF SessionInv, Accounted
        <4>2. DOMAIN traces = {} /\ DOMAIN traces' = {}
          BY <4>1
        <4> QED
          BY <4>2 DEF ModelCalls
      <3> QED
        BY <1>1, <3>1, <3>2
    <2> QED
      BY <1>1, <2>1 DEF SessionInv, Spent
  <1>6. Resolved'
    <2>1. StoreRefuses => StoreRefuses'
      <3>1. current_total_size_kb' >= current_total_size_kb
        BY <1>1, StoreSizes DEF SessionInv
      <3> QED
        BY <1>1, <1>2, <3>1, RefusesOn
    <2> QED
      BY <1>1, <2>1 DEF SessionInv, Resolved
  <1> QED
    BY <1>2, <1>3, <1>4, <1>5, <1>6 DEF SessionInv

LEMMA SessionStutter == SessionInv /\ UNCHANGED vars => SessionInv'
  <1> SUFFICES ASSUME SessionInv, UNCHANGED vars PROVE SessionInv'
    OBVIOUS
  <1>1. /\ UNCHANGED <<wf, phase, context, outcome, nodes_used, llm_calls_used,
                       subgraph_depth_used, traces, node_map, current, executed>>
        /\ UNCHANGED <<snapshots, snapshot_order, current_total_size_kb,
                       max_snapshots, max_snapshot_size_kb, call>>
    BY DEF vars, sessionVars, storeVars, counters, schedVars
  <1>2. SessionTypeOK'
    BY <1>1 DEF SessionInv, SessionTypeOK, CE!TypeOK
  <1>3. StoreInv'
    BY <1>1 DEF SessionInv, StoreInv, CEP!IInv, CEP!TypeOK, CEP!Finite, CEP!StoredIsListed,
       CEP!Listed, CEP!TotalCoversStored, CEP!StoredKb, CEP!NothingToEvict, CEP!Evicting,
       CEP!OverLimits, CEP!InLimits
  <1>4. SavePending' /\ Answered'
    BY <1>1 DEF SessionInv, SavePending, Answered, Node
  <1>5. Accounted'
    BY <1>1 DEF SessionInv, Accounted, Open, Succeeded
  <1>6. Spent'
    BY <1>1 DEF SessionInv, Spent, ModelCalls, NodeAt
  <1>7. Resolved'
    BY <1>1 DEF SessionInv, Resolved, StoreRefuses, Node
  <1> QED
    BY <1>2, <1>3, <1>4, <1>5, <1>6, <1>7 DEF SessionInv

LEMMA NextSessionInv == IInv /\ SessionInv /\ [Next]_vars => SessionInv'
  BY SessionStepInv, OutsideInv, SessionStutter

\* A session that has served no node, whatever context the run is given.
Unserved == /\ IsWorkflow(wf) /\ SessionInit
            /\ phase \in {"register", "done"} /\ executed = {}

LEMMA UnservedSessionInv == Unserved => SessionInv
  <1> SUFFICES ASSUME Unserved PROVE SessionInv
    OBVIOUS
  <1> USE DEF Unserved
  <1>1. /\ outcome = "none" /\ nodes_used = 0 /\ llm_calls_used = 0 /\ subgraph_depth_used = 0
        /\ traces = << >> /\ DOMAIN traces = {} /\ phase \in {"register", "done"} /\ executed = {}
    BY DEF SessionInit
  <1>2. /\ DOMAIN snapshots = {} /\ snapshots \in [{} -> SUBSET Path] /\ snapshot_order = << >>
        /\ current_total_size_kb = 0 /\ call = CE!Idle
        /\ max_snapshots \in Nat /\ max_snapshot_size_kb \in Nat
    <2>1. wf.budget \in Budget
      BY DEF IsWorkflow, WorkflowRecord
    <2> QED
      BY <2>1 DEF SessionInit, CE!EmptyStore, Budget
  <1>3. StoreInv
    <2>1. CEP!TypeOK
      <3>1. snapshot_order \in Seq(Path)
        BY <1>2, EmptySeq
      <3>2. \E D \in SUBSET Path : snapshots \in [D -> SUBSET Path]
        BY <1>2
      <3> QED
        BY <1>2, <3>1, <3>2 DEF CEP!TypeOK, CEP!Idle, CE!Idle
    <2>2. CEP!StoredKb = {}
      BY <1>2 DEF CEP!StoredKb
    <2>3. CEP!Finite /\ CEP!TotalCoversStored
      <3>1. CEP!IsFiniteSet({}) /\ CEP!Cardinality({}) = 0
        BY SameCounting, FS_EmptySet
      <3> QED
        BY <1>2, <2>2, <3>1 DEF CEP!Finite, CEP!TotalCoversStored
    <2>4. CEP!StoredIsListed /\ CEP!NothingToEvict /\ ~CEP!InLimits
      BY <1>2 DEF CEP!StoredIsListed, CEP!NothingToEvict, CEP!Evicting, CEP!InLimits,
                  CEP!Idle, CE!Idle
    <2> QED
      BY <2>1, <2>3, <2>4 DEF StoreInv, CEP!IInv
  <1>4. SessionTypeOK
    <2>1. CE!TypeOK
      BY <1>3 DEF StoreInv, CEP!IInv, CEP!TypeOK, CE!TypeOK, CEP!Idle, CE!Idle
    <2> QED
      BY <1>1, <2>1, EmptySeq DEF SessionTypeOK
  <1>5. SavePending /\ Answered
    BY <1>1, <1>2 DEF SavePending, Answered
  <1>6. Accounted
    BY <1>1 DEF Accounted, Open, Succeeded
  <1>7. Spent
    <2>1. ModelCalls = {} /\ Len(traces) = 0
      BY <1>1 DEF ModelCalls
    <2>2. wf.budget.max_nodes \in Int /\ wf.budget.max_llm_calls \in Int
      BY DEF IsWorkflow, WorkflowRecord, Budget
    <2> QED
      BY <1>1, <2>1, <2>2, FS_EmptySet DEF Spent
  <1>8. Resolved
    BY <1>1 DEF Resolved
  <1> QED
    BY <1>3, <1>4, <1>5, <1>6, <1>7, <1>8 DEF SessionInv

LEMMA SessionInvariance == Spec => [](IInv /\ SessionInv)
  <1>1. Init => IInv /\ SessionInv
    BY InitIInv, UnservedSessionInv, WorkflowAssumption DEF Init, Unserved
  <1>2. IInv /\ SessionInv /\ [Next]_vars => (IInv /\ SessionInv)'
    BY NextIInv, NextSessionInv
  <1> QED
    BY <1>1, <1>2, PTL DEF Spec

\* Every variable of a run keeps its type, the estimate of its store's size
\* included: no eviction ever takes it below zero.
THEOREM RunTyping == Spec => []TypeOK
  <1>1. IInv /\ SessionInv => TypeOK
    BY DEF IInv, SessionInv, TypeOK
  <1> QED
    BY SessionInvariance, <1>1, PTL

LEMMA AccountIsAudit == IInv /\ SessionInv => AuditTrail
  <1> SUFFICES ASSUME IInv, SessionInv PROVE AuditTrail
    OBVIOUS
  <1>1. \A i \in DOMAIN traces : traces[i].status = "running" => Open /\ i = Len(traces)
    BY DEF SessionInv, Accounted
  <1>2. phase # "result" => {traces[i].node_path : i \in Succeeded} = executed
    BY DEF SessionInv, Accounted
  <1>3. \A i, j \in Succeeded : traces[i].node_path = traces[j].node_path => i = j
    BY DEF SessionInv, Accounted
  <1> QED
    BY <1>1, <1>2, <1>3 DEF AuditTrail, Open

\* The traces are a complete account of every run of every workflow: the nodes
\* with a successful record are those executed, none twice, and only the last
\* record may be open.
THEOREM TracesAudit == Spec => []AuditTrail
  BY SessionInvariance, AccountIsAudit, PTL

\* A budget bounds the nodes that are started and the model calls that are
\* made, whatever fails, is retried or is refused.
THEOREM BudgetsBound == Spec => []BudgetBoundsWork
  <1>1. IInv /\ SessionInv => BudgetBoundsWork
    <2> SUFFICES ASSUME IInv, SessionInv, wf.budget.engaged
                 PROVE  /\ nodes_used = Len(traces)
                        /\ wf.budget.max_nodes >= 0 => Len(traces) <= wf.budget.max_nodes
                        /\ wf.budget.max_llm_calls >= 0 =>
                             Cardinality(ModelCalls) <= wf.budget.max_llm_calls
      BY DEF BudgetBoundsWork, ModelCalls
    <2>1. /\ Cardinality(ModelCalls) \in Nat /\ llm_calls_used \in Nat
          /\ wf.budget.max_llm_calls \in Int
      BY CallsFinite DEF SessionInv, SessionTypeOK, IInv, SchedulerTypeOK, IsWorkflow,
                         WorkflowRecord, Budget
    <2> QED
      BY <2>1 DEF SessionInv, Spent
  <1> QED
    BY SessionInvariance, <1>1, PTL

\* As long as the store has room, every snapshot key in the traces can be
\* followed, and a node's snapshot is of the context it was given.
THEOREM KeysResolve == Spec => []SnapshotKeysResolve
  <1>1. IInv /\ SessionInv => SnapshotKeysResolve
    BY DEF SessionInv, Resolved, SnapshotKeysResolve, NodeAt, Node
  <1> QED
    BY SessionInvariance, <1>1, PTL

-----------------------------------------------------------------------------

\* A session saves the context of a node that has not executed.
LEMMA NextPreState == IInv /\ SessionInv /\ PreState /\ [Next]_vars => PreState'
  <1> SUFFICES ASSUME IInv, SessionInv, PreState, [Next]_vars PROVE PreState'
    OBVIOUS
  <1>1. CASE SessionStep
    <2>1. UNCHANGED <<context, executed>> /\ current \notin executed
      BY <1>1, SessionAnswers, Served DEF schedVars, SessionStep, InSession, Serving
    <2>2. current \notin context
      BY <2>1 DEF PreState
    <2>3. ASSUME NEW k \in DOMAIN snapshots'
          PROVE  k \notin snapshots'[k] /\ snapshots'[k] \subseteq context
      <3>1. \/ k \in DOMAIN snapshots /\ snapshots'[k] = snapshots[k]
            \/ k = current /\ snapshots'[k] = context
        BY <1>1, <2>3, StoreGrows
      <3> QED
        BY <2>2, <3>1 DEF PreState, SnapshotIsPreState
    <2> QED
      BY <2>1, <2>3 DEF PreState, SnapshotIsPreState
  <1>2. CASE Next /\ ~SessionStep
    <2>1. /\ snapshots' = snapshots /\ context \subseteq context'
      BY <1>2, OutsideStep DEF sessionVars, storeVars
    <2>2. context' \subseteq executed'
      <3>1. CASE MarkExecuted
        BY <3>1 DEF MarkExecuted, PreState
      <3>2. CASE ~MarkExecuted
        <4>1. context' = context /\ executed \subseteq executed'
          BY <1>2, <3>2, OutsideStep
             DEF Next, RegisterNode, RejectDag, BuildDag, ScanNode, StartAtEntry, PickNode,
                 QueueEmpty, SkipExecuted, NodeNotFound, WaitUnmet, WaitUnresolved, CallSession,
                 Jump, NodeFails, Pause, TerminateFlow, BeginRelease, ReleaseSuccessor,
                 EndRelease, DurationExceeded, ReportUnexecuted, Complete, Finished, vars
        <4> QED
          BY <4>1 DEF PreState
      <3> QED
        BY <3>1, <3>2
    <2> QED
      BY <2>1, <2>2 DEF PreState, SnapshotIsPreState
  <1>3. CASE UNCHANGED vars
    BY <1>3 DEF vars, sessionVars, storeVars, schedVars, PreState, SnapshotIsPreState
  <1> QED
    BY <1>1, <1>2, <1>3

\* No snapshot ever holds the output of the node it was taken for, nor of one
\* that the context lacks, although a node's snapshot is saved once more after
\* it has run.
THEOREM SnapshotsArePreStates == Spec => []SnapshotIsPreState
  <1>1. Init => PreState
    BY DEF Init, SessionInit, CE!EmptyStore, PreState, SnapshotIsPreState
  <1>2. PreState => SnapshotIsPreState
    BY DEF PreState
  <1> QED
    BY SessionInvariance, NextPreState, <1>1, <1>2, PTL DEF Spec
================================================================================
