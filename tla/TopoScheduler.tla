---------------------------- MODULE TopoScheduler ----------------------------
(***************************************************************************)
(* One run of DSLEngine: the registration of the nodes, build_dag, and the *)
(* loop of TopoScheduler::execute with the session it calls.  phase is the *)
(* statement the single thread of the run has come to.  Fork and join      *)
(* nodes always throw in the executor and no graph is ever appended, so    *)
(* the loop's branches for simulated forks and for rebuilding the graph    *)
(* are not reached.                                                        *)
(***************************************************************************)
EXTENDS ExecutionSession

VARIABLES cursor,       \* position of the loop under way
          node_map,     \* node_map_: the last index registered for a path
          in_degree,    \* in_degree_
          ready_queue,  \* ready_queue_
          current,      \* current_path
          executed,     \* executed_
          result        \* "running", or what run() returned or threw

schedVars == <<cursor, node_map, in_degree, ready_queue, current, executed, result>>
vars == <<wf, phase, context, sessionVars, schedVars>>

Node == AllNodes(wf)[node_map[current]]

Init == /\ wf \in Workflows
        /\ phase = "register"
        /\ context = {}
        /\ SessionInit
        /\ cursor = 1
        /\ node_map = [p \in {} |-> 0]
        /\ in_degree = [p \in {} |-> 0]
        /\ ready_queue = << >>
        /\ current = NoPath
        /\ executed = {}
        /\ result = "running"

Return(r) == phase' = "done" /\ result' = r

-----------------------------------------------------------------------------

RegisterNode ==
  /\ phase = "register"
  /\ cursor <= Len(AllNodes(wf))
  /\ LET p == AllNodes(wf)[cursor].path IN
       node_map' = [q \in DOMAIN node_map \cup {p} |-> IF q = p THEN cursor ELSE node_map[q]]
  /\ cursor' = cursor + 1
  /\ UNCHANGED <<wf, phase, context, sessionVars, in_degree, ready_queue, current, executed, result>>

\* build_dag throws on an edge that names no registered node.
RejectDag ==
  /\ phase = "register"
  /\ cursor > Len(AllNodes(wf))
  /\ ~WellFormed(wf)
  /\ Return("threw")
  /\ UNCHANGED <<wf, context, sessionVars, cursor, node_map, in_degree, ready_queue, current, executed>>

BugBuildDag ==
  /\ phase = "register"
  /\ cursor > Len(AllNodes(wf))
  /\ WellFormed(wf)
  /\ in_degree' = [p \in DOMAIN node_map |->
                     Cardinality({Source(wf, e) : e \in EdgesInto(wf, p)})
                       + Cardinality(WaitsOf(wf, p))]
  /\ phase' = "scan" /\ cursor' = 1
  /\ UNCHANGED <<wf, context, sessionVars, node_map, ready_queue, current, executed, result>>

BuildDag ==
  /\ phase = "register"
  /\ cursor > Len(AllNodes(wf))
  /\ WellFormed(wf)
  /\ in_degree' = [p \in DOMAIN node_map |->
                     Cardinality(EdgesInto(wf, p)) + Cardinality(WaitsOf(wf, p))]
  /\ phase' = "scan" /\ cursor' = 1
  /\ UNCHANGED <<wf, context, sessionVars, node_map, ready_queue, current, executed, result>>

\* The last loop of build_dag, one node a step.
ScanNode ==
  /\ phase = "scan"
  /\ cursor <= Len(AllNodes(wf))
  /\ LET p == AllNodes(wf)[cursor].path IN
       ready_queue' = IF in_degree[p] = 0 THEN Append(ready_queue, p) ELSE ready_queue
  /\ cursor' = cursor + 1
  /\ UNCHANGED <<wf, phase, context, sessionVars, node_map, in_degree, current, executed, result>>

\* The entry point, if there is one, replaces the queue.
StartAtEntry ==
  /\ phase = "scan"
  /\ cursor > Len(AllNodes(wf))
  /\ CASE wf.entry = NoPath ->
            phase' = "loop" /\ UNCHANGED <<ready_queue, result>>
       [] wf.entry # NoPath /\ wf.entry \in DOMAIN node_map ->
            phase' = "loop" /\ ready_queue' = <<wf.entry>> /\ UNCHANGED result
       [] OTHER ->
            Return("entry not found") /\ ready_queue' = << >>
  /\ UNCHANGED <<wf, context, sessionVars, cursor, node_map, in_degree, current, executed>>

-----------------------------------------------------------------------------

PickNode ==
  /\ phase = "loop"
  /\ ready_queue # << >>
  /\ current' = Head(ready_queue)
  /\ ready_queue' = Tail(ready_queue)
  /\ phase' = "gate"
  /\ UNCHANGED <<wf, context, sessionVars, cursor, node_map, in_degree, executed, result>>

QueueEmpty ==
  /\ phase = "loop"
  /\ ready_queue = << >>
  /\ phase' = "check"
  /\ UNCHANGED <<wf, context, sessionVars, schedVars>>

SkipExecuted ==
  /\ phase = "gate"
  /\ current \in executed
  /\ phase' = "loop"
  /\ UNCHANGED <<wf, context, sessionVars, schedVars>>

NodeNotFound ==
  /\ phase = "gate"
  /\ current \notin executed
  /\ current \notin DOMAIN node_map
  /\ Return("node not found")
  /\ UNCHANGED <<wf, context, sessionVars, cursor, node_map, in_degree, ready_queue, current, executed>>

Reached == phase = "gate" /\ current \notin executed /\ current \in DOMAIN node_map

BugWaitUnmet ==
  /\ Reached
  /\ \E deps \in Node.renders : ~(deps \subseteq executed)
  /\ ready_queue' = <<current>> \o ready_queue
  /\ phase' = "loop"
  /\ UNCHANGED <<wf, context, sessionVars, cursor, node_map, in_degree, current, executed, result>>

\* A dynamic wait_for that is not met puts the node back at the end.
WaitUnmet ==
  /\ Reached
  /\ \E deps \in Node.renders : ~(deps \subseteq executed)
  /\ ready_queue' = Append(ready_queue, current)
  /\ phase' = "loop"
  /\ UNCHANGED <<wf, context, sessionVars, cursor, node_map, in_degree, current, executed, result>>

\* Its template may not render, or not to JSON.
WaitUnresolved ==
  /\ Reached
  /\ Node.renders # {}
  /\ Return("wait_for failed")
  /\ UNCHANGED <<wf, context, sessionVars, cursor, node_map, in_degree, ready_queue, current, executed>>

BugCallSession ==
  /\ phase = "gate" /\ current \in DOMAIN node_map
  /\ Node.renders = {} \/ \E deps \in Node.renders : deps \subseteq executed
  /\ phase' = "enter"
  /\ UNCHANGED <<wf, context, sessionVars, schedVars>>

CallSession ==
  /\ Reached
  /\ Node.renders = {} \/ \E deps \in Node.renders : deps \subseteq executed
  /\ phase' = "enter"
  /\ UNCHANGED <<wf, context, sessionVars, schedVars>>

InSession == phase \in {"enter", "charge", "run", "resave", "trace"}

SessionStep ==
  /\ InSession
  /\ ExecuteNode(Node)
  /\ UNCHANGED <<wf, context, schedVars>>

-----------------------------------------------------------------------------

\* A failure whose message names a target drops whatever was ready.
Jump ==
  /\ phase = "result" /\ outcome = "jump"
  /\ \E target \in JumpTargets(Node) : ready_queue' = <<target>>
  /\ phase' = "loop"
  /\ UNCHANGED <<wf, context, sessionVars, cursor, node_map, in_degree, current, executed, result>>

NodeFails ==
  /\ phase = "result"
  /\ outcome \in {"throw", "refused"}
  /\ Return(IF outcome = "refused" THEN "budget exceeded" ELSE "node failed")
  /\ UNCHANGED <<wf, context, sessionVars, cursor, node_map, in_degree, ready_queue, current, executed>>

MarkExecuted ==
  /\ phase = "result" /\ outcome = "ok"
  /\ executed' = executed \cup {current}
  /\ context' = IF Writes(Node) THEN context \cup {current} ELSE context
  /\ phase' = "executed"
  /\ UNCHANGED <<wf, sessionVars, cursor, node_map, in_degree, ready_queue, current, result>>

Pause ==
  /\ phase = "executed"
  /\ Node.type = "DSL_CALL"
  /\ Return("paused")
  /\ UNCHANGED <<wf, context, sessionVars, cursor, node_map, in_degree, ready_queue, current, executed>>

HardEnd == Node.type = "END" /\ Node.mode = "hard"

TerminateFlow ==
  /\ phase = "executed"
  /\ HardEnd
  /\ phase' = "check"
  /\ UNCHANGED <<wf, context, sessionVars, schedVars>>

BugBeginRelease ==
  /\ phase = "executed"
  /\ ~HardEnd
  /\ phase' = "release" /\ cursor' = 1
  /\ UNCHANGED <<wf, context, sessionVars, node_map, in_degree, ready_queue, current, executed, result>>

BeginRelease ==
  /\ phase = "executed"
  /\ Node.type # "DSL_CALL" /\ ~HardEnd
  /\ phase' = "release" /\ cursor' = 1
  /\ UNCHANGED <<wf, context, sessionVars, node_map, in_degree, ready_queue, current, executed, result>>

BugReleaseSuccessor ==
  /\ phase = "release"
  /\ cursor <= Len(Node.next)
  /\ LET p == Node.next[cursor] IN
       /\ in_degree' = [in_degree EXCEPT ![p] = @ - 1]
       /\ ready_queue' = IF in_degree[p] = 0 THEN Append(ready_queue, p) ELSE ready_queue
  /\ cursor' = cursor + 1
  /\ UNCHANGED <<wf, phase, context, sessionVars, node_map, current, executed, result>>

BugReleaseEarly ==
  /\ phase = "release"
  /\ cursor <= Len(Node.next)
  /\ LET p == Node.next[cursor] IN
       /\ in_degree' = [in_degree EXCEPT ![p] = @ - 1]
       /\ ready_queue' = IF in_degree[p] <= 2 THEN Append(ready_queue, p) ELSE ready_queue
  /\ cursor' = cursor + 1
  /\ UNCHANGED <<wf, phase, context, sessionVars, node_map, current, executed, result>>

ReleaseSuccessor ==
  /\ phase = "release"
  /\ cursor <= Len(Node.next)
  /\ LET p == Node.next[cursor] IN
       /\ in_degree' = [in_degree EXCEPT ![p] = @ - 1]
       /\ ready_queue' = IF in_degree[p] = 1 THEN Append(ready_queue, p) ELSE ready_queue
  /\ cursor' = cursor + 1
  /\ UNCHANGED <<wf, phase, context, sessionVars, node_map, current, executed, result>>

EndRelease ==
  /\ phase = "release"
  /\ cursor > Len(Node.next)
  /\ phase' = "loop"
  /\ UNCHANGED <<wf, context, sessionVars, schedVars>>

-----------------------------------------------------------------------------

\* BudgetController::exceeded: the counters cannot be beyond their limits,
\* the clock can.
DurationExceeded ==
  /\ phase = "check"
  /\ wf.budget.engaged /\ wf.budget.max_duration_sec >= 0
  /\ Return("out of time")
  /\ UNCHANGED <<wf, context, sessionVars, cursor, node_map, in_degree, ready_queue, current, executed>>

\* set_difference over two unordered ranges, as UnexecutedCheck implements it.
FC == INSTANCE FinalCheck WITH nodes <- UserNodes(wf), verdict <- result

ReportUnexecuted ==
  /\ phase = "check"
  /\ FC!MayReport
  /\ Return("unexecuted nodes")
  /\ UNCHANGED <<wf, context, sessionVars, cursor, node_map, in_degree, ready_queue, current, executed>>

BugComplete ==
  /\ phase = "check"
  /\ Return("completed")
  /\ UNCHANGED <<wf, context, sessionVars, cursor, node_map, in_degree, ready_queue, current, executed>>

Complete ==
  /\ phase = "check"
  /\ FC!MayPass
  /\ Return("completed")
  /\ UNCHANGED <<wf, context, sessionVars, cursor, node_map, in_degree, ready_queue, current, executed>>

Finished == phase = "done" /\ UNCHANGED vars

Next == \/ RegisterNode \/ RejectDag \/ BuildDag \/ ScanNode \/ StartAtEntry
        \/ PickNode \/ QueueEmpty \/ SkipExecuted \/ NodeNotFound
        \/ WaitUnmet \/ WaitUnresolved \/ CallSession \/ SessionStep
        \/ Jump \/ NodeFails \/ MarkExecuted \/ Pause \/ TerminateFlow
        \/ BeginRelease \/ ReleaseSuccessor \/ EndRelease
        \/ DurationExceeded \/ ReportUnexecuted \/ Complete \/ Finished

Spec == Init /\ [][Next]_vars

\* The run is one thread that is scheduled as long as it can run.
FairSpec == Spec /\ WF_vars(Next)
==============================================================================
