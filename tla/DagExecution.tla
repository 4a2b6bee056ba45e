----------------------------- MODULE DagExecution -----------------------------
(***************************************************************************)
(* What the scheduler promises of a run: nodes are executed once each, a   *)
(* node only after everything it depends on unless it is the entry or a    *)
(* jump target, nothing after the verdict, and the verdict "completed"     *)
(* only when every node of the workflow has been executed.                 *)
(***************************************************************************)
EXTENDS Workflow

VARIABLES wf, executed, verdict

Init == wf \in Workflows /\ executed = {} /\ verdict = "running"

DependenciesMet(p) == /\ WaitsOf(wf, p) = {}
                      /\ \A e \in EdgesInto(wf, p) : Source(wf, e) \in executed

Execute(p) == /\ verdict = "running"
              /\ WellFormed(wf)
              /\ p \notin executed
              /\ p \in Forced(wf) \/ DependenciesMet(p)
              /\ executed' = executed \cup {p}
              /\ UNCHANGED <<wf, verdict>>

Conclude(v) == /\ verdict = "running"
               /\ v = "completed" => UserNodes(wf) \subseteq executed
               /\ v = "paused" => executed # {}
               /\ verdict' = v
               /\ UNCHANGED <<wf, executed>>

Next == \/ \E p \in Registered(wf) : Execute(p)
        \/ \E v \in {"completed", "paused", "failed"} : Conclude(v)

Spec == Init /\ [][Next]_<<wf, executed, verdict>>
==============================================================================
