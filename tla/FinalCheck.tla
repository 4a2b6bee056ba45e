------------------------------ MODULE FinalCheck ------------------------------
(***************************************************************************)
(* What can be trusted of the last test of TopoScheduler::execute, in one  *)
(* step: a run that has left out a node is always reported, and a run that *)
(* has not may be reported too, but only when more than one node has been  *)
(* executed.                                                               *)
(***************************************************************************)
VARIABLES nodes,      \* the paths of the workflow, without the system's
          executed,   \* the paths that have been executed
          verdict

vars == <<nodes, executed, verdict>>

Init == verdict = "running"

MayPass == nodes \subseteq executed

MayReport == \/ ~MayPass
             \/ nodes # {} /\ \E p, q \in executed : p # q

Report == /\ verdict = "running"
          /\ MayReport
          /\ verdict' = "unexecuted nodes"
          /\ UNCHANGED <<nodes, executed>>

Pass == /\ verdict = "running"
        /\ MayPass
        /\ verdict' = "completed"
        /\ UNCHANGED <<nodes, executed>>

Next == Report \/ Pass

Spec == Init /\ [][Next]_vars
==============================================================================
