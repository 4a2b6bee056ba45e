---------------------------- MODULE TraceExporter ----------------------------
(***************************************************************************)
(* The trace records of a run: one is opened when a node starts and closed *)
(* when it ends.  Times, deltas and budget texts are left out.             *)
(***************************************************************************)
EXTENDS Integers, Sequences

CONSTANT NoKey        \* a record without a snapshot key

VARIABLE traces       \* traces_

Record(path) == [node_path |-> path, status |-> "running", ctx_snapshot_key |-> NoKey]

OnNodeStart(path) == traces' = Append(traces, Record(path))

\* The records on_node_end may close; it takes the last one.
Running(path) == {i \in DOMAIN traces : /\ traces[i].node_path = path
                                        /\ traces[i].status = "running"}

LastRunning(path) == CHOOSE i \in Running(path) : \A j \in Running(path) : j <= i

OnNodeEnd(path, status, key) ==
  traces' = IF Running(path) = {} THEN traces
            ELSE [traces EXCEPT ![LastRunning(path)].status = status,
                                ![LastRunning(path)].ctx_snapshot_key = key]
==============================================================================
