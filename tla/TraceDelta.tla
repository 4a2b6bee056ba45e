------------------------------ MODULE TraceDelta ------------------------------
(***************************************************************************)
(* TraceExporter::calculate_context_delta: what a node changed of the      *)
(* context.  A context is a function from its keys to values.              *)
(***************************************************************************)
CONSTANT Null         \* the JSON null that stands for a deleted key

Changed(initial, final) ==
  {k \in DOMAIN final : k \in DOMAIN initial => initial[k] # final[k]}

Deleted(initial, final) == DOMAIN initial \ DOMAIN final

BugDelta(initial, final) == [k \in DOMAIN final \ DOMAIN initial |-> final[k]]

Delta(initial, final) ==
  [k \in Changed(initial, final) \cup Deleted(initial, final) |->
     IF k \in DOMAIN final THEN final[k] ELSE Null]

-----------------------------------------------------------------------------

\* How a reader of a trace applies a delta (a merge patch).
Removed(delta) == {k \in DOMAIN delta : delta[k] = Null}
Patch(context, delta) ==
  [k \in (DOMAIN context \cup DOMAIN delta) \ Removed(delta) |->
     IF k \in DOMAIN delta THEN delta[k] ELSE context[k]]

\* A delta cannot tell a key that is null from one that is not there.
WithoutNulls(context) == [k \in {j \in DOMAIN context : context[j] # Null} |-> context[k]]
==============================================================================
