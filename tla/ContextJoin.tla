----------------------------- MODULE ContextJoin -----------------------------
(***************************************************************************)
(* The loop of finish_join_simulation with each branch merged at once, by  *)
(* an operator that says what a merge leaves and whether it threw.         *)
(***************************************************************************)
EXTENDS Integers, Sequences

CONSTANTS Policies, Contexts, Branches, MaxBranches,
          Merge(_, _, _)

VARIABLES policy, base, results, main_context, merged, status

vars == <<policy, base, results, main_context, merged, status>>

Init == /\ policy \in Policies /\ base \in Contexts
        /\ results \in UNION {[1..n -> Branches] : n \in 0..MaxBranches}
        /\ main_context = base
        /\ merged = 0
        /\ status = "joining"

MergeBranch ==
  /\ status = "joining" /\ merged < Len(results)
  /\ merged' = merged + 1
  /\ LET r == Merge(main_context, results[merged + 1], policy)
     IN main_context' = r.value /\ status' = IF r.ok THEN "joining" ELSE "threw"
  /\ UNCHANGED <<policy, base, results>>

AllMerged ==
  /\ status = "joining" /\ merged = Len(results)
  /\ status' = "merged"
  /\ UNCHANGED <<policy, base, results, main_context, merged>>

Next == MergeBranch \/ AllMerged

Spec == Init /\ [][Next]_vars
==============================================================================
