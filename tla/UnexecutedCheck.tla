--------------------------- MODULE UnexecutedCheck ---------------------------
(***************************************************************************)
(* The last thing TopoScheduler::execute does: std::set_difference of the  *)
(* workflow's paths and the executed ones.  set_difference walks two       *)
(* sorted ranges like a merge; here the ranges are those of unordered sets *)
(* and come in an order that their buckets and the order of insertion      *)
(* (registration for one, execution for the other) give.  A step is a turn *)
(* of the walk, the last one the verdict that execute returns.  Paths are  *)
(* compared as strings: here they are numbers.                             *)
(***************************************************************************)
EXTENDS Integers, Sequences, FiniteSets

CONSTANTS Paths,      \* node paths, as numbers in the order of the strings
          Listings    \* the orders in which a set of paths may be iterated

Elements(s) == {s[k] : k \in DOMAIN s}

\* A set's iteration meets no element twice.
ASSUME ListingAssumption ==
  /\ Paths \subseteq Int
  /\ Listings \subseteq Seq(Paths)
  /\ \A s \in Listings : \A k, l \in DOMAIN s : s[k] = s[l] => k = l

VARIABLES all_node_paths,   \* the iteration of all_node_paths
          executed,         \* the iteration of executed_
          i, j,             \* the positions the walk has come to
          unexecuted,       \* what it has reported
          verdict           \* "running", or what execute returned

vars == <<all_node_paths, executed, i, j, unexecuted, verdict>>

Init == /\ all_node_paths \in Listings
        /\ executed \in Listings
        /\ i = 1 /\ j = 1
        /\ unexecuted = {}
        /\ verdict = "running"

More(s, k) == k <= Len(s)

\* A path smaller than the executed one it meets, and what is left over when
\* the executed ones have run out, counts as unexecuted.
Report == /\ More(all_node_paths, i)
          /\ More(executed, j) => all_node_paths[i] < executed[j]
          /\ unexecuted' = unexecuted \cup {all_node_paths[i]}
          /\ i' = i + 1
          /\ UNCHANGED <<all_node_paths, executed, j, verdict>>

BugSkipExecuted == /\ More(all_node_paths, i) /\ More(executed, j)
                   /\ executed[j] < all_node_paths[i]
                   /\ i' = i + 1 /\ j' = j + 1
                   /\ UNCHANGED <<all_node_paths, executed, unexecuted, verdict>>

SkipExecuted == /\ More(all_node_paths, i) /\ More(executed, j)
                /\ executed[j] < all_node_paths[i]
                /\ j' = j + 1
                /\ UNCHANGED <<all_node_paths, executed, i, unexecuted, verdict>>

BugMatch == /\ More(all_node_paths, i) /\ More(executed, j)
            /\ all_node_paths[i] = executed[j]
            /\ j' = j + 1
            /\ UNCHANGED <<all_node_paths, executed, i, unexecuted, verdict>>

Match == /\ More(all_node_paths, i) /\ More(executed, j)
         /\ all_node_paths[i] = executed[j]
         /\ i' = i + 1 /\ j' = j + 1
         /\ UNCHANGED <<all_node_paths, executed, unexecuted, verdict>>

Concluded == ~More(all_node_paths, i)

BugReturn == /\ Concluded /\ verdict = "running"
             /\ verdict' = "completed"
             /\ UNCHANGED <<all_node_paths, executed, i, j, unexecuted>>

Return == /\ Concluded /\ verdict = "running"
          /\ verdict' = IF unexecuted = {} THEN "completed" ELSE "unexecuted nodes"
          /\ UNCHANGED <<all_node_paths, executed, i, j, unexecuted>>

Returned == verdict # "running" /\ UNCHANGED vars

Next == Report \/ SkipExecuted \/ Match \/ Return \/ Returned

Spec == Init /\ [][Next]_vars

-----------------------------------------------------------------------------

Missing == Elements(all_node_paths) \ Elements(executed)

\* Whatever the orders, a node that has not run does not go unnoticed: the
\* walk reports it, or has not come to it yet.
NoneMissed == /\ unexecuted \subseteq Elements(all_node_paths)
              /\ \A k \in 1..(i - 1) : all_node_paths[k] \in Missing => all_node_paths[k] \in unexecuted

Ascending(s) == \A k, l \in DOMAIN s : k < l => s[k] < s[l]

\* A run that executed everything passes as long as the walk can't be misled:
\* a single node has run, or both iterations happen to be sorted, and then
\* the report is exact.
ExactWhenSorted ==
  /\ Len(executed) <= 1 /\ Missing = {} => unexecuted = {}
  /\ Ascending(all_node_paths) /\ Ascending(executed) => unexecuted \subseteq Missing

FC == INSTANCE FinalCheck WITH nodes <- Elements(all_node_paths), executed <- Elements(executed)

\* Seen from outside, the walk is one step that reports every run which left
\* out a node, and passes or wrongly reports one that did not: all that the
\* scheduler's last actions suppose of it.
ImplementsFinalCheck == FC!Spec

\* test_scheduler.cpp, cross-graph edges: a run that has executed exactly the
\* workflow's nodes completes, in whatever order the sets list them.
CompleteRunsPass ==
  Concluded /\ Elements(all_node_paths) = Elements(executed) => unexecuted = {}
==============================================================================
