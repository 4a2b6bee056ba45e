----------------------------- MODULE ContextMerge -----------------------------
(***************************************************************************)
(* ContextEngine::merge, and the loop of a join that merges the contexts   *)
(* of its branches into the main one.  A step is a turn of the loop of     *)
(* merge_recursive, for one field of the branch.  The loops of the calls   *)
(* under way stand at the prefixes of the field's path, so left, the paths *)
(* that no turn has come to, is all there is to the recursion.             *)
(***************************************************************************)
EXTENDS JsonTree

CONSTANTS Policies,     \* the merge policies a join may have
          Contexts,     \* the main contexts a fork may start from
          Branches,     \* the contexts branches may end with
          MaxBranches

Strategy == {"error_on_conflict", "last_write_wins", "deep_merge",
             "array_concat", "array_merge_unique"}

\* exact: the policies of whole paths.  wild: those of patterns with a star at
\* the end, in the order the unordered_map is iterated.  A pattern is the path
\* of its whole keys and the keys that begin with what stands before the star:
\* all of them in "a.*", a and ab in "a*".
Pattern == [prefix : Path, keys : SUBSET Key, strategy : Strategy]
IsPolicy(p) ==
  /\ DOMAIN p = {"default", "exact", "wild"}
  /\ p.default \in Strategy
  /\ DOMAIN p.exact \subseteq Path \ {Root}
  /\ \A path \in DOMAIN p.exact : p.exact[path] \in Strategy
  /\ p.wild \in Seq(Pattern)

ASSUME MergeAssumption == /\ \A p \in Policies : IsPolicy(p)
                          /\ \A c \in Contexts \cup Branches : IsTree(c)
                          /\ MaxBranches \in Nat

VARIABLES policy, base,         \* what the join began with
          results,              \* current_fork_branch_results_
          main_context,
          merged,               \* how many branches merge has been called for
          status,               \* "joining", "walking", "merged" or "threw"
          left,                 \* the branch's paths still to come
          before                \* a history: main_context when the last merge began

vars == <<policy, base, results, main_context, merged, status, left, before>>
joinVars == <<policy, base, results>>

-----------------------------------------------------------------------------

\* The patterns that match a path, by their position.
Matching(path, p) ==
  {i \in DOMAIN p.wild : /\ Lists!IsStrictPrefix(p.wild[i].prefix, path)
                         /\ path[Len(p.wild[i].prefix) + 1] \in p.wild[i].keys}

BugStrategyFor(path, p) ==
  IF path \in DOMAIN p.exact THEN p.exact[path]
  ELSE IF 1 \in Matching(path, p) THEN p.wild[1].strategy
  ELSE p.default

\* get_merge_strategy_for_path: the exact path, the first pattern, the default.
StrategyFor(path, p) ==
  IF path \in DOMAIN p.exact THEN p.exact[path]
  ELSE IF Matching(path, p) # {}
       THEN p.wild[CHOOSE i \in Matching(path, p) : \A j \in Matching(path, p) : i <= j].strategy
  ELSE p.default

\* A merge of one value leaves a value and may throw.
Leave(v) == [ok |-> TRUE, value |-> v]
Throw(v) == [ok |-> FALSE, value |-> v]

Overwrites(strategy) == strategy \in {"deep_merge", "last_write_wins"}

BugObjectWins(target, source, strategy) ==
  IF Overwrites(strategy) \/ IsObject(source) THEN Leave(source)
  ELSE IF target # source THEN Throw(target)
  ELSE Leave(target)

BugMergeScalar(target, source, strategy) ==
  IF Overwrites(strategy) \/ target.kind = source.kind THEN Leave(source) ELSE Throw(target)

MergeScalar(target, source, strategy) ==
  IF Overwrites(strategy) THEN Leave(source)
  ELSE IF target # source THEN Throw(target)
  ELSE Leave(target)

AddUnique(items, x) ==
  IF \E i \in DOMAIN items : items[i] = x THEN items ELSE Append(items, x)

\* The loop of array_merge_unique.
MergeUnique(items, more) ==
  LET after[n \in 0..Len(more)] == IF n = 0 THEN items ELSE AddUnique(after[n-1], more[n])
  IN after[Len(more)]

BugMergeArray(target, source, strategy) ==
  CASE strategy \in {"array_concat", "array_merge_unique"} ->
         Leave(Array(target.items \o source.items))
    [] Overwrites(strategy) -> Leave(source)
    [] OTHER -> Throw(target)

MergeArray(target, source, strategy) ==
  CASE strategy = "array_concat" -> Leave(Array(target.items \o source.items))
    [] strategy = "array_merge_unique" -> Leave(Array(MergeUnique(target.items, source.items)))
    [] Overwrites(strategy) -> Leave(source)
    [] OTHER -> Throw(target)

\* The body of the loop for a field both have.  Scalars that are no conflict
\* have nothing below them, so it is enough to compare what is at the path.
MergeValue(target, source, strategy) ==
  IF IsObject(target) /\ IsObject(source) THEN Leave(target)
  ELSE IF IsArray(target) /\ IsArray(source) THEN MergeArray(target, source, strategy)
  ELSE MergeScalar(target, source, strategy)

-----------------------------------------------------------------------------

Init == /\ policy \in Policies /\ base \in Contexts
        /\ results \in UNION {[1..n -> Branches] : n \in 0..MaxBranches}
        /\ main_context = base
        /\ merged = 0
        /\ status = "joining"
        /\ left = {}
        /\ before = base

Source == results[merged]

TakeBranch(source) ==
  /\ status = "joining" /\ merged < Len(results)
  /\ source = results[merged + 1]
  /\ merged' = merged + 1
  /\ before' = main_context
  /\ UNCHANGED <<joinVars, main_context>>

\* merge returns at once if the branch is no object.
SkipBranch ==
  \E source \in Branches :
     /\ TakeBranch(source) /\ ~IsObject(source[Root])
     /\ UNCHANGED <<status, left>>

BeginBranch ==
  \E source \in Branches :
     /\ TakeBranch(source) /\ IsObject(source[Root])
     /\ status' = "walking"
     /\ left' = DOMAIN source

\* The walk has come to path p.  At the root this is the test of merge_recursive
\* whether it has two objects, whose policy is the default.
AtField(p) == /\ status = "walking"
              /\ p \in left
              /\ \A q \in left : q = p \/ Before(p, q)

Beyond(p) == {q \in left : ~Lists!IsPrefix(p, q)}

BugAddField ==
  \E p \in left :
     /\ AtField(p) /\ p \notin DOMAIN main_context
     /\ main_context' = Assign(main_context, p, Source[p], Source)
     /\ left' = left \ {p}
     /\ UNCHANGED <<joinVars, merged, status, before>>

AddField ==
  \E p \in left :
     /\ AtField(p) /\ p \notin DOMAIN main_context
     /\ main_context' = Assign(main_context, p, Source[p], Source)
     /\ left' = Beyond(p)
     /\ UNCHANGED <<joinVars, merged, status, before>>

BothObjects(p) == p \in DOMAIN main_context /\ IsObject(main_context[p]) /\ IsObject(Source[p])

BugMergeObjects ==
  \E p \in left :
     /\ AtField(p) /\ BothObjects(p)
     /\ left' = IF p = Root THEN left \ {p} ELSE Beyond(p)
     /\ UNCHANGED <<joinVars, main_context, merged, status, before>>

\* The recursive call: its loop runs over what is below p.
MergeObjects ==
  \E p \in left :
     /\ AtField(p) /\ BothObjects(p)
     /\ left' = left \ {p}
     /\ UNCHANGED <<joinVars, main_context, merged, status, before>>

MergeAt(p) == MergeValue(main_context[p], Source[p], StrategyFor(p, policy))

BugMergeField ==
  \E p \in left :
     /\ AtField(p) /\ p \in DOMAIN main_context /\ ~BothObjects(p)
     /\ MergeAt(p).ok
     /\ main_context' = [main_context EXCEPT ![p] = MergeAt(p).value]
     /\ left' = Beyond(p)
     /\ UNCHANGED <<joinVars, merged, status, before>>

MergeField ==
  \E p \in left :
     /\ AtField(p) /\ p \in DOMAIN main_context /\ ~BothObjects(p)
     /\ MergeAt(p).ok
     /\ main_context' = Assign(main_context, p, MergeAt(p).value, Source)
     /\ left' = Beyond(p)
     /\ UNCHANGED <<joinVars, merged, status, before>>

BugConflict ==
  \E p \in left :
     /\ AtField(p) /\ p \in DOMAIN main_context
     /\ ~MergeAt(p).ok
     /\ main_context' = base
     /\ status' = "threw"
     /\ left' = {}
     /\ UNCHANGED <<joinVars, merged, before>>

\* The exception leaves merge and the join, and what was merged stays.
Conflict ==
  \E p \in left :
     /\ AtField(p) /\ p \in DOMAIN main_context
     /\ ~MergeAt(p).ok
     /\ status' = "threw"
     /\ left' = {}
     /\ UNCHANGED <<joinVars, main_context, merged, before>>

EndBranch ==
  /\ status = "walking" /\ left = {}
  /\ status' = "joining"
  /\ UNCHANGED <<joinVars, main_context, merged, left, before>>

\* The loop is over.  What is left of finish_join_simulation logs an optional
\* it has just reset, and throws.
AllMerged ==
  /\ status = "joining" /\ merged = Len(results)
  /\ status' = "merged"
  /\ UNCHANGED <<joinVars, main_context, merged, left, before>>

Joined == status \in {"merged", "threw"} /\ UNCHANGED vars

Next == \/ SkipBranch \/ BeginBranch \/ AddField \/ MergeObjects \/ MergeField \/ Conflict
        \/ EndBranch \/ AllMerged \/ Joined

Spec == Init /\ [][Next]_vars
==============================================================================
