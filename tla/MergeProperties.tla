--------------------------- MODULE MergeProperties ---------------------------
(***************************************************************************)
(* What a join's merging guarantees.  Merge says of a whole merge, path by *)
(* path and without a walk, what it leaves and whether it throws.          *)
(***************************************************************************)
EXTENDS ContextMerge

\* Merging source has no business with this path: source says nothing of it,
\* and replaces none of the objects it is in.
Spared(path, source) ==
  /\ path \notin DOMAIN source
  /\ \A p \in DOMAIN source : Lists!IsStrictPrefix(p, path) => IsObject(source[p])

\* source laid over target, where nothing conflicts.
Laid(target, source, p) ==
  [q \in DOMAIN source \cup {r \in DOMAIN target : Spared(r, source)} |->
     IF q \notin DOMAIN source THEN target[q]
     ELSE IF q \notin DOMAIN target THEN source[q]
     ELSE MergeValue(target[q], source[q], StrategyFor(q, p)).value]

Conflicts(target, source, p) ==
  {q \in DOMAIN target \cap DOMAIN source :
     ~MergeValue(target[q], source[q], StrategyFor(q, p)).ok}

Part(source, paths) == [q \in paths |-> source[q]]

\* What comes before every conflict is merged, and nothing else.
Merge(target, source, p) ==
  LET conflicts == Conflicts(target, source, p)
      early == {q \in DOMAIN source : \A c \in conflicts : Before(q, c)}
  IN IF ~IsObject(source[Root]) THEN Leave(target)
     ELSE [ok |-> conflicts = {}, value |-> Laid(target, Part(source, early), p)]

\* A join after none, one, ... all of its branches.
Joins(context, branches, p) ==
  LET after[n \in 0..Len(branches)] ==
        IF n = 0 THEN Leave(context)
        ELSE IF after[n-1].ok THEN Merge(after[n-1].value, branches[n], p)
        ELSE after[n-1]
  IN after
JoinOf(context, branches, p) == Joins(context, branches, p)[Len(branches)]

Strategies == {policy.default} \cup {policy.exact[path] : path \in DOMAIN policy.exact}
                \cup {policy.wild[i].strategy : i \in DOMAIN policy.wild}

Resting == status # "walking"
Outcome == [ok |-> status # "threw", value |-> main_context]

-----------------------------------------------------------------------------

\* Every variable keeps its type: merging leaves a tree, without children of
\* what is no object and without arrays in arrays.
TypeOK ==
  /\ IsPolicy(policy) /\ IsTree(base) /\ IsTree(main_context) /\ IsTree(before)
  /\ merged \in 0..Len(results)
  /\ status \in {"joining", "walking", "merged", "threw"}
  /\ left # {} => status = "walking" /\ left \subseteq DOMAIN Source

Join == INSTANCE ContextJoin WITH
          main_context <- IF Resting THEN main_context ELSE before,
          merged <- IF Resting THEN merged ELSE merged - 1,
          status <- IF Resting THEN status ELSE "joining"

\* The recursion computes Merge: what it does field by field amounts to one
\* step, in which everything before the first conflict is merged.
ImplementsJoin == Join!Spec

\* A branch laid over a context: every path of the branch is there with the
\* branch's value, every path it spares as it was, and no other path is.
\* Without nulls this is a merge patch as in RFC 7396.
LaidOver(target, branch) ==
  [p \in DOMAIN branch \cup {q \in DOMAIN target : Spared(q, branch)} |->
     IF p \in DOMAIN branch THEN branch[p] ELSE target[p]]

\* Where every field is overwritten, a merge lays the branch over the context.
\* Nulls under deep_merge are left out: AgenticDSL_v3.9.md makes them
\* deletions, as RFC 7396 does, and the code stores them.
MergesAsPatch ==
  /\ Resting /\ merged > 0 /\ (\A s \in Strategies : Overwrites(s)) /\ IsObject(Source[Root])
  /\ "deep_merge" \in Strategies => \A p \in DOMAIN Source : Source[p] # Null
  => status # "threw" /\ main_context = LaidOver(before, Source)

\* Whatever the policy, in every turn of the walk and also when it throws, a
\* merge changes nothing the branch does not mention.
OnlyMentionedChange ==
  merged > 0 =>
    \A p \in DOMAIN before :
       ~IsObject(Source[Root]) \/ Spared(p, Source) =>
         p \in DOMAIN main_context /\ main_context[p] = before[p]

\* Merging a branch again, after a failure too, changes nothing more and ends
\* the same way, unless arrays are concatenated or refuse to be merged.
RepeatIsHarmless ==
  Resting /\ merged > 0 /\ "array_concat" \notin Strategies =>
    LET again == Merge(main_context, Source, policy) IN
      /\ again.value = main_context
      /\ status = "threw" => ~again.ok
      /\ "error_on_conflict" \notin Strategies => again.ok = Outcome.ok

\* Where no strategy overwrites and only arrays differ under the strategies
\* for arrays, nothing anyone wrote is lost: every scalar of the base and of
\* each merged branch is in the main context, and every item of its arrays.
\* Other values that differ under array_concat or array_merge_unique are left
\* out: AgenticDSL_RTGuide.md overwrites scalars there, and the code throws.
Holds(context, t) ==
  \A p \in DOMAIN t :
     /\ p \in DOMAIN context
     /\ IF IsArray(t[p])
        THEN /\ IsArray(context[p])
             /\ \A i \in DOMAIN t[p].items :
                   \E j \in DOMAIN context[p].items : context[p].items[j] = t[p].items[i]
        ELSE context[p] = t[p]
OnlyArraysJoin ==
  \A t, u \in {base} \cup {results[k] : k \in DOMAIN results} :
     \A p \in DOMAIN t \cap DOMAIN u :
        \/ t[p] = u[p] \/ (IsArray(t[p]) /\ IsArray(u[p]))
        \/ StrategyFor(p, policy) = "error_on_conflict"
NothingIsLost ==
  (\A s \in Strategies : ~Overwrites(s)) /\ OnlyArraysJoin =>
    /\ Holds(main_context, base)
    /\ \A i \in 1..(IF status \in {"joining", "merged"} THEN merged ELSE merged - 1) :
          IsObject(results[i][Root]) => Holds(main_context, results[i])

\* Whether branches conflict, and what they make together when they do not,
\* does not depend on the order they are merged in.
ConflictsAreSymmetric ==
  status \in {"merged", "threw"} /\ Strategies = {"error_on_conflict"} =>
    LET other == JoinOf(base, Lists!Reverse(results), policy) IN
      /\ other.ok = Outcome.ok
      /\ other.ok => other.value = main_context

\* The order in which the unordered map of patterns is iterated does not
\* matter, as long as patterns that match one path of a branch agree.
PatternsAgree ==
  \A k \in DOMAIN results : \A path \in DOMAIN results[k] :
     \A i, j \in Matching(path, policy) : policy.wild[i].strategy = policy.wild[j].strategy
PatternOrderIsMoot ==
  status \in {"merged", "threw"} /\ PatternsAgree =>
    JoinOf(base, results, [policy EXCEPT !.wild = Lists!Reverse(@)]) = Outcome
==============================================================================
