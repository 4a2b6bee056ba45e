---------------------------- MODULE MCContextMerge ----------------------------
(***************************************************************************)
(* Contexts of two keys whose values conflict in kind, in value, deeply,   *)
(* or not at all, under uniform policies and policies for single fields.   *)
(***************************************************************************)
EXTENDS MergeProperties

LOCAL INSTANCE TLC

\* The keys "a" and "ab".
a == 1
b == 2
MCKey == {a, b}

One == Str("1")
Two == Str("2")
MCItem == {One, Two}

Value(v) == Root :> v
Empty == Value(Obj)
\* The object with a field under key k.
Field(k, t) == Empty @@ [p \in {<<k>> \o q : q \in DOMAIN t} |-> t[Tail(p)]]

\* Values of the field a; and of the field b, merged after it.
OfA == {Value(Null), Value(One), Value(Two), Value(Array(<<One>>)), Value(Array(<<Two, One>>)), Empty,
        Field(b, Value(One)), Field(a, Value(Array(<<Two>>)))}
OfB == {Value(One), Field(a, Value(Two))}

MCBranches == {Value(Null)} \cup {Field(a, x) : x \in OfA} \cup {Field(b, y) : y \in OfB}
                            \cup {Field(a, x) @@ Field(b, y) : x \in OfA, y \in OfB}
MCContexts == {Value(Null), Empty, Field(a, Value(One)), Field(a, Value(Array(<<One, One>>))),
               Field(a, Field(a, Value(Array(<<One>>)))) @@ Field(b, Value(One))}

Uniform(s) == [default |-> s, exact |-> [p \in {} |-> s], wild |-> << >>]
Under(prefix, s) == [prefix |-> prefix, keys |-> MCKey, strategy |-> s]
Starting(keys, s) == [prefix |-> Root, keys |-> keys, strategy |-> s]

\* "a" exactly; "a.a" exactly and "a.*"; the overlapping "a.*" and "a*"; "ab*" and "a.*",
\* which do not overlap.
MCPolicies ==
  {Uniform(s) : s \in Strategy} \cup
  {[Uniform("error_on_conflict") EXCEPT !.exact = <<a>> :> "array_concat"],
   [Uniform("array_merge_unique") EXCEPT !.exact = <<a, a>> :> "array_concat",
                                         !.wild = <<Under(<<a>>, "last_write_wins")>>],
   [Uniform("array_concat") EXCEPT !.wild = <<Under(<<a>>, "error_on_conflict"),
                                              Starting({a, b}, "deep_merge")>>],
   [Uniform("deep_merge") EXCEPT !.exact = <<b>> :> "error_on_conflict",
                                 !.wild = <<Starting({b}, "error_on_conflict"),
                                            Under(<<a>>, "array_merge_unique")>>]}
==============================================================================
