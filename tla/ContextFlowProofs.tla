--------------------------- MODULE ContextFlowProofs ---------------------------
(***************************************************************************)
(* What nodes do to the context, and what the traces say of it, for every  *)
(* program, every table of tools and a run of any length.                  *)
(***************************************************************************)
EXTENDS ContextFlow, TLAPS, WellFoundedInduction, SequenceTheorems

\* A delta lists exactly the keys on which the two contexts differ, so an
\* unchanged value is never recorded and a changed one never missed.
THEOREM DeltaIsDifference ==
  ASSUME NEW initial, NEW final, NEW k
  PROVE  k \in DOMAIN TD!Delta(initial, final) <=>
           \/ k \in DOMAIN initial /\ k \notin DOMAIN final
           \/ k \in DOMAIN final /\ k \notin DOMAIN initial
           \/ k \in DOMAIN initial /\ k \in DOMAIN final /\ initial[k] # final[k]
  <1>1. DOMAIN TD!Delta(initial, final) = TD!Changed(initial, final) \cup TD!Deleted(initial, final)
    BY DEF TD!Delta
  <1> QED
    BY <1>1 DEF TD!Changed, TD!Deleted

\* What is recorded of a key: its new value, and null where it is gone.
LEMMA DeltaRecords ==
  ASSUME NEW initial, NEW final, NEW k \in DOMAIN TD!Delta(initial, final)
  PROVE  TD!Delta(initial, final)[k] = IF k \in DOMAIN final THEN final[k] ELSE Null
  BY DEF TD!Delta

\* read shows ctx: outside some hidden keys it is ctx without its nulls.
Shown(read, ctx, hidden) ==
  \A k \in (DOMAIN read \cup DOMAIN ctx) \ hidden :
    /\ k \in DOMAIN read <=> k \in DOMAIN ctx /\ ctx[k] # Null
    /\ k \in DOMAIN read => read[k] = ctx[k]

NullFree(read) == \A k \in DOMAIN read : read[k] # Null

\* A reader who knows what a node was given and applies its delta knows what
\* the node left.
LEMMA DeltaShows ==
  ASSUME NEW initial, NEW final, NEW read, NEW hidden,
         NullFree(read), Shown(read, initial, hidden)
  PROVE  /\ NullFree(TD!Patch(read, TD!Delta(initial, final)))
         /\ Shown(TD!Patch(read, TD!Delta(initial, final)), final, hidden)
  <1> DEFINE delta == TD!Delta(initial, final)
             next == TD!Patch(read, delta)
  <1>1. DOMAIN next = (DOMAIN read \cup DOMAIN delta) \ {k \in DOMAIN delta : delta[k] = Null}
    BY DEF TD!Patch, TD!Removed
  <1>2. \A k \in DOMAIN next : next[k] = IF k \in DOMAIN delta THEN delta[k] ELSE read[k]
    BY DEF TD!Patch, TD!Removed
  <1>3. \A k \in DOMAIN delta : delta[k] = IF k \in DOMAIN final THEN final[k] ELSE Null
    BY DeltaRecords
  <1>4. \A k : k \in DOMAIN delta <=>
                  \/ k \in DOMAIN initial /\ k \notin DOMAIN final
                  \/ k \in DOMAIN final /\ k \notin DOMAIN initial
                  \/ k \in DOMAIN initial /\ k \in DOMAIN final /\ initial[k] # final[k]
    BY DeltaIsDifference
  <1> HIDE DEF delta, next
  <1>5. NullFree(next)
    BY <1>1, <1>2 DEF NullFree
  <1>6. ASSUME NEW k, k \notin hidden
        PROVE  /\ k \in DOMAIN next <=> k \in DOMAIN final /\ final[k] # Null
               /\ k \in DOMAIN next => next[k] = final[k]
    <2>1. /\ k \in DOMAIN read <=> k \in DOMAIN initial /\ initial[k] # Null
          /\ k \in DOMAIN read => read[k] = initial[k]
      BY <1>6 DEF Shown
    <2>2. CASE k \in DOMAIN delta
      BY <1>1, <1>2, <1>3, <2>2
    <2>3. CASE k \notin DOMAIN delta
      BY <1>1, <1>2, <1>4, <2>1, <2>3
    <2> QED
      BY <2>2, <2>3
  <1> QED
    BY <1>5, <1>6 DEF Shown, delta, next

\* The delta of a node replays it: applied to the context the node was given
\* it makes the one the node left, up to keys that are null.
THEOREM DeltaReplays ==
  ASSUME NEW initial, NEW final
  PROVE  TD!Patch(TD!WithoutNulls(initial), TD!Delta(initial, final)) = TD!WithoutNulls(final)
  <1> DEFINE old == TD!WithoutNulls(initial)
             new == TD!WithoutNulls(final)
             delta == TD!Delta(initial, final)
             next == TD!Patch(old, delta)
  <1>1. NullFree(old) /\ Shown(old, initial, {})
    BY DEF NullFree, Shown, TD!WithoutNulls
  <1>2. Shown(next, final, {})
    BY <1>1, DeltaShows
  <1>3. DOMAIN new = {k \in DOMAIN final : final[k] # Null} /\ \A k \in DOMAIN new : new[k] = final[k]
    BY DEF TD!WithoutNulls
  <1>4. DOMAIN next = DOMAIN new /\ \A k \in DOMAIN new : next[k] = new[k]
    BY <1>2, <1>3 DEF Shown
  <1>5. next = [k \in DOMAIN next |-> next[k]]
    <2>1. \E S : next = [k \in S |-> IF k \in DOMAIN delta THEN delta[k] ELSE old[k]]
      BY DEF TD!Patch
    <2> HIDE DEF next
    <2> QED
      BY <2>1
  <1>6. new = [k \in DOMAIN new |-> new[k]]
    BY <1>3 DEF TD!WithoutNulls
  <1> HIDE DEF old, new, delta, next
  <1>7. next = new
    BY <1>4, <1>5, <1>6
  <1> QED
    BY <1>7 DEF old, new, delta, next

-----------------------------------------------------------------------------

\* Induction over the numbers, for a set instead of a predicate.
LEMMA InductiveSet ==
  ASSUME NEW S, 0 \in S, \A n \in Nat : n \in S => n + 1 \in S
  PROVE  Nat \subseteq S
  <1> SUFFICES ASSUME Nat \ S # {} PROVE FALSE
    OBVIOUS
  <1> DEFINE R == {p \in Nat \X Nat : p[1] < p[2]}
  <1>1. IsWellFoundedOn(R, Nat)
    BY NatLessThanWellFounded DEF OpToRel
  <1>2. PICK x \in Nat \ S : \A y \in Nat \ S : ~(<<y, x>> \in R)
    <2> HIDE DEF R
    <2> QED
      BY <1>1, WFMin
  <1>3. x # 0 /\ x - 1 \in Nat /\ <<x - 1, x>> \in R
    BY <1>2
  <1> QED
    BY <1>2, <1>3

\* The loop of execute_assign, as the contexts after each of its turns.
AssignLoop(after, fields, ctx, n) ==
  after = [i \in 0..n |->
             IF i = 0 THEN ctx
             ELSE Put(after[i-1], fields[i].key, Rendered(fields[i].template, ctx))]

LEMMA AssignLoopExists ==
  ASSUME NEW fields, NEW ctx, NEW n \in Nat
  PROVE  \E after : AssignLoop(after, fields, ctx, n)
  <1> DEFINE S == {m \in Nat : \E after : AssignLoop(after, fields, ctx, m)}
             Turn(f, i) == Put(f[i-1], fields[i].key, Rendered(fields[i].template, ctx))
  <1>1. 0 \in S
    <2> DEFINE f == [i \in 0..0 |-> ctx]
    <2>1. AssignLoop(f, fields, ctx, 0)
      BY DEF AssignLoop
    <2> QED
      BY <2>1
  <1>2. ASSUME NEW m \in Nat, m \in S PROVE m + 1 \in S
    <2>1. PICK f : AssignLoop(f, fields, ctx, m)
      BY <1>2
    <2> DEFINE g == [i \in 0..(m+1) |-> IF i = 0 THEN ctx ELSE Turn(f, i)]
    <2>2. ASSUME NEW i \in 0..(m+1), i # 0 PROVE f[i-1] = g[i-1]
      <3>1. i - 1 \in 0..m /\ i - 1 \in 0..(m + 1)
        BY <2>2
      <3>2. f[i-1] = IF i - 1 = 0 THEN ctx ELSE Turn(f, i - 1)
        BY <2>1, <3>1 DEF AssignLoop
      <3> QED
        BY <3>1, <3>2
    <2>3. AssignLoop(g, fields, ctx, m + 1)
      BY <2>2 DEF AssignLoop
    <2> HIDE DEF g
    <2> QED
      BY <2>3
  <1> HIDE DEF S
  <1>3. n \in S
    BY <1>1, <1>2, InductiveSet
  <1> QED
    BY <1>3 DEF S

\* What execute_assign computes is the last of them.
LEMMA AssignedTurns ==
  ASSUME NEW fields, Len(fields) \in Nat, NEW ctx
  PROVE  \E after : /\ AssignLoop(after, fields, ctx, Len(fields))
                    /\ Assigned(fields, ctx) = after[Len(fields)]
  <1> DEFINE after == CHOOSE f : AssignLoop(f, fields, ctx, Len(fields))
  <1>1. AssignLoop(after, fields, ctx, Len(fields))
    BY AssignLoopExists
  <1>2. Assigned(fields, ctx) = after[Len(fields)]
    BY DEF Assigned, AssignLoop
  <1> HIDE DEF after
  <1> QED
    BY <1>1, <1>2

Keys(fields) == {fields[i].key : i \in DOMAIN fields}

\* Fields of one key have one template.
Unambiguous(fields) ==
  \A i, j \in DOMAIN fields :
     fields[i].key = fields[j].key => fields[i].template = fields[j].template

\* An assign node leaves every field rendered from the context it was given
\* and everything else as it was, as if the fields were assigned at once.
LEMMA AssignedTogether ==
  ASSUME NEW fields, DOMAIN fields = 1..Len(fields), Len(fields) \in Nat,
         Unambiguous(fields), NEW ctx
  PROVE  LET new == Assigned(fields, ctx)
         IN /\ DOMAIN new = DOMAIN ctx \cup Keys(fields)
            /\ \A i \in DOMAIN fields : new[fields[i].key] = Rendered(fields[i].template, ctx)
            /\ \A k \in DOMAIN ctx \ Keys(fields) : new[k] = ctx[k]
            /\ new = ctx \/ new = [k \in DOMAIN new |-> new[k]]
  <1> DEFINE Done(m) == {fields[i].key : i \in 1..m}
             Good(new, m) ==
               /\ DOMAIN new = DOMAIN ctx \cup Done(m)
               /\ \A i \in 1..m : new[fields[i].key] = Rendered(fields[i].template, ctx)
               /\ \A k \in DOMAIN ctx \ Done(m) : new[k] = ctx[k]
               /\ new = ctx \/ new = [k \in DOMAIN new |-> new[k]]
  <1>1. PICK after : /\ AssignLoop(after, fields, ctx, Len(fields))
                     /\ Assigned(fields, ctx) = after[Len(fields)]
    BY AssignedTurns
  <1>2. \A i \in 0..Len(fields) :
           after[i] = IF i = 0 THEN ctx
                      ELSE Put(after[i-1], fields[i].key, Rendered(fields[i].template, ctx))
    BY <1>1 DEF AssignLoop
  <1> DEFINE S == {m \in Nat : m <= Len(fields) => Good(after[m], m)}
  <1>3. 0 \in S
    <2>1. after[0] = ctx
      BY <1>2
    <2>2. Done(0) = {}
      OBVIOUS
    <2> QED
      BY <2>1, <2>2
  <1>4. ASSUME NEW m \in Nat, m \in S PROVE m + 1 \in S
    <2> SUFFICES ASSUME m + 1 <= Len(fields) PROVE Good(after[m+1], m + 1)
      OBVIOUS
    <2> DEFINE old == after[m]
               new == after[m+1]
               key == fields[m+1].key
               v == Rendered(fields[m+1].template, ctx)
    <2>1. Good(old, m)
      BY <1>4
    <2>2. new = [k \in DOMAIN old \cup {key} |-> IF k = key THEN v ELSE old[k]]
      <3>1. m + 1 \in 0..Len(fields) /\ m + 1 # 0 /\ m + 1 - 1 = m
        OBVIOUS
      <3>2. new = Put(after[m + 1 - 1], key, v)
        BY <1>2, <3>1
      <3>3. new = Put(old, key, v)
        BY <3>1, <3>2
      <3> HIDE DEF old, new, key, v
      <3> QED
        BY <3>3 DEF Put
    <2>3. Done(m + 1) = Done(m) \cup {key}
      <3>1. 1..(m+1) = 1..m \cup {m+1}
        OBVIOUS
      <3> QED
        BY <3>1
    <2> HIDE DEF old, new, key, v
    <2>4. DOMAIN new = DOMAIN ctx \cup Done(m + 1)
      BY <2>1, <2>2, <2>3
    <2>5. ASSUME NEW i \in 1..(m+1) PROVE new[fields[i].key] = Rendered(fields[i].template, ctx)
      <3>1. CASE fields[i].key = key
        <4>1. i \in DOMAIN fields /\ m + 1 \in DOMAIN fields
          OBVIOUS
        <4>2. fields[i].template = fields[m+1].template
          BY <3>1, <4>1 DEF Unambiguous, key
        <4> QED
          BY <2>2, <3>1, <4>2 DEF v
      <3>2. CASE fields[i].key # key
        <4>1. i \in 1..m
          BY <3>2 DEF key
        <4>2. fields[i].key \in DOMAIN old
          BY <2>1, <4>1
        <4> QED
          BY <2>1, <2>2, <3>2, <4>1, <4>2
      <3> QED
        BY <3>1, <3>2
    <2>6. \A k \in DOMAIN ctx \ Done(m + 1) : new[k] = ctx[k]
      BY <2>1, <2>2, <2>3
    <2>7. new = [k \in DOMAIN new |-> new[k]]
      BY <2>2
    <2> QED
      BY <2>4, <2>5, <2>6, <2>7 DEF new
  <1> HIDE DEF S
  <1>5. Len(fields) \in S
    BY <1>3, <1>4, InductiveSet
  <1>6. Good(after[Len(fields)], Len(fields))
    BY <1>5 DEF S
  <1>7. Done(Len(fields)) = Keys(fields)
    BY DEF Keys
  <1> HIDE DEF Done
  <1> QED
    BY <1>1, <1>6, <1>7

-----------------------------------------------------------------------------

\* new keeps old but for some keys.
Extends(old, new, keys) ==
  /\ DOMAIN old \subseteq DOMAIN new
  /\ \A k \in DOMAIN new \ keys : k \in DOMAIN old /\ new[k] = old[k]

\* What a node may write by itself; the session adds the resources.
OwnKeys(n) ==
  Lists!ToSet(n.output_keys)
    \cup (IF n.type = "ASSIGN" THEN {n.templates[i].key : i \in DOMAIN n.templates} ELSE {})
    \cup (IF n.type = "GENERATE_SUBGRAPH" THEN {"__rendered_prompt__"} ELSE {})

\* What a caller of execute_node may count on.
Sound(n, ctx, r) ==
  /\ r.out \in NX!Outcomes(Abstract(n))
  /\ IsContext(r.context)
  /\ r.out = "ok" => /\ Extends(ctx, r.context, OwnKeys(n))
                     /\ ~NX!Writes(Abstract(n)) => r.context = ctx

LEMMA ExtendsMore ==
  ASSUME NEW a, NEW b, NEW c, NEW ab, NEW bc, NEW keys,
         Extends(a, b, ab), Extends(b, c, bc), ab \subseteq keys, bc \subseteq keys
  PROVE  Extends(a, c, keys)
  BY DEF Extends

LEMMA PutContext ==
  ASSUME NEW ctx, IsContext(ctx), NEW k, NEW v, v.kind \in JsonKind
  PROVE  IsContext(Put(ctx, k, v)) /\ Extends(ctx, Put(ctx, k, v), {k})
  BY DEF IsContext, Extends, Put

LEMMA PutAllContext ==
  ASSUME NEW ctx, IsContext(ctx), NEW more, NEW keys, DOMAIN more \subseteq keys,
         \A k \in DOMAIN more : more[k].kind \in JsonKind
  PROVE  IsContext(PutAll(ctx, more)) /\ Extends(ctx, PutAll(ctx, more), keys)
  BY DEF IsContext, Extends, PutAll

LEMMA EmptyContext == IsContext(NoFields) /\ DOMAIN NoFields = {}
  BY DEF IsContext, NoFields

\* A rendered template is a text, whatever it shows.
LEMMA RenderedIsText == ASSUME NEW t, NEW ctx PROVE Rendered(t, ctx).kind = "string"
  BY DEF Rendered, Rendering, Str

LEMMA KindsOfValues ==
  /\ "string" \in JsonKind /\ Null.kind \in JsonKind
  /\ \A x : Str(x).kind \in JsonKind /\ Array(x).kind \in JsonKind
            /\ Object(x).kind \in JsonKind /\ Num(x).kind \in JsonKind
  BY DEF JsonKind, Null, Str, Array, Object, Num

\* The outcomes that the scheduler's model leaves to each kind of node.
LEMMA OutcomesOfNodes ==
  ASSUME NEW n, n.type \in NodeType
  PROVE  LET outs == NX!Outcomes(Abstract(n))
         IN /\ n.type \notin {"FORK", "JOIN"} => "ok" \in outs
            /\ n.type \notin {"START", "END", "RESOURCE"} \/ n.permissions # {} => "throw" \in outs
            /\ n.type = "ASSERT" /\ n.on_failure # NoPath => "jump" \in outs
            /\ n.type \in {"DSL_CALL", "GENERATE_SUBGRAPH", "ASSERT"} /\ DOMAIN Jumping # {} =>
                 "jump" \in outs
  <1> DEFINE m == Abstract(n)
  <1>1. /\ m.type = n.type /\ m.guarded = (n.permissions # {}) /\ m.on_failure = n.on_failure
        /\ m.said = IF NX!Quotes(n) THEN {Jumping[text] : text \in DOMAIN Jumping} ELSE {}
    BY DEF Abstract
  <1> HIDE DEF m
  <1>2. n.type = "ASSERT" /\ n.on_failure # NoPath => NX!JumpTargets(m) # {}
    BY <1>1 DEF NX!JumpTargets
  <1>3. n.type \in {"DSL_CALL", "GENERATE_SUBGRAPH", "ASSERT"} /\ DOMAIN Jumping # {} =>
          NX!JumpTargets(m) # {}
    <2> SUFFICES ASSUME n.type \in {"DSL_CALL", "GENERATE_SUBGRAPH", "ASSERT"},
                        NEW text \in DOMAIN Jumping
                 PROVE  Jumping[text] \in NX!JumpTargets(m)
      OBVIOUS
    <2>1. Jumping[text] \in m.said
      BY <1>1 DEF NX!Quotes
    <2> QED
      BY <2>1, JumpAssumption DEF NX!JumpTargets
  <1>4. n.type \in {"DSL_CALL", "GENERATE_SUBGRAPH", "ASSERT", "ASSIGN", "TOOL_CALL"} =>
          NX!MayThrow(m) /\ ~NX!Unsupported(m)
    BY <1>1 DEF NX!MayThrow, NX!Assigns, NX!Calls, NX!Generates, NX!Asserts, NX!Unsupported
  <1>5. n.type \in {"FORK", "JOIN"} <=> NX!Unsupported(m)
    BY <1>1 DEF NX!Unsupported
  <1>6. n.permissions # {} => NX!MayBeDenied(m)
    BY <1>1 DEF NX!MayBeDenied
  <1> QED
    BY <1>2, <1>3, <1>4, <1>5, <1>6 DEF NX!Outcomes, NodeType, m

LEMMA WritingNodes ==
  ASSUME NEW n
  PROVE  NX!Writes(Abstract(n)) <=>
           n.type \in {"ASSIGN", "DSL_CALL", "TOOL_CALL", "GENERATE_SUBGRAPH"}
  BY DEF Abstract, NX!Writes, NX!Assigns, NX!Calls, NX!Generates

\* A handler that gives its context back is sound, and one that throws is
\* where it may throw.
LEMMA ReturnsSame ==
  ASSUME NEW n, IsNode(n), n.type \notin {"FORK", "JOIN"}, NEW ctx, IsContext(ctx)
  PROVE  Sound(n, ctx, Returns(ctx))
  BY OutcomesOfNodes DEF Sound, Returns, IsNode, Extends

LEMMA ThrowsSound ==
  ASSUME NEW n, IsNode(n), NEW ctx,
         n.type \notin {"START", "END", "RESOURCE"} \/ n.permissions # {}
  PROVE  Sound(n, ctx, Throws)
  BY OutcomesOfNodes, EmptyContext DEF Sound, Throws, IsNode

LEMMA QuotingSound ==
  ASSUME NEW n, IsNode(n), NEW ctx, n.type \in {"DSL_CALL", "GENERATE_SUBGRAPH", "ASSERT"},
         NEW text
  PROVE  Sound(n, ctx, Quoting(text))
  BY OutcomesOfNodes, EmptyContext DEF Sound, Quoting, Throws, Jumps, IsNode

LEMMA AssignSound ==
  ASSUME NEW n, IsNode(n), n.type = "ASSIGN", NEW ctx, IsContext(ctx)
  PROVE  Sound(n, ctx, ExecuteAssign(n, ctx))
  <1> DEFINE new == Assigned(n.templates, ctx)
  <1>1. /\ DOMAIN n.templates = 1..Len(n.templates) /\ Len(n.templates) \in Nat
        /\ Unambiguous(n.templates)
    BY DEF IsNode, Unambiguous
  <1>2. /\ DOMAIN new = DOMAIN ctx \cup Keys(n.templates)
        /\ \A i \in DOMAIN n.templates :
             new[n.templates[i].key] = Rendered(n.templates[i].template, ctx)
        /\ \A k \in DOMAIN ctx \ Keys(n.templates) : new[k] = ctx[k]
        /\ new = ctx \/ new = [k \in DOMAIN new |-> new[k]]
    BY <1>1, AssignedTogether
  <1> HIDE DEF new
  <1>3. IsContext(new)
    <2>1. new = [k \in DOMAIN new |-> new[k]]
      BY <1>2 DEF IsContext
    <2>2. ASSUME NEW k \in DOMAIN new PROVE new[k].kind \in JsonKind
      <3>1. CASE k \in Keys(n.templates)
        BY <1>2, <3>1, RenderedIsText, KindsOfValues DEF Keys
      <3>2. CASE k \notin Keys(n.templates)
        BY <1>2, <3>2 DEF IsContext
      <3> QED
        BY <3>1, <3>2
    <2> QED
      BY <2>1, <2>2 DEF IsContext
  <1>4. Extends(ctx, new, OwnKeys(n))
    <2>1. Keys(n.templates) \subseteq OwnKeys(n)
      BY DEF Keys, OwnKeys
    <2> QED
      BY <1>2, <2>1 DEF Extends
  <1>5. CASE AllRender(n, ctx)
    <2>1. ExecuteAssign(n, ctx) = Returns(new)
      BY <1>5 DEF ExecuteAssign, new
    <2> QED
      BY <1>3, <1>4, <2>1, OutcomesOfNodes, WritingNodes DEF Sound, Returns, IsNode
  <1>6. CASE ~AllRender(n, ctx)
    BY <1>6, ThrowsSound DEF ExecuteAssign
  <1> QED
    BY <1>5, <1>6

\* A node that writes one of its output keys is sound.
LEMMA PutSound ==
  ASSUME NEW n, IsNode(n), n.type \in {"DSL_CALL", "TOOL_CALL", "GENERATE_SUBGRAPH"},
         n.output_keys # << >>, NEW ctx, NEW given, IsContext(given),
         Extends(ctx, given, OwnKeys(n)), NEW v, v.kind \in JsonKind
  PROVE  Sound(n, ctx, Returns(Put(given, n.output_keys[1], v)))
  <1> DEFINE new == Put(given, n.output_keys[1], v)
  <1>1. IsContext(new) /\ Extends(given, new, {n.output_keys[1]})
    BY PutContext
  <1>2. 1 \in DOMAIN n.output_keys
    BY DEF IsNode
  <1>3. n.output_keys[1] \in OwnKeys(n)
    BY <1>2 DEF OwnKeys, Lists!ToSet
  <1>4. Extends(ctx, new, OwnKeys(n))
    <2> HIDE DEF new
    <2> QED
      BY <1>1, <1>3, ExtendsMore
  <1> HIDE DEF new
  <1>5. Sound(n, ctx, Returns(new))
    BY <1>1, <1>4, OutcomesOfNodes, WritingNodes DEF Sound, Returns, IsNode
  <1> QED
    BY <1>5 DEF new

\* A run knows the default tools and what the application registered.
KnownTools == tools \subseteq DefaultTools \cup DOMAIN Results

\* Every answer of a tool is JSON.
LEMMA ToolAnswers ==
  ASSUME KnownTools, NEW name, NEW v \in CallTool(name)
  PROVE  /\ v.kind \in JsonKind
         /\ IsObject(v) => \A k \in DOMAIN v.fields : v.fields[k].kind \in JsonKind
  <1>1. ASSUME NEW key, NEW x, x.kind \in JsonKind
        PROVE  /\ Answer(key, x).kind \in JsonKind
               /\ \A k \in DOMAIN Answer(key, x).fields : Answer(key, x).fields[k].kind \in JsonKind
    BY <1>1 DEF Answer, Object, Put, NoFields, JsonKind
  <1>2. CASE v = Error
    <2>1. v = Answer("error", Str("failure"))
      BY <1>2 DEF Error
    <2> QED
      BY <1>1, <2>1, KindsOfValues
  <1>3. CASE name \in DOMAIN Results /\ v \in Results[name]
    BY <1>3, ToolAssumption
  <1>4. CASE name \in DOMAIN DefaultResults /\ v \in DefaultResults[name] /\ v # Error
    <2>1. name \in {"web_search", "get_weather", "calculate"}
      BY <1>4 DEF DefaultResults
    <2>2. CASE name = "web_search"
      <3>1. v = Answer("results", Str("found"))
        BY <1>4, <2>2 DEF DefaultResults
      <3> QED
        BY <1>1, <3>1, KindsOfValues
    <2>3. CASE name = "get_weather"
      <3>1. v = Object([location |-> Str("here"), condition |-> Str("Sunny"),
                        temperature_c |-> Num("22")])
        BY <1>4, <2>3 DEF DefaultResults
      <3> QED
        BY <3>1, KindsOfValues DEF Object, JsonKind
    <2>4. CASE name = "calculate"
      <3>1. v = Answer("result", Num("3.0"))
        BY <1>4, <2>4 DEF DefaultResults
      <3> QED
        BY <1>1, <3>1, KindsOfValues
    <2> QED
      BY <2>1, <2>2, <2>3, <2>4
  <1>5. \/ v = Error
        \/ name \in DOMAIN Results /\ v \in Results[name]
        \/ name \in DOMAIN DefaultResults /\ v \in DefaultResults[name]
    BY DEF CallTool, KnownTools, DefaultTools
  <1> QED
    BY <1>2, <1>3, <1>4, <1>5

LEMMA ToolCallSound ==
  ASSUME KnownTools, NEW n, IsNode(n), n.type = "TOOL_CALL", NEW ctx, IsContext(ctx),
         NEW r \in ExecuteToolCall(n, ctx)
  PROVE  Sound(n, ctx, r)
  <1>1. CASE ~(AllRender(n, ctx) /\ HasTool(n.tool))
    BY <1>1, ThrowsSound DEF ExecuteToolCall
  <1>2. CASE AllRender(n, ctx) /\ HasTool(n.tool)
    <2>1. PICK result \in CallTool(n.tool) :
            r = Returns(StoreOutputs(ctx, n.output_keys, result))
      BY <1>2 DEF ExecuteToolCall
    <2>2. /\ result.kind \in JsonKind
          /\ IsObject(result) => \A k \in DOMAIN result.fields : result.fields[k].kind \in JsonKind
      BY ToolAnswers
    <2>3. Extends(ctx, ctx, OwnKeys(n))
      BY DEF Extends
    <2>4. CASE n.output_keys # << >>
                 /\ StoreOutputs(ctx, n.output_keys, result) = Put(ctx, n.output_keys[1], result)
      BY <2>1, <2>2, <2>3, <2>4, PutSound
    <2>5. CASE StoreOutputs(ctx, n.output_keys, result) = ctx
      BY <2>1, <2>5, ReturnsSame
    <2> DEFINE taken == [k \in Lists!ToSet(n.output_keys) \cap DOMAIN result.fields |-> result.fields[k]]
    <2>6. CASE IsObject(result) /\ StoreOutputs(ctx, n.output_keys, result) = PutAll(ctx, taken)
      <3>1. /\ DOMAIN taken = Lists!ToSet(n.output_keys) \cap DOMAIN result.fields
            /\ \A k \in DOMAIN taken : taken[k].kind \in JsonKind
        BY <2>2, <2>6
      <3>2. DOMAIN taken \subseteq OwnKeys(n)
        BY <3>1 DEF OwnKeys
      <3> DEFINE new == PutAll(ctx, taken)
      <3>3. IsContext(new) /\ Extends(ctx, new, OwnKeys(n))
        <4> HIDE DEF taken
        <4> QED
          BY <3>1, <3>2, PutAllContext
      <3>4. r = Returns(new)
        BY <2>1, <2>6
      <3> HIDE DEF new
      <3> QED
        BY <3>3, <3>4, OutcomesOfNodes, WritingNodes DEF Sound, Returns, IsNode
    <2>7. Len(n.output_keys) = 1 => n.output_keys # << >>
      <3>1. n.output_keys \in Seq(STRING)
        BY DEF IsNode
      <3>2. n.output_keys = << >> => Len(n.output_keys) = 0
        BY <3>1, EmptySeq
      <3> QED
        BY <3>2
    <2> QED
      BY <2>4, <2>5, <2>6, <2>7 DEF StoreOutputs
  <1> QED
    BY <1>1, <1>2

LEMMA DslNodeSound ==
  ASSUME NEW n, IsNode(n), n.type = "DSL_CALL", NEW ctx, IsContext(ctx),
         NEW r \in ExecuteDslNode(n, ctx)
  PROVE  Sound(n, ctx, r)
  <1>1. CASE ~AllRender(n, ctx)
    BY <1>1, ThrowsSound DEF ExecuteDslNode
  <1>2. CASE AllRender(n, ctx)
    <2>1. PICK answer \in CallLlmTool(n.tool) :
            r = IF "success" \notin DOMAIN answer.fields THEN Quoting(answer.fields.error)
                ELSE IF n.output_keys = << >> THEN Throws
                ELSE Returns(Put(ctx, n.output_keys[1], answer.fields.text))
      BY <1>2 DEF ExecuteDslNode
    <2>2. CASE "success" \notin DOMAIN answer.fields
      BY <2>1, <2>2, QuotingSound
    <2>3. CASE "success" \in DOMAIN answer.fields /\ n.output_keys = << >>
      BY <2>1, <2>3, ThrowsSound
    <2>4. CASE "success" \in DOMAIN answer.fields /\ n.output_keys # << >>
      <3>1. \A text : "success" \notin DOMAIN Answer("error", text).fields
        BY DEF Answer, Object, Put, NoFields
      <3>2. answer = Object([success |-> Str("true"), text |-> Str("answer")])
        BY <2>4, <3>1 DEF CallLlmTool, Error
      <3>3. answer.fields.text.kind \in JsonKind
        BY <3>2, KindsOfValues DEF Object
      <3>4. Extends(ctx, ctx, OwnKeys(n))
        BY DEF Extends
      <3> QED
        BY <2>1, <2>4, <3>3, <3>4, PutSound
    <2> QED
      BY <2>2, <2>3, <2>4
  <1> QED
    BY <1>1, <1>2

LEMMA GenerateSound ==
  ASSUME NEW n, IsNode(n), n.type = "GENERATE_SUBGRAPH", NEW ctx, IsContext(ctx),
         NEW r \in ExecuteGenerateSubgraph(n, ctx)
  PROVE  Sound(n, ctx, r)
  <1> DEFINE prompt == Rendered(n.templates[1].template, WithSubgraphs(ctx))
             given == InjectPrompt(n, ctx)
  <1>1. IsContext(given) /\ Extends(ctx, given, OwnKeys(n))
    <2>1. prompt.kind \in JsonKind
      BY RenderedIsText, KindsOfValues
    <2>2. given = Put(ctx, "__rendered_prompt__", prompt)
      BY DEF InjectPrompt
    <2>3. IsContext(given) /\ Extends(ctx, given, {"__rendered_prompt__"})
      <3> HIDE DEF prompt, given
      <3> QED
        BY <2>1, <2>2, PutContext
    <2>4. "__rendered_prompt__" \in OwnKeys(n)
      BY DEF OwnKeys
    <2> QED
      BY <2>3, <2>4 DEF Extends
  <1> HIDE DEF prompt, given
  <1>2. \/ r = Throws
        \/ \E text : r = Quoting(text)
        \/ n.output_keys = << >> /\ r = Returns(given)
        \/ n.output_keys # << >> /\ \E paths : r = Returns(Put(given, n.output_keys[1], PathsValue(paths)))
    BY DEF ExecuteGenerateSubgraph, given
  <1>3. CASE n.output_keys = << >> /\ r = Returns(given)
    BY <1>1, <1>3, OutcomesOfNodes, WritingNodes DEF Sound, Returns, IsNode
  <1>4. ASSUME n.output_keys # << >>, NEW paths,
               r = Returns(Put(given, n.output_keys[1], PathsValue(paths)))
        PROVE  Sound(n, ctx, r)
    <2>1. PathsValue(paths).kind \in JsonKind
      BY KindsOfValues DEF PathsValue
    <2> QED
      BY <1>1, <1>4, <2>1, PutSound
  <1> QED
    BY <1>2, <1>3, <1>4, ThrowsSound, QuotingSound

LEMMA AssertSound ==
  ASSUME NEW n, IsNode(n), n.type = "ASSERT", NEW ctx, IsContext(ctx),
         NEW r \in ExecuteAssert(n, ctx)
  PROVE  Sound(n, ctx, r)
  <1>1. \/ r \in {Throws, Returns(ctx)}
        \/ \E text : r = Quoting(text)
        \/ r = Jumps /\ n.on_failure # NoPath
    BY DEF ExecuteAssert
  <1>2. CASE r = Jumps /\ n.on_failure # NoPath
    BY <1>2, OutcomesOfNodes, EmptyContext DEF Sound, Jumps, IsNode
  <1> QED
    BY <1>1, <1>2, ThrowsSound, ReturnsSame, QuotingSound

\* No handler does anything the scheduler's model of it leaves out, and none
\* writes beyond its node's outputs.
LEMMA NodeSound ==
  ASSUME KnownTools, NEW n, IsNode(n), NEW ctx, IsContext(ctx), NEW r \in ExecuteNode(n, ctx)
  PROVE  Sound(n, ctx, r)
  <1>1. CASE ~Permitted(n)
    <2>1. n.permissions # {}
      BY <1>1 DEF Permitted
    <2> QED
      BY <1>1, <2>1, ThrowsSound DEF ExecuteNode
  <1>2. CASE Permitted(n)
    <2>1. \/ n.type = "ASSIGN" /\ r = ExecuteAssign(n, ctx)
          \/ n.type = "TOOL_CALL" /\ r \in ExecuteToolCall(n, ctx)
          \/ n.type = "DSL_CALL" /\ r \in ExecuteDslNode(n, ctx)
          \/ n.type = "GENERATE_SUBGRAPH" /\ r \in ExecuteGenerateSubgraph(n, ctx)
          \/ n.type = "ASSERT" /\ r \in ExecuteAssert(n, ctx)
          \/ n.type \in {"FORK", "JOIN"} /\ r = Throws
          \/ n.type \in {"START", "END", "RESOURCE"} /\ r = Returns(ctx)
      BY <1>2 DEF ExecuteNode, ExecuteFork, IsNode, NodeType
    <2> QED
      BY <2>1, AssignSound, ToolCallSound, DslNodeSound, GenerateSound, AssertSound,
         ThrowsSound, ReturnsSame
  <1> QED
    BY <1>1, <1>2

-----------------------------------------------------------------------------

\* The loop of register_resources.
RegisterLoop(after, nodes, n) ==
  after = [i \in 0..n |-> IF i = 0 THEN NoFields
                          ELSE IF Resource(nodes[i]) THEN RegisterResource(after[i-1], nodes[i])
                          ELSE after[i-1]]

LEMMA RegisterLoopExists ==
  ASSUME NEW nodes, NEW n \in Nat
  PROVE  \E after : RegisterLoop(after, nodes, n)
  <1> DEFINE S == {m \in Nat : \E after : RegisterLoop(after, nodes, m)}
             Turn(f, i) == IF Resource(nodes[i]) THEN RegisterResource(f[i-1], nodes[i]) ELSE f[i-1]
  <1>1. 0 \in S
    <2> DEFINE f == [i \in 0..0 |-> NoFields]
    <2>1. RegisterLoop(f, nodes, 0)
      BY DEF RegisterLoop
    <2> QED
      BY <2>1
  <1>2. ASSUME NEW m \in Nat, m \in S PROVE m + 1 \in S
    <2>1. PICK f : RegisterLoop(f, nodes, m)
      BY <1>2
    <2> DEFINE g == [i \in 0..(m+1) |-> IF i = 0 THEN NoFields ELSE Turn(f, i)]
    <2>2. ASSUME NEW i \in 0..(m+1), i # 0 PROVE f[i-1] = g[i-1]
      <3>1. i - 1 \in 0..m /\ i - 1 \in 0..(m + 1)
        BY <2>2
      <3>2. f[i-1] = IF i - 1 = 0 THEN NoFields ELSE Turn(f, i - 1)
        BY <2>1, <3>1 DEF RegisterLoop
      <3> QED
        BY <3>1, <3>2
    <2>3. RegisterLoop(g, nodes, m + 1)
      BY <2>2 DEF RegisterLoop
    <2> HIDE DEF g
    <2> QED
      BY <2>3
  <1> HIDE DEF S
  <1>3. n \in S
    BY <1>1, <1>2, InductiveSet
  <1> QED
    BY <1>3 DEF S

\* Whatever the order of the nodes, a resource is what the last node of its
\* path declares, and nothing else is a resource.
LEMMA LastDeclarationCounts ==
  ASSUME NEW nodes, DOMAIN nodes = 1..Len(nodes), Len(nodes) \in Nat
  PROVE  LET res == RegisterResources(nodes)
         IN /\ DOMAIN res = {nodes[i].path : i \in {j \in DOMAIN nodes : Resource(nodes[j])}}
            /\ \A path \in DOMAIN res : \E i \in DOMAIN nodes :
                 /\ Resource(nodes[i]) /\ nodes[i].path = path
                 /\ res[path] = Object(nodes[i].info)
                 /\ \A j \in DOMAIN nodes : Resource(nodes[j]) /\ nodes[j].path = path => j <= i
  <1> DEFINE Declared(m) == {nodes[i].path : i \in {j \in 1..m : Resource(nodes[j])}}
             Good(res, m) ==
               /\ DOMAIN res = Declared(m)
               /\ \A path \in DOMAIN res : \E i \in 1..m :
                    /\ Resource(nodes[i]) /\ nodes[i].path = path
                    /\ res[path] = Object(nodes[i].info)
                    /\ \A j \in 1..m : Resource(nodes[j]) /\ nodes[j].path = path => j <= i
  <1> DEFINE after == CHOOSE f : RegisterLoop(f, nodes, Len(nodes))
  <1>1. RegisterLoop(after, nodes, Len(nodes))
    BY RegisterLoopExists
  <1>2. RegisterResources(nodes) = after[Len(nodes)]
    BY DEF RegisterResources, RegisterLoop
  <1> HIDE DEF after
  <1>3. \A i \in 0..Len(nodes) :
           after[i] = IF i = 0 THEN NoFields
                      ELSE IF Resource(nodes[i]) THEN RegisterResource(after[i-1], nodes[i])
                      ELSE after[i-1]
    BY <1>1 DEF RegisterLoop
  <1> DEFINE S == {m \in Nat : m <= Len(nodes) => Good(after[m], m)}
  <1>4. 0 \in S
    <2>1. DOMAIN after[0] = {}
      BY <1>3, EmptyContext
    <2> QED
      BY <2>1
  <1>5. ASSUME NEW m \in Nat, m \in S PROVE m + 1 \in S
    <2> SUFFICES ASSUME m + 1 <= Len(nodes) PROVE Good(after[m+1], m + 1)
      OBVIOUS
    <2> DEFINE old == after[m]
               new == after[m+1]
               node == nodes[m+1]
    <2>1. Good(old, m)
      BY <1>5
    <2>2. new = IF Resource(node) THEN RegisterResource(old, node) ELSE old
      <3>1. m + 1 \in 0..Len(nodes) /\ m + 1 # 0 /\ m + 1 - 1 = m
        OBVIOUS
      <3>2. new = IF Resource(node) THEN RegisterResource(after[m + 1 - 1], node) ELSE after[m + 1 - 1]
        BY <1>3, <3>1
      <3> QED
        BY <3>1, <3>2
    <2>3. 1..(m+1) = 1..m \cup {m+1} /\ m + 1 \in 1..(m+1) /\ \A j \in 1..(m+1) : j <= m + 1
      OBVIOUS
    <2>4. \A i \in 1..m : i \in 1..(m+1)
      OBVIOUS
    <2>5. CASE ~Resource(node)
      <3>1. new = old
        BY <2>2, <2>5
      <3>2. Declared(m + 1) = Declared(m)
        BY <2>3, <2>5
      <3>3. \A j \in 1..(m+1) : Resource(nodes[j]) => j \in 1..m
        BY <2>3, <2>5
      <3> HIDE DEF old, new, node, Declared
      <3>4. Good(old, m + 1)
        BY <2>1, <2>4, <3>2, <3>3
      <3> QED
        BY <3>1, <3>4 DEF new
    <2>6. CASE Resource(node)
      <3>1. new = [k \in DOMAIN old \cup {node.path} |->
                     IF k = node.path THEN Object(node.info) ELSE old[k]]
        BY <2>2, <2>6 DEF RegisterResource, Put
      <3>2. Declared(m + 1) = Declared(m) \cup {node.path}
        BY <2>3, <2>6
      <3> HIDE DEF old, new, Declared
      <3>3. DOMAIN new = Declared(m + 1)
        BY <2>1, <3>1, <3>2
      <3>4. ASSUME NEW path \in DOMAIN new
            PROVE  \E i \in 1..(m+1) :
                     /\ Resource(nodes[i]) /\ nodes[i].path = path
                     /\ new[path] = Object(nodes[i].info)
                     /\ \A j \in 1..(m+1) : Resource(nodes[j]) /\ nodes[j].path = path => j <= i
        <4>1. CASE path = node.path
          BY <2>3, <2>6, <3>1, <4>1
        <4>2. CASE path # node.path
          <5>1. path \in DOMAIN old /\ new[path] = old[path]
            BY <3>1, <3>4, <4>2
          <5>2. PICK i \in 1..m :
                  /\ Resource(nodes[i]) /\ nodes[i].path = path
                  /\ old[path] = Object(nodes[i].info)
                  /\ \A j \in 1..m : Resource(nodes[j]) /\ nodes[j].path = path => j <= i
            BY <2>1, <5>1
          <5>3. \A j \in 1..(m+1) : nodes[j].path = path => j \in 1..m
            BY <2>3, <4>2
          <5> QED
            BY <2>4, <5>1, <5>2, <5>3
        <4> QED
          BY <4>1, <4>2
      <3> QED
        BY <3>3, <3>4 DEF new
    <2> QED
      BY <2>5, <2>6
  <1> HIDE DEF S
  <1>6. Len(nodes) \in S
    BY <1>4, <1>5, InductiveSet
  <1>7. Good(after[Len(nodes)], Len(nodes))
    BY <1>6 DEF S
  <1> QED
    BY <1>2, <1>7

-----------------------------------------------------------------------------

\* What a reader knows after each record.
ReplayLoop(after, records, ctx, n) ==
  after = [i \in 0..n |->
             IF i = 0 THEN ctx
             ELSE IF Succeeded(records[i]) THEN TD!Patch(after[i-1], records[i].context_delta)
             ELSE after[i-1]]

LEMMA ReplayLoopExists ==
  ASSUME NEW records, NEW ctx, NEW n \in Nat
  PROVE  \E after : ReplayLoop(after, records, ctx, n)
  <1> DEFINE S == {m \in Nat : \E after : ReplayLoop(after, records, ctx, m)}
             Turn(f, i) == IF Succeeded(records[i]) THEN TD!Patch(f[i-1], records[i].context_delta)
                           ELSE f[i-1]
  <1>1. 0 \in S
    <2> DEFINE f == [i \in 0..0 |-> ctx]
    <2>1. ReplayLoop(f, records, ctx, 0)
      BY DEF ReplayLoop
    <2> QED
      BY <2>1
  <1>2. ASSUME NEW m \in Nat, m \in S PROVE m + 1 \in S
    <2>1. PICK f : ReplayLoop(f, records, ctx, m)
      BY <1>2
    <2> DEFINE g == [i \in 0..(m+1) |-> IF i = 0 THEN ctx ELSE Turn(f, i)]
    <2>2. ASSUME NEW i \in 0..(m+1), i # 0 PROVE f[i-1] = g[i-1]
      <3>1. i - 1 \in 0..m /\ i - 1 \in 0..(m + 1)
        BY <2>2
      <3>2. f[i-1] = IF i - 1 = 0 THEN ctx ELSE Turn(f, i - 1)
        BY <2>1, <3>1 DEF ReplayLoop
      <3> QED
        BY <3>1, <3>2
    <2>3. ReplayLoop(g, records, ctx, m + 1)
      BY <2>2 DEF ReplayLoop
    <2> HIDE DEF g
    <2> QED
      BY <2>3
  <1> HIDE DEF S
  <1>3. n \in S
    BY <1>1, <1>2, InductiveSet
  <1> QED
    BY <1>3 DEF S

LEMMA ReplayTurns ==
  ASSUME NEW records, Len(records) \in Nat, NEW ctx
  PROVE  \E after :
           /\ Replay(records, ctx) = after[Len(records)]
           /\ \A i \in 0..Len(records) :
                after[i] = IF i = 0 THEN ctx
                           ELSE IF Succeeded(records[i])
                                THEN TD!Patch(after[i-1], records[i].context_delta)
                           ELSE after[i-1]
  <1> DEFINE after == CHOOSE f : ReplayLoop(f, records, ctx, Len(records))
  <1>1. ReplayLoop(after, records, ctx, Len(records))
    BY ReplayLoopExists
  <1>2. Replay(records, ctx) = after[Len(records)]
    BY DEF Replay, ReplayLoop
  <1> HIDE DEF after
  <1>3. \A i \in 0..Len(records) :
          after[i] = IF i = 0 THEN ctx
                     ELSE IF Succeeded(records[i])
                          THEN TD!Patch(after[i-1], records[i].context_delta)
                     ELSE after[i-1]
    BY <1>1 DEF ReplayLoop
  <1> QED
    BY <1>2, <1>3

LEMMA ReplayOfNone == ASSUME NEW ctx PROVE Replay(<< >>, ctx) = ctx
  <1>1. Len(<< >>) = 0
    OBVIOUS
  <1>2. PICK after : /\ Replay(<< >>, ctx) = after[Len(<< >>)]
                     /\ \A i \in 0..Len(<< >>) :
                          after[i] = IF i = 0 THEN ctx
                                     ELSE IF Succeeded(<< >>[i])
                                          THEN TD!Patch(after[i-1], << >>[i].context_delta)
                                     ELSE after[i-1]
    BY <1>1, ReplayTurns
  <1> QED
    BY <1>1, <1>2

\* One more record takes a reader one step further.
LEMMA ReplayOfOneMore ==
  ASSUME NEW T, NEW records \in Seq(T), NEW e \in T, NEW ctx
  PROVE  Replay(Append(records, e), ctx) =
           IF Succeeded(e) THEN TD!Patch(Replay(records, ctx), e.context_delta)
           ELSE Replay(records, ctx)
  <1> DEFINE more == Append(records, e)
             n == Len(records)
  <1>1. /\ n \in Nat /\ Len(more) = n + 1 /\ more[n+1] = e
        /\ \A i \in 1..n : more[i] = records[i]
    OBVIOUS
  <1> HIDE DEF more, n
  <1>2. PICK f : /\ Replay(records, ctx) = f[n]
                 /\ \A i \in 0..n :
                      f[i] = IF i = 0 THEN ctx
                             ELSE IF Succeeded(records[i]) THEN TD!Patch(f[i-1], records[i].context_delta)
                             ELSE f[i-1]
    BY <1>1, ReplayTurns DEF n
  <1>3. PICK g : /\ Replay(more, ctx) = g[n+1]
                 /\ \A i \in 0..(n+1) :
                      g[i] = IF i = 0 THEN ctx
                             ELSE IF Succeeded(more[i]) THEN TD!Patch(g[i-1], more[i].context_delta)
                             ELSE g[i-1]
    BY <1>1, ReplayTurns
  <1> DEFINE S == {m \in Nat : m <= n => f[m] = g[m]}
  <1>4. 0 \in S
    BY <1>1, <1>2, <1>3
  <1>5. ASSUME NEW m \in Nat, m \in S PROVE m + 1 \in S
    <2> SUFFICES ASSUME m + 1 <= n PROVE f[m+1] = g[m+1]
      OBVIOUS
    <2>1. m + 1 \in 1..n /\ m + 1 \in 0..n /\ m + 1 \in 0..(n+1) /\ m + 1 # 0 /\ m + 1 - 1 = m
      BY <1>1
    <2>2. f[m] = g[m] /\ more[m+1] = records[m+1]
      BY <1>1, <1>5, <2>1
    <2>3. f[m+1] = IF Succeeded(records[m+1]) THEN TD!Patch(f[m+1-1], records[m+1].context_delta)
                   ELSE f[m+1-1]
      BY <1>2, <2>1
    <2>4. g[m+1] = IF Succeeded(more[m+1]) THEN TD!Patch(g[m+1-1], more[m+1].context_delta)
                   ELSE g[m+1-1]
      BY <1>3, <2>1
    <2> QED
      BY <2>1, <2>2, <2>3, <2>4
  <1> HIDE DEF S
  <1>6. n \in S
    BY <1>1, <1>4, <1>5, InductiveSet
  <1>7. f[n] = g[n]
    BY <1>1, <1>6 DEF S
  <1>8. g[n+1] = IF Succeeded(e) THEN TD!Patch(g[n+1-1], e.context_delta) ELSE g[n+1-1]
    <2>1. n + 1 \in 0..(n+1) /\ n + 1 # 0
      BY <1>1
    <2> QED
      BY <1>1, <1>3, <2>1
  <1>9. n + 1 - 1 = n
    BY <1>1
  <1>10. Replay(more, ctx) =
           IF Succeeded(e) THEN TD!Patch(Replay(records, ctx), e.context_delta)
           ELSE Replay(records, ctx)
    BY <1>2, <1>3, <1>7, <1>8, <1>9
  <1> QED
    BY <1>10 DEF more

-----------------------------------------------------------------------------

\* The invariant of a run: the context and the records are typed, and a reader
\* of the records knows the visible part of the context.
FlowInv ==
  /\ program \in Programs /\ resources = RegisterResources(program) /\ KnownTools
  /\ IsContext(context)
  /\ traces \in Seq(Lists!ToSet(traces))
  /\ \A i \in DOMAIN traces :
       traces[i].status \in {"success", "failed"} /\ IsContext(traces[i].context_delta)
  /\ LET read == Replay(traces, Visible(initial_context))
     IN NullFree(read) /\ Shown(read, context, Injected)

\* What is visible of a context shows it, and two contexts shown by one reader
\* look the same.
LEMMA VisibleShows ==
  ASSUME NEW ctx
  PROVE  NullFree(Visible(ctx)) /\ Shown(Visible(ctx), ctx, Injected)
  <1>1. /\ DOMAIN Visible(ctx) = {k \in DOMAIN ctx \ Injected : ctx[k] # Null}
        /\ \A k \in DOMAIN Visible(ctx) : Visible(ctx)[k] = ctx[k]
    BY DEF Visible, TD!WithoutNulls
  <1> QED
    BY <1>1 DEF NullFree, Shown

LEMMA ShownIsVisible ==
  ASSUME NEW read, NEW ctx, NullFree(read), Shown(read, ctx, Injected)
  PROVE  Visible(read) = Visible(ctx)
  <1>1. /\ DOMAIN Visible(ctx) = {k \in DOMAIN ctx \ Injected : ctx[k] # Null}
        /\ \A k \in DOMAIN Visible(ctx) : Visible(ctx)[k] = ctx[k]
        /\ Visible(ctx) = [k \in DOMAIN Visible(ctx) |-> Visible(ctx)[k]]
    BY DEF Visible, TD!WithoutNulls
  <1>2. /\ DOMAIN Visible(read) = {k \in DOMAIN read \ Injected : read[k] # Null}
        /\ \A k \in DOMAIN Visible(read) : Visible(read)[k] = read[k]
        /\ Visible(read) = [k \in DOMAIN Visible(read) |-> Visible(read)[k]]
    BY DEF Visible, TD!WithoutNulls
  <1>3. DOMAIN Visible(read) = DOMAIN Visible(ctx)
    BY <1>1, <1>2 DEF NullFree, Shown
  <1>4. \A k \in DOMAIN Visible(ctx) : Visible(read)[k] = Visible(ctx)[k]
    BY <1>1, <1>2, <1>3 DEF Shown
  <1> QED
    BY <1>1, <1>2, <1>3, <1>4

\* A node is given the context with at most the resources replaced.
LEMMA GivenContext ==
  ASSUME NEW ctx, IsContext(ctx)
  PROVE  LET given == InjectResources(ctx, resources)
         IN IsContext(given) /\ Extends(ctx, given, Injected)
  <1>1. CASE DOMAIN resources = {}
    BY <1>1 DEF InjectResources, Extends
  <1>2. CASE DOMAIN resources # {}
    BY <1>2, PutContext, KindsOfValues DEF InjectResources, ResourcesContext, Injected
  <1> QED
    BY <1>1, <1>2

LEMMA DeltaIsContext ==
  ASSUME NEW initial, NEW final, IsContext(final)
  PROVE  IsContext(TD!Delta(initial, final))
  <1> DEFINE delta == TD!Delta(initial, final)
  <1>1. delta = [k \in DOMAIN delta |-> delta[k]]
    BY DEF TD!Delta
  <1>2. \A k \in DOMAIN delta : delta[k].kind \in JsonKind
    BY DeltaRecords, KindsOfValues DEF IsContext
  <1> HIDE DEF delta
  <1>3. IsContext(delta)
    BY <1>1, <1>2 DEF IsContext
  <1> QED
    BY <1>3 DEF delta

LEMMA InitFlowInv == Init => FlowInv
  <1> SUFFICES ASSUME Init PROVE FlowInv
    OBVIOUS
  <1>1. program \in Programs /\ resources = RegisterResources(program) /\ KnownTools
    BY DEF Init, KnownTools
  <1>2. IsContext(context)
    BY FlowAssumption DEF Init
  <1>3. traces = << >> /\ DOMAIN traces = {} /\ traces \in Seq(Lists!ToSet(traces))
    BY DEF Init
  <1>4. Replay(traces, Visible(initial_context)) = Visible(context)
    BY <1>3, ReplayOfNone DEF Init
  <1> QED
    BY <1>1, <1>2, <1>3, <1>4, VisibleShows DEF FlowInv

\* What a step leaves of the context: the node's result if it succeeded.
LEMMA ExecuteFacts ==
  ASSUME FlowInv, NEW n \in Lists!ToSet(program), Execute(n)
  PROVE  LET given == InjectResources(context, resources)
         IN \E r \in ExecuteNode(n, given) :
              /\ Sound(n, given, r)
              /\ context' = IF r.out = "ok" THEN r.context ELSE context
              /\ traces' = Append(traces, Record(n, r, given))
              /\ IsContext(given) /\ Extends(context, given, Injected)
  <1> DEFINE given == InjectResources(context, resources)
  <1>1. IsContext(given) /\ Extends(context, given, Injected)
    BY GivenContext DEF FlowInv
  <1>2. IsNode(n)
    BY FlowAssumption DEF FlowInv, IsProgram
  <1>3. PICK r \in ExecuteNode(n, given) :
          /\ context' = IF r.out = "ok" THEN r.context ELSE context
          /\ traces' = Append(traces, Record(n, r, given))
    BY DEF Execute
  <1>4. Sound(n, given, r)
    <2> HIDE DEF given
    <2> QED
      BY <1>1, <1>2, NodeSound DEF FlowInv
  <1> QED
    BY <1>1, <1>3, <1>4

LEMMA NextFlowInv == FlowInv /\ [Next]_vars => FlowInv'
  <1> SUFFICES ASSUME FlowInv, [Next]_vars PROVE FlowInv'
    OBVIOUS
  <1>1. ASSUME NEW n \in Lists!ToSet(program), Execute(n) PROVE FlowInv'
    <2> DEFINE given == InjectResources(context, resources)
               read == Replay(traces, Visible(initial_context))
               T == Lists!ToSet(traces)
    <2>1. PICK r \in ExecuteNode(n, given) :
            /\ Sound(n, given, r)
            /\ context' = IF r.out = "ok" THEN r.context ELSE context
            /\ traces' = Append(traces, Record(n, r, given))
            /\ IsContext(given) /\ Extends(context, given, Injected)
      BY <1>1, ExecuteFacts
    <2> DEFINE record == Record(n, r, given)
    <2>2. UNCHANGED <<program, initial_context, resources, tools, llm_tools>>
      BY <1>1 DEF Execute
    <2>3. /\ record.status = IF r.out = "ok" THEN "success" ELSE "failed"
          /\ record.context_delta = TD!Delta(given, r.context)
      BY DEF Record
    <2>4. IsContext(r.context)
      BY <2>1 DEF Sound
    <2>5. /\ traces \in Seq(T \cup {record})
          /\ traces' \in Seq(T \cup {record}) /\ Len(traces') = Len(traces) + 1
          /\ \A i \in 1..Len(traces) : traces'[i] = traces[i]
          /\ traces'[Len(traces) + 1] = record /\ Len(traces) \in Nat
      <3>1. traces \in Seq(T)
        BY DEF FlowInv
      <3> HIDE DEF T, record
      <3>2. traces \in Seq(T \cup {record})
        BY <3>1
      <3> QED
        BY <2>1, <3>2 DEF record
    <2> HIDE DEF given, T, record
    <2>6. (program \in Programs /\ resources = RegisterResources(program) /\ KnownTools)'
      BY <2>2 DEF FlowInv, KnownTools, RegisterResources, DefaultTools
    <2>7. IsContext(context)' /\ IsContext(context')
      BY <2>1, <2>4 DEF FlowInv, IsContext
    <2>8. (traces \in Seq(Lists!ToSet(traces)))'
      <3>1. traces' \in Seq({traces'[i] : i \in DOMAIN traces'})
        BY <2>5
      <3> QED
        BY <3>1 DEF Lists!ToSet
    <2>9. (\A i \in DOMAIN traces :
             traces[i].status \in {"success", "failed"} /\ IsContext(traces[i].context_delta))'
      <3>1. IsContext(record.context_delta) /\ record.status \in {"success", "failed"}
        BY <2>3, <2>4, DeltaIsContext
      <3>2. \A i \in DOMAIN traces : i \in 1..Len(traces)
        BY <2>5
      <3>3. ASSUME NEW i \in DOMAIN traces'
            PROVE  traces'[i].status \in {"success", "failed"} /\ IsContext(traces'[i].context_delta)
        <4>1. i \in 1..(Len(traces) + 1)
          BY <2>5
        <4>2. CASE i = Len(traces) + 1
          BY <2>5, <3>1, <4>2
        <4>3. CASE i # Len(traces) + 1
          BY <2>5, <4>1, <4>3 DEF FlowInv
        <4> QED
          BY <4>2, <4>3
      <3> QED
        BY <3>3 DEF IsContext
    <2>10. (LET now == Replay(traces, Visible(initial_context))
            IN NullFree(now) /\ Shown(now, context, Injected))'
      <3>1. NullFree(read) /\ Shown(read, context, Injected)
        BY DEF FlowInv
      <3>2. Visible(initial_context)' = Visible(initial_context) /\ Injected' = Injected
        BY <2>2 DEF Visible, Injected
      <3>3. Replay(traces', Visible(initial_context)) =
              IF Succeeded(record) THEN TD!Patch(read, record.context_delta) ELSE read
        <4>1. traces' = Append(traces, record)
          BY <2>1 DEF record
        <4> QED
          BY <2>5, <4>1, ReplayOfOneMore
      <3> HIDE DEF read
      <3>4. Shown(read, given, Injected)
        BY <2>1, <3>1 DEF Shown, Extends
      <3>5. CASE r.out = "ok"
        <4>1. /\ Replay(traces', Visible(initial_context)) = TD!Patch(read, TD!Delta(given, r.context))
              /\ context' = r.context
          BY <2>1, <2>3, <3>3, <3>5 DEF Succeeded
        <4>2. /\ NullFree(Replay(traces', Visible(initial_context)))
              /\ Shown(Replay(traces', Visible(initial_context)), context', Injected)
          BY <3>1, <3>4, <4>1, DeltaShows
        <4> QED
          BY <3>2, <4>2 DEF NullFree, Shown, Replay, Succeeded
      <3>6. CASE r.out # "ok"
        <4>1. Replay(traces', Visible(initial_context)) = read /\ context' = context
          BY <2>1, <2>3, <3>3, <3>6 DEF Succeeded
        <4>2. /\ NullFree(Replay(traces', Visible(initial_context)))
              /\ Shown(Replay(traces', Visible(initial_context)), context', Injected)
          BY <3>1, <4>1
        <4> QED
          BY <3>2, <4>2 DEF NullFree, Shown, Replay, Succeeded
      <3> QED
        BY <3>5, <3>6
    <2> QED
      BY <2>6, <2>7, <2>8, <2>9, <2>10 DEF FlowInv
  <1>2. CASE UNCHANGED vars
    <2>1. UNCHANGED <<program, initial_context, resources, context, traces, tools>>
      BY <1>2 DEF vars
    <2>2. /\ (program \in Programs /\ resources = RegisterResources(program) /\ KnownTools)'
          /\ IsContext(context)' /\ (traces \in Seq(Lists!ToSet(traces)))'
      BY <2>1 DEF FlowInv, KnownTools
    <2>3. (\A i \in DOMAIN traces :
             traces[i].status \in {"success", "failed"} /\ IsContext(traces[i].context_delta))'
      BY <2>1 DEF FlowInv
    <2>4. Visible(initial_context)' = Visible(initial_context) /\ Injected' = Injected
      BY <2>1 DEF Visible, Injected
    <2>5. (LET now == Replay(traces, Visible(initial_context))
           IN NullFree(now) /\ Shown(now, context, Injected))'
      BY <2>1, <2>4 DEF FlowInv
    <2> QED
      BY <2>2, <2>3, <2>5 DEF FlowInv
  <1> QED
    BY <1>1, <1>2 DEF Next

LEMMA FlowInvariance == Spec => []FlowInv
  BY InitFlowInv, NextFlowInv, PTL DEF Spec

\* The resources of a run are what the last node of each path declares, and
\* contexts and deltas are JSON objects.
THEOREM FlowTyping == Spec => []TypeOK
  <1>1. FlowInv => TypeOK
    <2> SUFFICES ASSUME FlowInv PROVE TypeOK
      OBVIOUS
    <2>1. DOMAIN program = 1..Len(program) /\ Len(program) \in Nat
      BY FlowAssumption DEF FlowInv, IsProgram
    <2>2. resources = RegisterResources(program)
      BY DEF FlowInv
    <2>3. /\ DOMAIN resources = {program[i].path : i \in {j \in DOMAIN program : Resource(program[j])}}
          /\ \A path \in DOMAIN resources : \E i \in DOMAIN program :
               /\ Resource(program[i]) /\ program[i].path = path
               /\ resources[path] = Object(program[i].info)
               /\ \A j \in DOMAIN program : Resource(program[j]) /\ program[j].path = path => j <= i
      BY <2>1, <2>2, LastDeclarationCounts
    <2> QED
      BY <2>3 DEF FlowInv, TypeOK, Declares
  <1> QED
    BY <1>1, FlowInvariance, PTL

\* Whatever the nodes do and however many fail, the deltas of those that
\* succeeded turn the first context into the present one.
THEOREM DeltasReplayRuns == Spec => []TracesReplay
  <1>1. FlowInv => TracesReplay
    BY ShownIsVisible DEF FlowInv, TracesReplay
  <1> QED
    BY <1>1, FlowInvariance, PTL

\* In any context of a run, every handler stays within what the scheduler's
\* model allows for its node.
THEOREM HandlersAbstracted == Spec => []AbstractsHandlers
  <1>1. FlowInv => AbstractsHandlers
    <2> SUFFICES ASSUME FlowInv, NEW n \in Lists!ToSet(program), NEW r \in ExecuteNode(n, context)
                 PROVE  /\ r.out \in NX!Outcomes(Abstract(n))
                        /\ r.out = "ok" /\ ~NX!Writes(Abstract(n)) => r.context = context
      BY DEF AbstractsHandlers
    <2>1. IsNode(n)
      BY FlowAssumption DEF FlowInv, IsProgram
    <2>2. Sound(n, context, r)
      BY <2>1, NodeSound DEF FlowInv
    <2> QED
      BY <2>2 DEF Sound
  <1> QED
    BY <1>1, FlowInvariance, PTL

\* A node of any type, with any tool behind it, changes its declared outputs,
\* the prompt and the resources at most, and deletes nothing.
THEOREM OutputsOnly == Spec => OnlyOutputsChange
  <1> DEFINE Kept(n) == /\ DOMAIN context \subseteq DOMAIN context'
                        /\ \A k \in DOMAIN context' \ Outputs(n) :
                             k \in DOMAIN context /\ context'[k] = context[k]
  <1>1. ASSUME FlowInv, NEW n \in Lists!ToSet(program), Execute(n) PROVE Kept(n)
    <2> DEFINE given == InjectResources(context, resources)
    <2>1. PICK r \in ExecuteNode(n, given) :
            /\ Sound(n, given, r)
            /\ context' = IF r.out = "ok" THEN r.context ELSE context
            /\ Extends(context, given, Injected)
      BY <1>1, ExecuteFacts
    <2>2. OwnKeys(n) \subseteq Outputs(n) /\ Injected \subseteq Outputs(n)
      BY DEF OwnKeys, Outputs
    <2> HIDE DEF given
    <2>3. CASE r.out = "ok"
      <3>1. Extends(given, r.context, OwnKeys(n))
        BY <2>1, <2>3 DEF Sound
      <3>2. Extends(context, r.context, Outputs(n))
        BY <2>1, <2>2, <3>1, ExtendsMore
      <3> QED
        BY <2>1, <2>3, <3>2 DEF Extends
    <2>4. CASE r.out # "ok"
      BY <2>1, <2>4
    <2> QED
      BY <2>3, <2>4
  <1>2. FlowInv => \A n \in Lists!ToSet(program) : Execute(n) => Kept(n)
    BY <1>1
  <1> QED
    BY <1>2, FlowInvariance, PTL DEF OnlyOutputsChange, Spec

\* The order in which the map of an assign node is iterated never shows.
THEOREM OrderIsMoot == Spec => []AssignOrderIsMoot
  <1>1. FlowInv => AssignOrderIsMoot
    <2> SUFFICES ASSUME FlowInv, NEW n \in Lists!ToSet(program), n.type = "ASSIGN",
                        NEW order \in Orders(n.templates)
                 PROVE  ExecuteAssign([n EXCEPT !.templates = order], context)
                          = ExecuteAssign(n, context)
      BY DEF AssignOrderIsMoot
    <2> DEFINE m == [n EXCEPT !.templates = order]
               fields == n.templates
    <2>1. IsNode(n) /\ IsContext(context)
      BY FlowAssumption DEF FlowInv, IsProgram
    <2>2. m.templates = order
      BY <2>1 DEF IsNode
    <2> HIDE DEF m
    <2>3. DOMAIN fields = 1..Len(fields) /\ Len(fields) \in Nat
      BY <2>1 DEF IsNode
    <2>4. /\ DOMAIN order = 1..Len(order) /\ Len(order) \in Nat
          /\ \A i \in DOMAIN order : \E j \in DOMAIN fields : order[i] = fields[j]
          /\ \A j \in DOMAIN fields : \E i \in DOMAIN order : order[i] = fields[j]
      <3>1. order \in [1..Len(fields) -> Lists!ToSet(fields)]
        BY <2>3 DEF Orders
      <3>2. order \in Seq(Lists!ToSet(fields))
        BY <2>3, <3>1
      <3>3. Lists!ToSet(order) = Lists!ToSet(fields)
        BY DEF Orders
      <3>4. DOMAIN order = 1..Len(order) /\ Len(order) \in Nat
        BY <3>2
      <3> QED
        BY <3>3, <3>4 DEF Lists!ToSet
    <2>5. Unambiguous(fields) /\ Unambiguous(order)
      <3>1. Unambiguous(fields)
        BY <2>1 DEF IsNode, Unambiguous
      <3>2. ASSUME NEW i \in DOMAIN order, NEW j \in DOMAIN order, order[i].key = order[j].key
            PROVE  order[i].template = order[j].template
        <4>1. PICK k \in DOMAIN fields, l \in DOMAIN fields :
                     order[i] = fields[k] /\ order[j] = fields[l]
          BY <2>4
        <4> HIDE DEF fields
        <4> QED
          BY <3>1, <3>2, <4>1 DEF Unambiguous
      <3> QED
        BY <3>1, <3>2 DEF Unambiguous
    <2> HIDE DEF fields
    <2>6. AllRender(m, context) <=> AllRender(n, context)
      BY <2>2, <2>4 DEF AllRender, fields
    <2>7. Assigned(order, context) = Assigned(fields, context)
      <3> DEFINE a == Assigned(order, context)
                 b == Assigned(fields, context)
      <3>1. /\ DOMAIN a = DOMAIN context \cup Keys(order)
            /\ \A i \in DOMAIN order : a[order[i].key] = Rendered(order[i].template, context)
            /\ \A k \in DOMAIN context \ Keys(order) : a[k] = context[k]
            /\ a = context \/ a = [k \in DOMAIN a |-> a[k]]
        BY <2>4, <2>5, AssignedTogether
      <3>2. /\ DOMAIN b = DOMAIN context \cup Keys(fields)
            /\ \A i \in DOMAIN fields : b[fields[i].key] = Rendered(fields[i].template, context)
            /\ \A k \in DOMAIN context \ Keys(fields) : b[k] = context[k]
            /\ b = context \/ b = [k \in DOMAIN b |-> b[k]]
        BY <2>3, <2>5, AssignedTogether
      <3>3. Keys(order) = Keys(fields)
        BY <2>4 DEF Keys
      <3> HIDE DEF a, b
      <3>4. DOMAIN a = DOMAIN b
        BY <3>1, <3>2, <3>3
      <3>5. ASSUME NEW k \in DOMAIN b PROVE a[k] = b[k]
        <4>1. CASE k \in Keys(fields)
          <5>1. PICK j \in DOMAIN fields : k = fields[j].key
            BY <4>1 DEF Keys
          <5>2. PICK i \in DOMAIN order : order[i] = fields[j]
            BY <2>4
          <5>3. a[order[i].key] = Rendered(order[i].template, context)
            BY <3>1
          <5>4. b[fields[j].key] = Rendered(fields[j].template, context)
            BY <3>2
          <5> QED
            BY <5>1, <5>2, <5>3, <5>4
        <4>2. CASE k \notin Keys(fields)
          <5>1. k \in DOMAIN context \ Keys(fields) /\ k \in DOMAIN context \ Keys(order)
            BY <3>2, <3>3, <4>2
          <5> QED
            BY <3>1, <3>2, <5>1
        <4> QED
          BY <4>1, <4>2
      <3>6. context = [k \in DOMAIN context |-> context[k]]
        BY <2>1 DEF IsContext
      <3>7. a = [k \in DOMAIN a |-> a[k]] /\ b = [k \in DOMAIN b |-> b[k]]
        BY <3>1, <3>2, <3>6
      <3>8. a = b
        BY <3>4, <3>5, <3>7
      <3> QED
        BY <3>8 DEF a, b
    <2> QED
      BY <2>2, <2>6, <2>7 DEF ExecuteAssign, m, fields
  <1> QED
    BY <1>1, FlowInvariance, PTL

==============================================================================
