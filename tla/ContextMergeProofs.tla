-------------------------- MODULE ContextMergeProofs --------------------------
(***************************************************************************)
(* Merging, for every set of contexts, branches and policies and trees of  *)
(* any depth: the walk of merge_recursive computes Merge, and what a join  *)
(* promises holds.                                                         *)
(***************************************************************************)
EXTENDS MergeProperties, SequenceTheorems, WellFoundedInduction, TLAPS

\* A walk of s, merged into t: L is what it has not come to.  It comes to the
\* paths in their order and has met no conflict, and what it has come to, laid
\* over t, has made m.
Done(s, L) == DOMAIN s \ L

WalkAt(t, s, p, L, m) ==
  /\ L \subseteq DOMAIN s
  /\ \A v \in Done(s, L), l \in L : Before(v, l)
  /\ \A v \in Done(s, L) : v \notin Conflicts(t, s, p)
  /\ m = Laid(t, Part(s, Done(s, L)), p)

Walk ==
  status = "walking" =>
    /\ merged > 0 /\ IsObject(Source[Root])
    /\ WalkAt(before, Source, policy, left, main_context)

\* Between merges: the last one, and all of them, came out as Merge says.
LastMerge == Resting /\ merged > 0 => Outcome = Merge(before, Source, policy)

AllMerges ==
  IF Resting THEN Joins(base, results, policy)[merged] = Outcome
  ELSE Joins(base, results, policy)[merged - 1] = Leave(before)

Parts == /\ policy \in Policies /\ base \in Contexts
         /\ results \in Seq(Branches)

Ended == status = "merged" => merged = Len(results)

IInv == TypeOK /\ Parts /\ Walk /\ LastMerge /\ AllMerges /\ Ended

-----------------------------------------------------------------------------

\* Paths: what it is to be a prefix, and the order of the walk.

LEMMA PathIs ==
  ASSUME NEW p \in Path
  PROVE  Len(p) \in Nat /\ DOMAIN p = 1..Len(p) /\ \A i \in 1..Len(p) : p[i] \in Int
  <1>1. p \in Seq(Key) /\ Key \subseteq Int
    BY KeyAssumption DEF Path
  <1>2. Len(p) \in Nat /\ DOMAIN p = 1..Len(p)
    BY <1>1, LenProperties
  <1>3. \A i \in 1..Len(p) : p[i] \in Key
    BY <1>1, ElementOfSeq
  <1> QED
    BY <1>1, <1>2, <1>3

LEMMA SamePath ==
  ASSUME NEW p \in Path, NEW q \in Path, Len(p) = Len(q), \A i \in 1..Len(p) : p[i] = q[i]
  PROVE  p = q
  BY SeqEqual DEF Path

LEMMA RootIsPath == Root \in Path /\ Len(Root) = 0
  BY EmptySeq DEF Root, Path

LEMMA HeadIs ==
  ASSUME NEW p \in Path, NEW n \in 0..Len(p)
  PROVE  /\ SubSeq(p, 1, n) \in Path /\ Len(SubSeq(p, 1, n)) = n
         /\ \A i \in 1..n : SubSeq(p, 1, n)[i] = p[i]
  <1>1. p \in Seq(Key) /\ Len(p) \in Nat
    BY PathIs DEF Path
  <1>2. SubSeq(p, 1, n) = [i \in 1..n |-> p[i]]
    BY <1>1
  <1>3. \A i \in 1..n : p[i] \in Key
    BY <1>1, ElementOfSeq
  <1>4. SubSeq(p, 1, n) \in Seq(Key)
    BY <1>1, <1>2, <1>3, IsASeq
  <1>5. Len(SubSeq(p, 1, n)) = n
    BY <1>1, <1>2
  <1> QED
    BY <1>2, <1>4, <1>5 DEF Path

LEMMA PrefixIs ==
  ASSUME NEW p \in Path, NEW q \in Path
  PROVE  Lists!IsPrefix(p, q) <=> Len(p) <= Len(q) /\ \A i \in 1..Len(p) : p[i] = q[i]
  <1>1. Len(p) \in Nat /\ Len(q) \in Nat
    BY PathIs
  <1>2. ASSUME Len(p) <= Len(q)
        PROVE  SubSeq(p, 1, Len(p)) = SubSeq(q, 1, Len(p)) <=> \A i \in 1..Len(p) : p[i] = q[i]
    <2> DEFINE n == Len(p)
    <2>1. n \in 0..Len(p) /\ n \in 0..Len(q)
      BY <1>1, <1>2
    <2>2. /\ SubSeq(p, 1, n) \in Path /\ Len(SubSeq(p, 1, n)) = n
          /\ \A i \in 1..n : SubSeq(p, 1, n)[i] = p[i]
      BY <2>1, HeadIs
    <2>3. /\ SubSeq(q, 1, n) \in Path /\ Len(SubSeq(q, 1, n)) = n
          /\ \A i \in 1..n : SubSeq(q, 1, n)[i] = q[i]
      BY <2>1, HeadIs
    <2> HIDE DEF n
    <2>4. (\A i \in 1..n : p[i] = q[i]) => SubSeq(p, 1, n) = SubSeq(q, 1, n)
      BY <2>2, <2>3, SamePath
    <2>5. SubSeq(p, 1, n) = SubSeq(q, 1, n) => \A i \in 1..n : p[i] = q[i]
      BY <2>2, <2>3
    <2> QED
      BY <2>4, <2>5 DEF n
  <1> QED
    BY <1>2 DEF Lists!IsPrefix

LEMMA PrefixOrder ==
  ASSUME NEW p \in Path, NEW q \in Path, NEW r \in Path
  PROVE  /\ Lists!IsPrefix(p, p)
         /\ Lists!IsPrefix(p, q) /\ Lists!IsPrefix(q, r) => Lists!IsPrefix(p, r)
         /\ Lists!IsPrefix(p, q) /\ Lists!IsPrefix(q, p) => p = q
         /\ Lists!IsPrefix(p, r) /\ Lists!IsPrefix(q, r) =>
              Lists!IsPrefix(p, q) \/ Lists!IsPrefix(q, p)
  <1>1. Len(p) \in Nat /\ Len(q) \in Nat /\ Len(r) \in Nat
    BY PathIs
  <1>2. Lists!IsPrefix(p, p)
    BY <1>1, PrefixIs
  <1>3. Lists!IsPrefix(p, q) /\ Lists!IsPrefix(q, r) => Lists!IsPrefix(p, r)
    BY <1>1, PrefixIs
  <1>4. Lists!IsPrefix(p, q) /\ Lists!IsPrefix(q, p) => p = q
    BY <1>1, PrefixIs, SamePath
  <1>5. Lists!IsPrefix(p, r) /\ Lists!IsPrefix(q, r) =>
          Lists!IsPrefix(p, q) \/ Lists!IsPrefix(q, p)
    BY <1>1, PrefixIs
  <1> QED
    BY <1>2, <1>3, <1>4, <1>5

LEMMA StrictPrefixOrder ==
  ASSUME NEW p \in Path, NEW q \in Path, NEW r \in Path
  PROVE  /\ Lists!IsPrefix(p, q) <=> p = q \/ Lists!IsStrictPrefix(p, q)
         /\ ~Lists!IsStrictPrefix(p, p)
         /\ Lists!IsStrictPrefix(p, q) => ~Lists!IsPrefix(q, p)
         /\ Lists!IsStrictPrefix(p, q) /\ Lists!IsStrictPrefix(q, r) => Lists!IsStrictPrefix(p, r)
         /\ Lists!IsPrefix(p, q) /\ Lists!IsStrictPrefix(q, r) => Lists!IsStrictPrefix(p, r)
         /\ Lists!IsStrictPrefix(p, q) /\ Lists!IsPrefix(q, r) => Lists!IsStrictPrefix(p, r)
  BY PrefixOrder DEF Lists!IsStrictPrefix

\* A strict prefix is a beginning.
LEMMA StrictPrefixIs ==
  ASSUME NEW p \in Path, NEW q \in Path, Lists!IsStrictPrefix(p, q)
  PROVE  Len(p) \in 0..(Len(q) - 1) /\ p = SubSeq(q, 1, Len(p))
  <1>1. Len(p) \in Nat /\ Len(q) \in Nat
    BY PathIs
  <1>2. Len(p) <= Len(q) /\ \A i \in 1..Len(p) : p[i] = q[i]
    BY PrefixIs DEF Lists!IsStrictPrefix
  <1>3. Len(p) # Len(q)
    BY <1>2, SamePath DEF Lists!IsStrictPrefix
  <1>4. p = SubSeq(q, 1, Len(p))
    <2> DEFINE h == SubSeq(q, 1, Len(p))
    <2>1. Len(p) \in 0..Len(q)
      BY <1>1, <1>2
    <2>2. h \in Path /\ Len(h) = Len(p) /\ \A i \in 1..Len(p) : h[i] = q[i]
      BY <2>1, HeadIs
    <2> HIDE DEF h
    <2>3. p = h
      BY <1>2, <2>2, SamePath
    <2> QED
      BY <2>3 DEF h
  <1> QED
    BY <1>1, <1>2, <1>3, <1>4

LEMMA HeadIsStrictPrefix ==
  ASSUME NEW q \in Path, NEW n \in 0..(Len(q) - 1)
  PROVE  SubSeq(q, 1, n) \in Path /\ Lists!IsStrictPrefix(SubSeq(q, 1, n), q)
  <1>1. Len(q) \in Nat /\ n \in 0..Len(q)
    BY PathIs
  <1> DEFINE p == SubSeq(q, 1, n)
  <1>2. p \in Path /\ Len(p) = n /\ \A i \in 1..n : p[i] = q[i]
    BY <1>1, HeadIs
  <1> HIDE DEF p
  <1>3. Lists!IsPrefix(p, q) /\ p # q
    BY <1>1, <1>2, PrefixIs
  <1> QED
    BY <1>2, <1>3 DEF p, Lists!IsStrictPrefix

\* Two paths diverge at a key.
Diverge(p, q, i) ==
  /\ i \in 1..Len(p) /\ i \in 1..Len(q) /\ p[i] < q[i]
  /\ \A j \in 1..(i - 1) : p[j] = q[j]

LEMMA BeforeIs ==
  ASSUME NEW p \in Path, NEW q \in Path
  PROVE  Before(p, q) <=> Lists!IsStrictPrefix(p, q) \/ \E i \in Nat : Diverge(p, q, i)
  <1>1. DOMAIN p = 1..Len(p) /\ DOMAIN q = 1..Len(q) /\ Len(p) \in Nat /\ Len(q) \in Nat
    BY PathIs
  <1> QED
    BY <1>1 DEF Before, Diverge

\* The order is strict, and what is below a path that comes before another,
\* and is not above it, comes before the other too.
LEMMA BeforeOrder ==
  ASSUME NEW p \in Path, NEW q \in Path
  PROVE  ~Before(p, p) /\ (Before(p, q) => ~Before(q, p))
  <1>1. Len(p) \in Nat /\ Len(q) \in Nat
    BY PathIs
  <1>2. (\A i \in 1..Len(p) : p[i] \in Int) /\ \A i \in 1..Len(q) : q[i] \in Int
    BY PathIs
  <1>3. ~Before(p, p)
    <2>1. \A i \in Nat : ~Diverge(p, p, i)
      BY <1>2 DEF Diverge
    <2> QED
      BY <2>1, BeforeIs, StrictPrefixOrder
  <1>4. ASSUME Before(p, q), Before(q, p) PROVE FALSE
    <2>1. CASE Lists!IsStrictPrefix(p, q)
      <3>1. \A i \in 1..Len(p) : p[i] = q[i]
        BY <2>1, PrefixIs DEF Lists!IsStrictPrefix
      <3>2. ~Lists!IsStrictPrefix(q, p)
        BY <2>1, StrictPrefixOrder DEF Lists!IsStrictPrefix
      <3>3. \A i \in Nat : ~Diverge(q, p, i)
        BY <1>2, <3>1 DEF Diverge
      <3> QED
        BY <1>4, <3>2, <3>3, BeforeIs
    <2>2. CASE Lists!IsStrictPrefix(q, p)
      <3>1. \A i \in 1..Len(q) : p[i] = q[i]
        BY <2>2, PrefixIs DEF Lists!IsStrictPrefix
      <3>2. ~Lists!IsStrictPrefix(p, q)
        BY <2>2, StrictPrefixOrder DEF Lists!IsStrictPrefix
      <3>3. \A i \in Nat : ~Diverge(p, q, i)
        BY <1>2, <3>1 DEF Diverge
      <3> QED
        BY <1>4, <3>2, <3>3, BeforeIs
    <2>3. CASE ~Lists!IsStrictPrefix(p, q) /\ ~Lists!IsStrictPrefix(q, p)
      <3>1. PICK i \in Nat : Diverge(p, q, i)
        BY <1>4, <2>3, BeforeIs
      <3>2. PICK k \in Nat : Diverge(q, p, k)
        BY <1>4, <2>3, BeforeIs
      <3>3. i < k \/ i = k \/ k < i
        OBVIOUS
      <3> QED
        BY <1>2, <3>1, <3>2, <3>3 DEF Diverge
    <2> QED
      BY <2>1, <2>2, <2>3
  <1> QED
    BY <1>3, <1>4

LEMMA BelowBefore ==
  ASSUME NEW d \in Path, NEW q \in Path, NEW c \in Path,
         Before(d, c), ~Lists!IsPrefix(d, c), Lists!IsPrefix(d, q)
  PROVE  Before(q, c)
  <1>1. PICK i \in Nat : Diverge(d, c, i)
    BY BeforeIs DEF Lists!IsStrictPrefix
  <1>2. Len(d) <= Len(q) /\ \A j \in 1..Len(d) : d[j] = q[j]
    BY PrefixIs
  <1>3. Len(d) \in Nat /\ Len(q) \in Nat /\ Len(c) \in Nat
    BY PathIs
  <1>4. Diverge(q, c, i)
    BY <1>1, <1>2, <1>3 DEF Diverge
  <1> QED
    BY <1>4, BeforeIs

-----------------------------------------------------------------------------

\* Trees and their nodes.

LEMMA NodeIs ==
  ASSUME NEW v, IsNode(v)
  PROVE  /\ IsObject(v) <=> v = Obj
         /\ IsArray(v) => v.items \in Seq(Item) /\ v = Array(v.items) /\ ~IsObject(v)
  BY DEF IsNode, IsObject, IsArray, Obj

LEMMA ObjIsNode == IsNode(Obj) /\ IsObject(Obj) /\ ~IsArray(Obj)
  BY DEF IsNode, IsObject, IsArray, Obj

LEMMA ArrayIsNode ==
  ASSUME NEW items \in Seq(Item)
  PROVE  IsNode(Array(items)) /\ IsArray(Array(items)) /\ Array(items).items = items
         /\ ~IsObject(Array(items))
  BY DEF IsNode, IsArray, IsObject, Array

LEMMA TreeIs ==
  ASSUME NEW t, IsTree(t)
  PROVE  /\ t = [p \in DOMAIN t |-> t[p]]
         /\ Root \in DOMAIN t /\ DOMAIN t \subseteq Path
         /\ \A p \in DOMAIN t : IsNode(t[p])
         /\ \A p \in DOMAIN t, q \in Path :
               Lists!IsStrictPrefix(q, p) => q \in DOMAIN t /\ t[q] = Obj
  <1>1. DOMAIN t \subseteq Path
    BY DEF IsTree
  <1>2. ASSUME NEW p \in DOMAIN t, NEW q \in Path, Lists!IsStrictPrefix(q, p)
        PROVE  q \in DOMAIN t /\ t[q] = Obj
    <2>1. Len(q) \in 0..(Len(p) - 1) /\ q = SubSeq(p, 1, Len(q))
      BY <1>1, <1>2, StrictPrefixIs
    <2> QED
      BY <2>1 DEF IsTree
  <1> QED
    BY <1>2 DEF IsTree

LEMMA TreeFrom ==
  ASSUME NEW t, t = [p \in DOMAIN t |-> t[p]], Root \in DOMAIN t, DOMAIN t \subseteq Path,
         \A p \in DOMAIN t : IsNode(t[p]),
         \A p \in DOMAIN t, q \in Path :
            Lists!IsStrictPrefix(q, p) => q \in DOMAIN t /\ t[q] = Obj
  PROVE  IsTree(t)
  <1>1. \A p \in DOMAIN t : \A n \in 0..(Len(p) - 1) :
          SubSeq(p, 1, n) \in DOMAIN t /\ t[SubSeq(p, 1, n)] = Obj
    BY HeadIsStrictPrefix
  <1> QED
    BY <1>1 DEF IsTree

-----------------------------------------------------------------------------

\* Induction over the numbers, for a set instead of a predicate.
LEMMA InductiveSet ==
  ASSUME NEW S, 0 \in S, \A n \in Nat : n \in S => n + 1 \in S
  PROVE  Nat \subseteq S
  <1> SUFFICES ASSUME Nat \ S # {} PROVE FALSE
    OBVIOUS
  <1> DEFINE R == {p \in Nat \X Nat : p[1] < p[2]}
  <1>1. IsWellFoundedOn(R, Nat)
    BY NatLessThanWellFounded DEF OpToRel
  <1>2. PICK x \in Nat \ S : \A y \in Nat \ S : ~(<<y, x>> \in R)
    <2> HIDE DEF R
    <2> QED
      BY <1>1, WFMin
  <1>3. x # 0 /\ x - 1 \in Nat /\ <<x - 1, x>> \in R
    BY <1>2
  <1> QED
    BY <1>2, <1>3

\* The loop of array_merge_unique, as the arrays after each of its turns.
UniqueLoop(after, items, more, n) ==
  after = [i \in 0..n |-> IF i = 0 THEN items ELSE AddUnique(after[i-1], more[i])]

LEMMA UniqueLoopExists ==
  ASSUME NEW items, NEW more, NEW n \in Nat
  PROVE  \E after : UniqueLoop(after, items, more, n)
  <1> DEFINE S == {m \in Nat : \E after : UniqueLoop(after, items, more, m)}
  <1>1. 0 \in S
    <2> DEFINE f == [i \in 0..0 |-> items]
    <2>1. UniqueLoop(f, items, more, 0)
      BY DEF UniqueLoop
    <2> QED
      BY <2>1
  <1>2. ASSUME NEW m \in Nat, m \in S PROVE m + 1 \in S
    <2>1. PICK f : UniqueLoop(f, items, more, m)
      BY <1>2
    <2> DEFINE g == [i \in 0..(m+1) |-> IF i = 0 THEN items ELSE AddUnique(f[i-1], more[i])]
    <2>2. ASSUME NEW i \in 0..(m+1), i # 0 PROVE f[i-1] = g[i-1]
      <3>1. i - 1 \in 0..m /\ i - 1 \in 0..(m + 1)
        BY <2>2
      <3>2. f[i-1] = IF i - 1 = 0 THEN items ELSE AddUnique(f[i-1-1], more[i-1])
        BY <2>1, <3>1 DEF UniqueLoop
      <3> QED
        BY <3>1, <3>2
    <2>3. UniqueLoop(g, items, more, m + 1)
      BY <2>2 DEF UniqueLoop
    <2> HIDE DEF g
    <2> QED
      BY <2>3
  <1> HIDE DEF S
  <1>3. n \in S
    BY <1>1, <1>2, InductiveSet
  <1> QED
    BY <1>3 DEF S

HasAll(items, more) == \A i \in DOMAIN more : \E j \in DOMAIN items : items[j] = more[i]

LEMMA AddUniqueIs ==
  ASSUME NEW items \in Seq(Item), NEW x \in Item
  PROVE  /\ AddUnique(items, x) \in Seq(Item)
         /\ HasAll(AddUnique(items, x), items)
         /\ \E j \in DOMAIN AddUnique(items, x) : AddUnique(items, x)[j] = x
  <1>1. CASE \E i \in DOMAIN items : items[i] = x
    BY <1>1 DEF AddUnique, HasAll
  <1>2. CASE ~\E i \in DOMAIN items : items[i] = x
    <2> DEFINE new == Append(items, x)
    <2>1. AddUnique(items, x) = new
      BY <1>2 DEF AddUnique
    <2>2. /\ new \in Seq(Item) /\ Len(new) = Len(items) + 1 /\ Len(items) \in Nat
          /\ \A i \in 1..Len(items) : new[i] = items[i]
          /\ new[Len(items) + 1] = x
      BY AppendProperties, LenProperties
    <2> HIDE DEF new
    <2>3. DOMAIN items = 1..Len(items) /\ DOMAIN new = 1..(Len(items) + 1)
      BY <2>2, LenProperties
    <2>4. HasAll(new, items)
      BY <2>2, <2>3 DEF HasAll
    <2> QED
      BY <2>1, <2>2, <2>3, <2>4
  <1> QED
    BY <1>1, <1>2

\* Merging the items of an array keeps all of both, and adds none that is there.
LEMMA MergeUniqueIs ==
  ASSUME NEW items \in Seq(Item), NEW more \in Seq(Item)
  PROVE  /\ MergeUnique(items, more) \in Seq(Item)
         /\ HasAll(MergeUnique(items, more), items)
         /\ HasAll(MergeUnique(items, more), more)
         /\ HasAll(items, more) => MergeUnique(items, more) = items
  <1> DEFINE after == CHOOSE f : UniqueLoop(f, items, more, Len(more))
             Good(new, m) ==
               /\ new \in Seq(Item)
               /\ HasAll(new, items)
               /\ \A i \in 1..m : \E j \in DOMAIN new : new[j] = more[i]
               /\ HasAll(items, more) => new = items
  <1>1. Len(more) \in Nat /\ DOMAIN more = 1..Len(more)
    BY LenProperties
  <1>2. MergeUnique(items, more) = after[Len(more)]
    BY DEF MergeUnique, UniqueLoop
  <1>3. UniqueLoop(after, items, more, Len(more))
    BY <1>1, UniqueLoopExists
  <1> HIDE DEF after
  <1>4. \A i \in 0..Len(more) :
          after[i] = IF i = 0 THEN items ELSE AddUnique(after[i-1], more[i])
    BY <1>3 DEF UniqueLoop
  <1> DEFINE S == {m \in Nat : m <= Len(more) => Good(after[m], m)}
  <1>5. 0 \in S
    <2>1. after[0] = items
      BY <1>1, <1>4
    <2> QED
      BY <2>1 DEF HasAll
  <1>6. ASSUME NEW m \in Nat, m \in S PROVE m + 1 \in S
    <2> SUFFICES ASSUME m + 1 <= Len(more) PROVE Good(after[m+1], m + 1)
      OBVIOUS
    <2> DEFINE old == after[m]
               new == after[m+1]
               x == more[m+1]
    <2>1. Good(old, m)
      BY <1>1, <1>6
    <2>2. new = AddUnique(old, x)
      <3>1. m + 1 \in 0..Len(more) /\ m + 1 # 0 /\ m + 1 - 1 = m
        BY <1>1
      <3>2. new = AddUnique(after[m + 1 - 1], x)
        BY <1>4, <3>1
      <3> QED
        BY <3>1, <3>2
    <2>3. x \in Item /\ m + 1 \in DOMAIN more
      BY <1>1, ElementOfSeq
    <2> HIDE DEF old, new
    <2>4. /\ new \in Seq(Item) /\ HasAll(new, old)
          /\ \E j \in DOMAIN new : new[j] = x
      <3> HIDE DEF x
      <3> QED
        BY <2>1, <2>2, <2>3, AddUniqueIs
    <2>5. HasAll(new, items)
      BY <2>1, <2>4 DEF HasAll
    <2>6. \A i \in 1..(m+1) : \E j \in DOMAIN new : new[j] = more[i]
      <3>1. ASSUME NEW i \in 1..m PROVE \E j \in DOMAIN new : new[j] = more[i]
        <4>1. PICK k \in DOMAIN old : old[k] = more[i]
          BY <2>1
        <4> QED
          BY <2>4, <4>1 DEF HasAll
      <3>2. \A i \in 1..(m+1) : i \in 1..m \/ i = m + 1
        OBVIOUS
      <3> QED
        BY <2>4, <3>1, <3>2 DEF x
    <2>7. HasAll(items, more) => new = items
      <3> SUFFICES ASSUME HasAll(items, more) PROVE new = items
        OBVIOUS
      <3>1. old = items
        BY <2>1
      <3>2. \E j \in DOMAIN items : items[j] = x
        BY <2>3 DEF HasAll
      <3> QED
        BY <2>2, <3>1, <3>2 DEF AddUnique
    <2> QED
      BY <2>4, <2>5, <2>6, <2>7 DEF new
  <1> HIDE DEF S
  <1>7. Len(more) \in S
    BY <1>1, <1>5, <1>6, InductiveSet
  <1>8. Good(after[Len(more)], Len(more))
    BY <1>1, <1>7 DEF S
  <1> QED
    BY <1>1, <1>2, <1>8 DEF HasAll

-----------------------------------------------------------------------------

\* Merging one value.

\* v still holds what u held: the same, or an array with all the items.
Kept(v, u) == IF IsArray(u) THEN IsArray(v) /\ HasAll(v.items, u.items) ELSE v = u

LEMMA KeptOrder ==
  ASSUME NEW u, NEW v, NEW w
  PROVE  Kept(u, u) /\ (Kept(w, v) /\ Kept(v, u) => Kept(w, u))
  <1>1. Kept(u, u)
    BY DEF Kept, HasAll
  <1>2. ASSUME Kept(w, v), Kept(v, u) PROVE Kept(w, u)
    <2>1. CASE ~IsArray(u)
      BY <1>2, <2>1 DEF Kept
    <2>2. CASE IsArray(u)
      <3>1. IsArray(v) /\ HasAll(v.items, u.items) /\ IsArray(w) /\ HasAll(w.items, v.items)
        BY <1>2, <2>2 DEF Kept
      <3>2. HasAll(w.items, u.items)
        BY <3>1 DEF HasAll
      <3> QED
        BY <2>2, <3>1, <3>2 DEF Kept
    <2> QED
      BY <2>1, <2>2
  <1> QED
    BY <1>1, <1>2

LEMMA OutcomeIs ==
  ASSUME NEW v
  PROVE  /\ Leave(v).ok = TRUE /\ Leave(v).value = v
         /\ Throw(v).ok = FALSE /\ Throw(v).value = v
  BY DEF Leave, Throw

\* Two arrays.
LEMMA ArraysMerged ==
  ASSUME NEW a \in Seq(Item), NEW b \in Seq(Item), NEW strategy \in Strategy
  PROVE  LET r == MergeValue(Array(a), Array(b), strategy) IN
         /\ strategy = "array_concat" => r = Leave(Array(a \o b))
         /\ strategy = "array_merge_unique" => r = Leave(Array(MergeUnique(a, b)))
         /\ Overwrites(strategy) => r = Leave(Array(b))
         /\ strategy = "error_on_conflict" => r = Throw(Array(a))
  <1>1. MergeValue(Array(a), Array(b), strategy) = MergeArray(Array(a), Array(b), strategy)
    BY ArrayIsNode DEF MergeValue
  <1>2. Array(a).items = a /\ Array(b).items = b
    BY ArrayIsNode
  <1> QED
    BY <1>1, <1>2 DEF MergeArray, Overwrites

\* Anything but two objects or two arrays.
LEMMA ScalarsMerged ==
  ASSUME NEW t, NEW s, NEW strategy \in Strategy,
         ~(IsObject(t) /\ IsObject(s)), ~(IsArray(t) /\ IsArray(s))
  PROVE  LET r == MergeValue(t, s, strategy) IN
         /\ Overwrites(strategy) => r = Leave(s)
         /\ ~Overwrites(strategy) => r = IF t = s THEN Leave(t) ELSE Throw(t)
  BY DEF MergeValue, MergeScalar

LEMMA ObjectsMerged ==
  ASSUME NEW strategy
  PROVE  MergeValue(Obj, Obj, strategy) = Leave(Obj)
  BY ObjIsNode DEF MergeValue

\* The three cases of two values.
LEMMA TwoNodes ==
  ASSUME NEW t, NEW s, IsNode(t), IsNode(s)
  PROVE  \/ t = Obj /\ s = Obj
         \/ /\ IsArray(t) /\ IsArray(s)
            /\ t.items \in Seq(Item) /\ t = Array(t.items)
            /\ s.items \in Seq(Item) /\ s = Array(s.items)
         \/ ~(IsObject(t) /\ IsObject(s)) /\ ~(IsArray(t) /\ IsArray(s))
  BY NodeIs

LEMMA MergeValueIs ==
  ASSUME NEW t, NEW s, IsNode(t), IsNode(s), NEW strategy \in Strategy
  PROVE  LET r == MergeValue(t, s, strategy) IN
         /\ r.ok \in BOOLEAN
         /\ IsNode(r.value)
         /\ r.ok /\ s = Obj => r.value = Obj
         /\ Overwrites(strategy) => r.ok /\ r.value = s
         /\ r.ok /\ ~Overwrites(strategy) => Kept(r.value, t) /\ Kept(r.value, s)
         /\ strategy = "error_on_conflict" =>
              /\ r.ok <=> t = s /\ ~IsArray(t)
              /\ r.ok => r.value = t
  <1> DEFINE r == MergeValue(t, s, strategy)
             Good ==
               /\ r.ok \in BOOLEAN
               /\ IsNode(r.value)
               /\ r.ok /\ s = Obj => r.value = Obj
               /\ Overwrites(strategy) => r.ok /\ r.value = s
               /\ r.ok /\ ~Overwrites(strategy) => Kept(r.value, t) /\ Kept(r.value, s)
               /\ strategy = "error_on_conflict" =>
                    /\ r.ok <=> t = s /\ ~IsArray(t)
                    /\ r.ok => r.value = t
  <1> SUFFICES Good
    OBVIOUS
  <1>1. CASE t = Obj /\ s = Obj
    <2>1. r.ok = TRUE /\ r.value = Obj
      BY <1>1, ObjectsMerged, OutcomeIs
    <2> HIDE DEF r
    <2> QED
      BY <1>1, <2>1, ObjIsNode DEF Kept
  <1>2. ASSUME NEW a \in Seq(Item), NEW b \in Seq(Item), t = Array(a), s = Array(b)
        PROVE  Good
    <2>1. /\ strategy = "array_concat" => r = Leave(Array(a \o b))
          /\ strategy = "array_merge_unique" => r = Leave(Array(MergeUnique(a, b)))
          /\ Overwrites(strategy) => r = Leave(Array(b))
          /\ strategy = "error_on_conflict" => r = Throw(Array(a))
      BY <1>2, ArraysMerged
    <2>2. \/ strategy \in {"array_concat", "array_merge_unique"} \/ Overwrites(strategy)
          \/ strategy = "error_on_conflict"
      BY DEF Strategy, Overwrites
    <2>3. IsArray(t) /\ IsArray(s) /\ t # Obj /\ s # Obj
      BY <1>2, ArrayIsNode, ObjIsNode
    <2> HIDE DEF r
    <2>4. CASE Overwrites(strategy)
      <3>1. r.ok = TRUE /\ r.value = s
        BY <1>2, <2>1, <2>4, OutcomeIs
      <3> QED
        BY <2>3, <2>4, <3>1 DEF Overwrites
    <2>5. CASE strategy = "error_on_conflict"
      <3>1. r.ok = FALSE /\ r.value = t
        BY <1>2, <2>1, <2>5, OutcomeIs
      <3> QED
        BY <2>3, <2>5, <3>1 DEF Overwrites
    <2>6. ASSUME NEW c \in Seq(Item), r = Leave(Array(c)), HasAll(c, a), HasAll(c, b),
                 strategy \in {"array_concat", "array_merge_unique"}
          PROVE  r.ok = TRUE /\ IsNode(r.value) /\ Kept(r.value, t) /\ Kept(r.value, s)
      <3>1. r.ok = TRUE /\ r.value = Array(c)
        BY <2>6, OutcomeIs
      <3>2. IsNode(Array(c)) /\ IsArray(Array(c)) /\ Array(c).items = c
        BY ArrayIsNode
      <3>3. t.items = a /\ s.items = b
        BY <1>2, ArrayIsNode
      <3> QED
        BY <2>3, <2>6, <3>1, <3>2, <3>3 DEF Kept
    <2>7. CASE strategy = "array_concat"
      <3>1. /\ a \o b \in Seq(Item) /\ Len(a \o b) = Len(a) + Len(b)
            /\ Len(a) \in Nat /\ Len(b) \in Nat
            /\ \A i \in 1..(Len(a) + Len(b)) :
                  (a \o b)[i] = IF i <= Len(a) THEN a[i] ELSE b[i - Len(a)]
        BY ConcatProperties, LenProperties
      <3>2. /\ DOMAIN (a \o b) = 1..(Len(a) + Len(b))
            /\ DOMAIN a = 1..Len(a) /\ DOMAIN b = 1..Len(b)
        BY <3>1, LenProperties
      <3>3. HasAll(a \o b, a)
        BY <3>1, <3>2 DEF HasAll
      <3>4. HasAll(a \o b, b)
        <4>1. ASSUME NEW i \in DOMAIN b
              PROVE  /\ Len(a) + i \in DOMAIN (a \o b)
                     /\ (a \o b)[Len(a) + i] = b[i]
          <5>1. i \in Nat /\ 1 <= i /\ i <= Len(b) /\ ~(Len(a) + i <= Len(a))
                /\ Len(a) + i - Len(a) = i /\ Len(a) + i \in 1..(Len(a) + Len(b))
            BY <3>1, <3>2
          <5> QED
            BY <3>1, <3>2, <5>1
        <4> QED
          BY <4>1 DEF HasAll
      <3>5. r.ok = TRUE /\ IsNode(r.value) /\ Kept(r.value, t) /\ Kept(r.value, s)
        BY <2>1, <2>6, <2>7, <3>1, <3>3, <3>4
      <3> QED
        BY <2>3, <2>7, <3>5 DEF Overwrites
    <2>8. CASE strategy = "array_merge_unique"
      <3>1. r.ok = TRUE /\ IsNode(r.value) /\ Kept(r.value, t) /\ Kept(r.value, s)
        BY <2>1, <2>6, <2>8, MergeUniqueIs
      <3> QED
        BY <2>3, <2>8, <3>1 DEF Overwrites
    <2> QED
      BY <2>2, <2>4, <2>5, <2>7, <2>8
  <1>3. CASE ~(IsObject(t) /\ IsObject(s)) /\ ~(IsArray(t) /\ IsArray(s))
    <2>1. /\ Overwrites(strategy) => r = Leave(s)
          /\ ~Overwrites(strategy) => r = IF t = s THEN Leave(t) ELSE Throw(t)
      BY <1>3, ScalarsMerged
    <2> HIDE DEF r
    <2>2. CASE Overwrites(strategy)
      <3>1. r.ok = TRUE /\ r.value = s
        BY <2>1, <2>2, OutcomeIs
      <3> QED
        BY <2>2, <3>1 DEF Overwrites
    <2>3. CASE ~Overwrites(strategy) /\ t = s
      <3>1. r.ok = TRUE /\ r.value = s
        BY <2>1, <2>3, OutcomeIs
      <3>2. Kept(r.value, t) /\ Kept(r.value, s)
        BY <2>3, <3>1, KeptOrder
      <3>3. ~IsArray(t)
        BY <1>3, <2>3
      <3> QED
        BY <2>3, <3>1, <3>2, <3>3
    <2>4. CASE ~Overwrites(strategy) /\ t # s
      <3>1. r.ok = FALSE /\ r.value = t
        BY <2>1, <2>4, OutcomeIs
      <3> QED
        BY <2>4, <3>1
    <2> QED
      BY <2>2, <2>3, <2>4
  <1> HIDE DEF Good
  <1>4. \/ t = Obj /\ s = Obj
        \/ \E a \in Seq(Item), b \in Seq(Item) : t = Array(a) /\ s = Array(b)
        \/ ~(IsObject(t) /\ IsObject(s)) /\ ~(IsArray(t) /\ IsArray(s))
    BY TwoNodes
  <1>5. CASE \E a \in Seq(Item), b \in Seq(Item) : t = Array(a) /\ s = Array(b)
    BY <1>2, <1>5
  <1> QED
    BY <1>1, <1>3, <1>4, <1>5

\* Merging a value again changes nothing more, and throws only where it threw
\* before or arrays refuse to be merged.
LEMMA MergeValueAgain ==
  ASSUME NEW t, NEW s, IsNode(t), IsNode(s), NEW strategy \in Strategy \ {"array_concat"}
  PROVE  LET r == MergeValue(t, s, strategy)
             again == MergeValue(r.value, s, strategy)
         IN /\ again.value = r.value
            /\ r.ok /\ strategy # "error_on_conflict" => again.ok
  <1> DEFINE r == MergeValue(t, s, strategy)
             again == MergeValue(r.value, s, strategy)
             Good == /\ again.value = r.value
                     /\ r.ok /\ strategy # "error_on_conflict" => again.ok
  <1> SUFFICES Good
    OBVIOUS
  <1>1. CASE t = Obj /\ s = Obj
    <2>1. r = Leave(Obj)
      BY <1>1, ObjectsMerged
    <2>2. again = Leave(Obj)
      <3> HIDE DEF r
      <3>1. r.value = Obj
        BY <2>1, OutcomeIs
      <3> QED
        BY <1>1, <3>1, ObjectsMerged
    <2> HIDE DEF r, again
    <2> QED
      BY <2>1, <2>2, OutcomeIs
  <1>2. ASSUME NEW a \in Seq(Item), NEW b \in Seq(Item), t = Array(a), s = Array(b)
        PROVE  Good
    <2>1. CASE strategy = "array_merge_unique"
      <3> DEFINE c == MergeUnique(a, b)
      <3>1. c \in Seq(Item) /\ HasAll(c, b)
        BY MergeUniqueIs
      <3>2. r.value = Array(c)
        BY <1>2, <2>1, ArraysMerged, OutcomeIs
      <3> HIDE DEF c, r
      <3>3. MergeUnique(c, b) = c
        BY <3>1, MergeUniqueIs
      <3>4. MergeValue(Array(c), Array(b), strategy) = Leave(Array(MergeUnique(c, b)))
        BY <2>1, <3>1, ArraysMerged
      <3>5. again = Leave(Array(c))
        BY <1>2, <3>2, <3>3, <3>4
      <3> HIDE DEF again
      <3> QED
        BY <3>2, <3>5, OutcomeIs
    <2>2. CASE Overwrites(strategy)
      <3>1. r.value = Array(b)
        BY <1>2, <2>2, ArraysMerged, OutcomeIs
      <3>2. MergeValue(Array(b), Array(b), strategy) = Leave(Array(b))
        BY <2>2, ArraysMerged
      <3> HIDE DEF r
      <3>3. again = Leave(Array(b))
        BY <1>2, <3>1, <3>2
      <3> HIDE DEF again
      <3> QED
        BY <3>1, <3>3, OutcomeIs
    <2>3. CASE strategy = "error_on_conflict"
      <3>1. r.value = Array(a)
        BY <1>2, <2>3, ArraysMerged, OutcomeIs
      <3>2. MergeValue(Array(a), Array(b), strategy) = Throw(Array(a))
        BY <2>3, ArraysMerged
      <3> HIDE DEF r
      <3>3. again = Throw(Array(a))
        BY <1>2, <3>1, <3>2
      <3> HIDE DEF again
      <3> QED
        BY <2>3, <3>1, <3>3, OutcomeIs
    <2> QED
      BY <2>1, <2>2, <2>3 DEF Strategy, Overwrites
  <1>3. CASE ~(IsObject(t) /\ IsObject(s)) /\ ~(IsArray(t) /\ IsArray(s))
    <2>1. /\ Overwrites(strategy) => r = Leave(s)
          /\ ~Overwrites(strategy) => r = IF t = s THEN Leave(t) ELSE Throw(t)
      BY <1>3, ScalarsMerged
    <2> HIDE DEF r
    <2>2. CASE Overwrites(strategy)
      <3>1. r.value = s
        BY <2>1, <2>2, OutcomeIs
      <3>2. MergeValue(s, s, strategy).ok /\ MergeValue(s, s, strategy).value = s
        BY <2>2, MergeValueIs
      <3> QED
        BY <3>1, <3>2
    <2>3. CASE ~Overwrites(strategy)
      <3>1. r.value = t
        BY <2>1, <2>3, OutcomeIs
      <3> QED
        BY <3>1 DEF r
    <2> QED
      BY <2>2, <2>3
  <1> HIDE DEF Good
  <1>4. \/ t = Obj /\ s = Obj
        \/ \E a \in Seq(Item), b \in Seq(Item) : t = Array(a) /\ s = Array(b)
        \/ ~(IsObject(t) /\ IsObject(s)) /\ ~(IsArray(t) /\ IsArray(s))
    BY TwoNodes
  <1>5. CASE \E a \in Seq(Item), b \in Seq(Item) : t = Array(a) /\ s = Array(b)
    BY <1>2, <1>5
  <1> QED
    BY <1>1, <1>3, <1>4, <1>5

\* A value merged into itself.
LEMMA SelfMerge ==
  ASSUME NEW s, IsNode(s), NEW strategy \in Strategy \ {"array_concat"}
  PROVE  LET r == MergeValue(s, s, strategy)
         IN r.value = s /\ (strategy # "error_on_conflict" => r.ok)
  <1> DEFINE r == MergeValue(s, s, strategy)
  <1> SUFFICES r.value = s /\ (strategy # "error_on_conflict" => r.ok)
    OBVIOUS
  <1>1. CASE s = Obj
    <2>1. r = Leave(Obj)
      BY <1>1, ObjectsMerged
    <2> HIDE DEF r
    <2> QED
      BY <1>1, <2>1, OutcomeIs
  <1>2. ASSUME NEW a \in Seq(Item), s = Array(a)
        PROVE  r.value = s /\ (strategy # "error_on_conflict" => r.ok)
    <2>1. HasAll(a, a)
      BY DEF HasAll
    <2>2. MergeUnique(a, a) = a
      BY <2>1, MergeUniqueIs
    <2>3. /\ strategy = "array_merge_unique" => r = Leave(Array(MergeUnique(a, a)))
          /\ Overwrites(strategy) => r = Leave(Array(a))
          /\ strategy = "error_on_conflict" => r = Throw(Array(a))
      BY <1>2, ArraysMerged
    <2>4. \/ strategy = "array_merge_unique" \/ Overwrites(strategy)
          \/ strategy = "error_on_conflict"
      BY DEF Strategy, Overwrites
    <2> HIDE DEF r
    <2> QED
      BY <1>2, <2>2, <2>3, <2>4, OutcomeIs
  <1>3. CASE ~IsObject(s) /\ ~IsArray(s)
    <2>1. r = Leave(s)
      BY <1>3, ScalarsMerged
    <2> HIDE DEF r
    <2> QED
      BY <2>1, OutcomeIs
  <1>4. s = Obj \/ (\E a \in Seq(Item) : s = Array(a)) \/ (~IsObject(s) /\ ~IsArray(s))
    BY DEF IsNode
  <1> HIDE DEF r
  <1> QED
    BY <1>1, <1>2, <1>3, <1>4 DEF r

-----------------------------------------------------------------------------

\* Policies.

LEMMA PolicyIs ==
  ASSUME NEW p, IsPolicy(p)
  PROVE  /\ p.default \in Strategy
         /\ \A path \in DOMAIN p.exact : p.exact[path] \in Strategy
         /\ DOMAIN p.wild = 1..Len(p.wild) /\ Len(p.wild) \in Nat
         /\ \A i \in DOMAIN p.wild : p.wild[i].prefix \in Path /\ p.wild[i].strategy \in Strategy
  <1>1. p.wild \in Seq(Pattern)
    BY DEF IsPolicy
  <1>2. \A i \in DOMAIN p.wild : p.wild[i] \in Pattern
    BY <1>1, LenProperties, ElementOfSeq
  <1>3. DOMAIN p.wild = 1..Len(p.wild) /\ Len(p.wild) \in Nat
    BY <1>1, LenProperties
  <1> QED
    BY <1>2, <1>3 DEF IsPolicy, Pattern

\* The first of the patterns that match.
LEMMA FirstMatching ==
  ASSUME NEW p, IsPolicy(p), NEW path, Matching(path, p) # {}
  PROVE  LET first == CHOOSE i \in Matching(path, p) : \A j \in Matching(path, p) : i <= j
         IN first \in Matching(path, p) /\ first \in DOMAIN p.wild
  <1> DEFINE M == Matching(path, p)
  <1>1. M \subseteq Nat
    BY PolicyIs DEF Matching
  <1>2. PICK x \in M : \A y \in M : x <= y
    <2> DEFINE R == {k \in Nat \X Nat : k[1] < k[2]}
    <2>1. IsWellFoundedOn(R, Nat)
      BY NatLessThanWellFounded DEF OpToRel
    <2> HIDE DEF M
    <2>2. PICK x \in M : \A y \in M : ~(<<y, x>> \in R)
      <3> HIDE DEF R
      <3>1. M # {}
        BY DEF M
      <3> QED
        BY <1>1, <2>1, <3>1, WFMin
    <2>3. \A y \in M : ~(y < x)
      BY <1>1, <2>2
    <2> HIDE DEF M, R
    <2> QED
      BY <1>1, <2>3
  <1>3. M \subseteq DOMAIN p.wild
    BY DEF Matching
  <1> HIDE DEF M
  <1>4. (CHOOSE i \in M : \A j \in M : i <= j) \in M
    BY <1>2
  <1> QED
    BY <1>3, <1>4 DEF M

AllStrategies(p) ==
  {p.default} \cup {p.exact[path] : path \in DOMAIN p.exact}
    \cup {p.wild[i].strategy : i \in DOMAIN p.wild}

LEMMA StrategyForIs ==
  ASSUME NEW p, IsPolicy(p), NEW path
  PROVE  StrategyFor(path, p) \in AllStrategies(p) /\ StrategyFor(path, p) \in Strategy
  <1>1. CASE path \in DOMAIN p.exact
    BY <1>1, PolicyIs DEF StrategyFor, AllStrategies
  <1>2. CASE path \notin DOMAIN p.exact /\ Matching(path, p) # {}
    <2> DEFINE first == CHOOSE i \in Matching(path, p) : \A j \in Matching(path, p) : i <= j
    <2>1. first \in DOMAIN p.wild
      BY <1>2, FirstMatching
    <2>2. StrategyFor(path, p) = p.wild[first].strategy
      BY <1>2 DEF StrategyFor
    <2> HIDE DEF first
    <2> QED
      BY <2>1, <2>2, PolicyIs DEF AllStrategies
  <1>3. CASE path \notin DOMAIN p.exact /\ Matching(path, p) = {}
    BY <1>3, PolicyIs DEF StrategyFor, AllStrategies
  <1> QED
    BY <1>1, <1>2, <1>3

-----------------------------------------------------------------------------

\* Laying one tree over another.

IsMap(m) == m = [q \in DOMAIN m |-> m[q]]

IsLaid(m, t, s, D, p) ==
  /\ IsMap(m)
  /\ DOMAIN m = D \cup {q \in DOMAIN t : Spared(q, Part(s, D))}
  /\ \A q \in D : m[q] = IF q \in DOMAIN t
                          THEN MergeValue(t[q], s[q], StrategyFor(q, p)).value
                          ELSE s[q]
  /\ \A q \in DOMAIN t : Spared(q, Part(s, D)) => m[q] = t[q]

LEMMA LaidIs ==
  ASSUME NEW t, NEW s, NEW D, NEW p
  PROVE  IsLaid(Laid(t, Part(s, D), p), t, s, D, p)
  BY DEF Laid, Part, Spared, IsMap, IsLaid

LEMMA SparedIs ==
  ASSUME NEW q, NEW s, NEW D
  PROVE  Spared(q, Part(s, D)) <=>
           q \notin D /\ \A x \in D : Lists!IsStrictPrefix(x, q) => IsObject(s[x])
  BY DEF Spared, Part

\* A part of a tree that holds, with a path, what is above it.
Upper(D, s) ==
  /\ D \subseteq DOMAIN s
  /\ \A q \in D, r \in DOMAIN s : Lists!IsStrictPrefix(r, q) => r \in D

LEMMA LaidNothing ==
  ASSUME NEW t, IsTree(t), NEW s, NEW p
  PROVE  Laid(t, Part(s, {}), p) = t
  <1> DEFINE m == Laid(t, Part(s, {}), p)
  <1>1. \A q : Spared(q, Part(s, {}))
    BY SparedIs
  <1>2. DOMAIN m = DOMAIN t /\ IsMap(m) /\ \A q \in DOMAIN t : m[q] = t[q]
    <2>1. IsLaid(m, t, s, {}, p)
      BY LaidIs
    <2> HIDE DEF m
    <2> QED
      BY <1>1, <2>1 DEF IsLaid
  <1>3. t = [q \in DOMAIN t |-> t[q]]
    BY TreeIs
  <1> HIDE DEF m
  <1>4. m = t
    BY <1>2, <1>3 DEF IsMap
  <1> QED
    BY <1>4 DEF m

\* Where nothing laid conflicts, the objects above a path that stays are there.
LEMMA LaidObject ==
  ASSUME NEW t, IsTree(t), NEW s, IsTree(s), NEW p, IsPolicy(p),
         NEW D, Upper(D, s), \A q \in D : q \notin Conflicts(t, s, p),
         NEW q \in D, s[q] = Obj
  PROVE  Laid(t, Part(s, D), p)[q] = Obj
  <1> DEFINE m == Laid(t, Part(s, D), p)
  <1>0. IsLaid(m, t, s, D, p)
    BY LaidIs
  <1> SUFFICES m[q] = Obj
    OBVIOUS
  <1> HIDE DEF m
  <1>1. m[q] = IF q \in DOMAIN t THEN MergeValue(t[q], s[q], StrategyFor(q, p)).value ELSE s[q]
    BY <1>0 DEF IsLaid
  <1>2. CASE q \in DOMAIN t
    <2>1. q \in DOMAIN s /\ IsNode(t[q]) /\ IsNode(s[q]) /\ StrategyFor(q, p) \in Strategy
      BY <1>2, TreeIs, StrategyForIs DEF Upper
    <2>2. MergeValue(t[q], s[q], StrategyFor(q, p)).ok
      BY <1>2, <2>1 DEF Conflicts
    <2> QED
      BY <1>1, <1>2, <2>1, <2>2, MergeValueIs
  <1> QED
    BY <1>1, <1>2

LEMMA LaidTree ==
  ASSUME NEW t, IsTree(t), NEW s, IsTree(s), NEW p, IsPolicy(p),
         NEW D, Upper(D, s), \A q \in D : q \notin Conflicts(t, s, p)
  PROVE  IsTree(Laid(t, Part(s, D), p))
  <1> DEFINE m == Laid(t, Part(s, D), p)
  <1>0. IsLaid(m, t, s, D, p)
    BY LaidIs
  <1>2. \A q \in D : s[q] = Obj => m[q] = Obj
    BY LaidObject
  <1> HIDE DEF m
  <1>1. /\ IsMap(m)
        /\ DOMAIN m = D \cup {q \in DOMAIN t : Spared(q, Part(s, D))}
        /\ \A q \in D : m[q] = IF q \in DOMAIN t
                                THEN MergeValue(t[q], s[q], StrategyFor(q, p)).value
                                ELSE s[q]
        /\ \A q \in DOMAIN t : Spared(q, Part(s, D)) => m[q] = t[q]
    BY <1>0 DEF IsLaid
  <1>3. D \subseteq DOMAIN s /\ DOMAIN s \subseteq Path /\ DOMAIN t \subseteq Path
    BY TreeIs DEF Upper
  <1>4. Root \in DOMAIN m
    <2>1. \A x \in Path : ~Lists!IsStrictPrefix(x, Root)
      BY RootIsPath, StrictPrefixIs
    <2>2. Root \in DOMAIN t
      BY TreeIs
    <2>3. Root \in D \/ Spared(Root, Part(s, D))
      BY <1>3, <2>1, SparedIs
    <2> QED
      BY <1>1, <2>2, <2>3
  <1>5. DOMAIN m \subseteq Path
    BY <1>1, <1>3
  <1>6. ASSUME NEW q \in DOMAIN m PROVE IsNode(m[q])
    <2>1. CASE q \in D /\ q \in DOMAIN t
      <3> DEFINE strategy == StrategyFor(q, p)
      <3>1. IsNode(t[q]) /\ IsNode(s[q]) /\ strategy \in Strategy
        BY <1>3, <2>1, TreeIs, StrategyForIs
      <3>2. m[q] = MergeValue(t[q], s[q], strategy).value
        BY <1>1, <2>1
      <3> HIDE DEF strategy
      <3>3. IsNode(MergeValue(t[q], s[q], strategy).value)
        BY <3>1, MergeValueIs
      <3> QED
        BY <3>2, <3>3
    <2>2. CASE q \in D /\ q \notin DOMAIN t
      BY <1>1, <1>3, <2>2, TreeIs
    <2>3. CASE q \notin D
      BY <1>1, <2>3, TreeIs
    <2> QED
      BY <2>1, <2>2, <2>3
  <1>7. ASSUME NEW q \in DOMAIN m, NEW r \in Path, Lists!IsStrictPrefix(r, q)
        PROVE  r \in DOMAIN m /\ m[r] = Obj
    <2>1. CASE q \in D
      <3>1. r \in DOMAIN s /\ s[r] = Obj
        BY <1>3, <1>7, <2>1, TreeIs
      <3>2. r \in D
        BY <1>7, <2>1, <3>1 DEF Upper
      <3> QED
        BY <1>1, <1>2, <3>1, <3>2
    <2>2. CASE q \notin D
      <3>1. q \in DOMAIN t /\ Spared(q, Part(s, D))
        BY <1>1, <2>2
      <3>2. r \in DOMAIN t /\ t[r] = Obj
        BY <1>7, <3>1, TreeIs
      <3>3. CASE r \in D
        <4>1. IsObject(s[r]) /\ IsNode(s[r])
          BY <1>3, <1>7, <3>1, <3>3, SparedIs, TreeIs
        <4> QED
          BY <1>1, <1>2, <3>3, <4>1, NodeIs
      <3>4. CASE r \notin D
        <4>1. \A x \in D : Lists!IsStrictPrefix(x, r) => Lists!IsStrictPrefix(x, q)
          BY <1>3, <1>5, <1>7, StrictPrefixOrder
        <4>2. Spared(r, Part(s, D))
          BY <3>1, <3>4, <4>1, SparedIs
        <4> QED
          BY <1>1, <3>2, <4>2
      <3> QED
        BY <3>3, <3>4
    <2> QED
      BY <2>1, <2>2
  <1>8. IsTree(m)
    BY <1>1, <1>4, <1>5, <1>6, <1>7, TreeFrom DEF IsMap
  <1> QED
    BY <1>8 DEF m

-----------------------------------------------------------------------------

\* A turn of the walk.

\* What the walk has not come to is as the merge found it.
LEMMA LeftUntouched ==
  ASSUME NEW t, IsTree(t), NEW s, IsTree(s), NEW p, NEW L, L \subseteq DOMAIN s,
         NEW m, IsLaid(m, t, s, Done(s, L), p), NEW x \in L
  PROVE  /\ x \in DOMAIN m <=> x \in DOMAIN t
         /\ x \in DOMAIN t => m[x] = t[x]
  <1>1. DOMAIN s \subseteq Path
    BY TreeIs
  <1>2. x \notin Done(s, L)
    BY DEF Done
  <1>3. \A y \in Done(s, L) : Lists!IsStrictPrefix(y, x) => IsObject(s[y])
    BY <1>1, TreeIs, ObjIsNode DEF Done
  <1>4. Spared(x, Part(s, Done(s, L)))
    BY <1>2, <1>3, SparedIs
  <1> QED
    BY <1>2, <1>4 DEF IsLaid

\* The paths the walk has come to hold, with a path, what is above it.
LEMMA DoneIsUpper ==
  ASSUME NEW s, IsTree(s), NEW L, L \subseteq DOMAIN s,
         \A v \in Done(s, L), l \in L : Before(v, l)
  PROVE  Upper(Done(s, L), s)
  <1>1. DOMAIN s \subseteq Path
    BY TreeIs
  <1>2. ASSUME NEW q \in Done(s, L), NEW r \in DOMAIN s, Lists!IsStrictPrefix(r, q), r \in L
        PROVE  FALSE
    <2>1. Before(q, r) /\ Before(r, q) /\ q \in Path /\ r \in Path
      BY <1>1, <1>2 DEF Done, Before
    <2> QED
      BY <2>1, BeforeOrder
  <1> QED
    BY <1>2 DEF Upper, Done

Rest(L, x) == {q \in L : ~Lists!IsPrefix(x, q)}

\* A field is taken whole, with all that is below it: AddField and MergeField.
LEMMA TakenWhole ==
  ASSUME NEW t, IsTree(t), NEW s, IsTree(s), NEW p, NEW L, L \subseteq DOMAIN s,
         NEW m, IsLaid(m, t, s, Done(s, L), p), NEW x \in L, NEW v,
         ~(x \in DOMAIN t /\ t[x] = Obj /\ s[x] = Obj),
         v = IF x \in DOMAIN t THEN MergeValue(t[x], s[x], StrategyFor(x, p)).value ELSE s[x]
  PROVE  Assign(m, x, v, s) = Laid(t, Part(s, Done(s, Rest(L, x))), p)
  <1> DEFINE D == Done(s, L)
             E == Done(s, Rest(L, x))
             m2 == Assign(m, x, v, s)
             n == Laid(t, Part(s, E), p)
  <1>1. DOMAIN s \subseteq Path /\ DOMAIN t \subseteq Path /\ x \in Path /\ x \in DOMAIN s
    BY TreeIs
  <1>2. \A q \in Path : q \in E <=> q \in D \/ (q \in DOMAIN s /\ Lists!IsPrefix(x, q))
    BY DEF Done, Rest
  <1>3. D \subseteq DOMAIN s /\ E \subseteq DOMAIN s /\ x \notin D
    BY DEF Done
  <1>4. Lists!IsPrefix(x, x)
    BY <1>1, PrefixOrder
  <1>5. \A q \in Path : Lists!IsPrefix(x, q) <=> q = x \/ Lists!IsStrictPrefix(x, q)
    BY <1>1, StrictPrefixOrder
  <1>6. \A q \in DOMAIN s : Lists!IsPrefix(x, q) /\ q # x => q \notin DOMAIN t
    BY <1>1, <1>5, TreeIs
  <1>7. IsLaid(n, t, s, E, p)
    BY LaidIs
  <1>8. /\ DOMAIN m2 = {r \in DOMAIN m : ~Lists!IsPrefix(x, r)}
                          \cup {r \in DOMAIN s : Lists!IsPrefix(x, r)}
        /\ IsMap(m2)
        /\ \A q \in DOMAIN m2 :
              m2[q] = IF q = x THEN v ELSE IF Lists!IsPrefix(x, q) THEN s[q] ELSE m[q]
    BY DEF Assign, IsMap
  <1>9. IsLaid(m, t, s, D, p)
    OBVIOUS
  <1> HIDE DEF D, E, m2, n
  <1>10. ASSUME NEW r \in DOMAIN t, ~Lists!IsPrefix(x, r)
         PROVE  Spared(r, Part(s, D)) <=> Spared(r, Part(s, E))
    <2>1. r \in E <=> r \in D
      BY <1>1, <1>2, <1>10
    <2>2. \A y \in E : Lists!IsStrictPrefix(y, r) => y \in D
      BY <1>1, <1>2, <1>3, <1>10, PrefixOrder DEF Lists!IsStrictPrefix
    <2>3. D \subseteq E
      BY <1>1, <1>2, <1>3
    <2> QED
      BY <2>1, <2>2, <2>3, SparedIs
  <1>11. ASSUME NEW r \in DOMAIN t, Lists!IsPrefix(x, r), Spared(r, Part(s, E))
         PROVE  FALSE
    <2>1. x \in E
      BY <1>1, <1>2, <1>4
    <2>2. r \notin E /\ (Lists!IsStrictPrefix(x, r) => IsObject(s[x]))
      BY <1>11, <2>1, SparedIs
    <2>3. Lists!IsStrictPrefix(x, r)
      BY <1>1, <1>5, <1>11, <2>1, <2>2
    <2>4. s[x] = Obj
      BY <1>1, <2>2, <2>3, TreeIs, NodeIs
    <2> QED
      BY <1>1, <2>3, <2>4, TreeIs
  <1>12. DOMAIN n = E \cup {r \in DOMAIN t : Spared(r, Part(s, E))}
    BY <1>7 DEF IsLaid
  <1>13. DOMAIN m = D \cup {r \in DOMAIN t : Spared(r, Part(s, D))}
    BY <1>9 DEF IsLaid
  <1>14. ASSUME NEW r PROVE r \in DOMAIN m2 <=> r \in DOMAIN n
    <2>1. CASE r \in Path /\ Lists!IsPrefix(x, r)
      BY <1>1, <1>2, <1>3, <1>8, <1>11, <1>12, <2>1
    <2>2. CASE r \in Path /\ ~Lists!IsPrefix(x, r)
      <3>1. r \in DOMAIN m2 <=> r \in DOMAIN m
        BY <1>8, <2>2
      <3>2. r \in E <=> r \in D
        BY <1>2, <2>2
      <3> QED
        BY <1>10, <1>12, <1>13, <2>2, <3>1, <3>2
    <2>3. CASE r \notin Path
      BY <1>1, <1>3, <1>8, <1>12, <1>13, <2>3
    <2> QED
      BY <2>1, <2>2, <2>3
  <1>15. ASSUME NEW q \in DOMAIN n PROVE m2[q] = n[q]
    <2>1. q \in DOMAIN m2 /\ q \in Path
      BY <1>1, <1>3, <1>12, <1>14
    <2>2. CASE q = x
      <3>1. x \in E
        BY <1>1, <1>2, <1>4
      <3>2. n[x] = v
        BY <1>7, <3>1 DEF IsLaid
      <3> QED
        BY <1>8, <2>1, <2>2, <3>2
    <2>3. CASE q # x /\ Lists!IsPrefix(x, q)
      <3>1. q \in DOMAIN s
        BY <1>8, <2>1, <2>3
      <3>2. q \in E /\ q \notin DOMAIN t
        BY <1>2, <1>6, <2>1, <2>3, <3>1
      <3>3. n[q] = s[q]
        BY <1>7, <3>2 DEF IsLaid
      <3> QED
        BY <1>8, <2>1, <2>3, <3>3
    <2>4. CASE q # x /\ ~Lists!IsPrefix(x, q)
      <3>1. m2[q] = m[q]
        BY <1>8, <2>1, <2>4
      <3>2. q \in E <=> q \in D
        BY <1>2, <2>1, <2>4
      <3>3. CASE q \in D
        BY <1>7, <1>9, <3>1, <3>2, <3>3 DEF IsLaid
      <3>4. CASE q \notin D
        <4>1. q \in DOMAIN t /\ Spared(q, Part(s, E))
          BY <1>12, <3>2, <3>4
        <4>2. Spared(q, Part(s, D))
          BY <1>10, <2>4, <4>1
        <4> QED
          BY <1>7, <1>9, <3>1, <4>1, <4>2 DEF IsLaid
      <3> QED
        BY <3>3, <3>4
    <2> QED
      BY <2>2, <2>3, <2>4
  <1>16. DOMAIN m2 = DOMAIN n /\ IsMap(m2) /\ IsMap(n)
    BY <1>7, <1>8, <1>14 DEF IsLaid
  <1>17. m2 = n
    BY <1>15, <1>16 DEF IsMap
  <1> QED
    BY <1>17 DEF m2, n, E

\* A field both have as an object is entered: MergeObjects.
LEMMA Opened ==
  ASSUME NEW t, IsTree(t), NEW s, IsTree(s), NEW p, NEW L, L \subseteq DOMAIN s,
         NEW m, IsLaid(m, t, s, Done(s, L), p), NEW x \in L,
         x \in DOMAIN t, t[x] = Obj, s[x] = Obj
  PROVE  m = Laid(t, Part(s, Done(s, L \ {x})), p)
  <1> DEFINE D == Done(s, L)
             E == Done(s, L \ {x})
             n == Laid(t, Part(s, E), p)
  <1>1. E = D \cup {x} /\ x \notin D
    BY DEF Done
  <1>2. IsLaid(n, t, s, E, p) /\ IsLaid(m, t, s, D, p)
    BY LaidIs
  <1>3. m[x] = Obj /\ x \in DOMAIN m
    BY LeftUntouched
  <1> HIDE DEF D, E, n
  <1>4. ASSUME NEW r, r # x
        PROVE  Spared(r, Part(s, D)) <=> Spared(r, Part(s, E))
    BY <1>1, <1>4, SparedIs, ObjIsNode
  <1>5. ~Spared(x, Part(s, E))
    BY <1>1, SparedIs
  <1>6. DOMAIN n = E \cup {r \in DOMAIN t : Spared(r, Part(s, E))}
    BY <1>2 DEF IsLaid
  <1>7. DOMAIN m = D \cup {r \in DOMAIN t : Spared(r, Part(s, D))}
    BY <1>2 DEF IsLaid
  <1>8. DOMAIN m = DOMAIN n
    <2>1. ASSUME NEW r PROVE r \in DOMAIN m <=> r \in DOMAIN n
      <3>1. CASE r = x
        BY <1>1, <1>3, <1>6, <3>1
      <3>2. CASE r # x
        BY <1>1, <1>4, <1>6, <1>7, <3>2
      <3> QED
        BY <3>1, <3>2
    <2> QED
      BY <2>1
  <1>9. ASSUME NEW q \in DOMAIN n PROVE m[q] = n[q]
    <2>1. CASE q = x
      <3>1. n[x] = MergeValue(Obj, Obj, StrategyFor(x, p)).value
        BY <1>1, <1>2 DEF IsLaid
      <3>2. MergeValue(Obj, Obj, StrategyFor(x, p)) = Leave(Obj)
        BY ObjectsMerged
      <3> QED
        BY <1>3, <2>1, <3>1, <3>2, OutcomeIs
    <2>2. CASE q # x /\ q \in D
      BY <1>1, <1>2, <2>2 DEF IsLaid
    <2>3. CASE q # x /\ q \notin D
      <3>1. q \in DOMAIN t /\ Spared(q, Part(s, E))
        BY <1>1, <1>6, <2>3
      <3>2. Spared(q, Part(s, D))
        BY <1>4, <2>3, <3>1
      <3> QED
        BY <1>2, <3>1, <3>2 DEF IsLaid
    <2> QED
      BY <2>1, <2>2, <2>3
  <1>10. IsMap(m) /\ IsMap(n)
    BY <1>2 DEF IsLaid
  <1>11. m = n
    BY <1>8, <1>9, <1>10 DEF IsMap
  <1> QED
    BY <1>11 DEF n, E

\* Where the walk stops at a conflict, it has come to what is before them all.
LEMMA EarlyIsDone ==
  ASSUME NEW t, NEW s, IsTree(s), NEW p, NEW L, L \subseteq DOMAIN s,
         \A v \in Done(s, L), l \in L : Before(v, l),
         \A v \in Done(s, L) : v \notin Conflicts(t, s, p),
         NEW x \in L, \A q \in L : q = x \/ Before(x, q), x \in Conflicts(t, s, p)
  PROVE  {q \in DOMAIN s : \A c \in Conflicts(t, s, p) : Before(q, c)} = Done(s, L)
  <1> DEFINE C == Conflicts(t, s, p)
  <1>1. C \subseteq L
    BY DEF Conflicts, Done
  <1>2. DOMAIN s \subseteq Path
    BY TreeIs
  <1> HIDE DEF C
  <1>3. \A q \in L : ~Before(q, x)
    BY <1>2, BeforeOrder
  <1>4. x \in C
    BY DEF C
  <1>5. {q \in DOMAIN s : \A c \in C : Before(q, c)} = Done(s, L)
    BY <1>1, <1>3, <1>4 DEF Done
  <1> QED
    BY <1>5 DEF C

LEMMA WalkBegins ==
  ASSUME NEW t, IsTree(t), NEW s, NEW p
  PROVE  WalkAt(t, s, p, DOMAIN s, t)
  <1>1. Done(s, DOMAIN s) = {}
    BY DEF Done
  <1>2. Laid(t, Part(s, Done(s, DOMAIN s)), p) = t
    BY <1>1, LaidNothing
  <1> QED
    BY <1>1, <1>2 DEF WalkAt

First(L, x) == \A q \in L : q = x \/ Before(x, q)

LEMMA WalkTakes ==
  ASSUME NEW t, IsTree(t), NEW s, IsTree(s), NEW p, NEW L, NEW m, WalkAt(t, s, p, L, m),
         NEW x \in L, First(L, x), NEW v,
         ~(x \in DOMAIN t /\ t[x] = Obj /\ s[x] = Obj), x \notin Conflicts(t, s, p),
         v = IF x \in DOMAIN t THEN MergeValue(t[x], s[x], StrategyFor(x, p)).value ELSE s[x]
  PROVE  WalkAt(t, s, p, Rest(L, x), Assign(m, x, v, s))
  <1>1. L \subseteq DOMAIN s /\ m = Laid(t, Part(s, Done(s, L)), p)
    BY DEF WalkAt
  <1>2. IsLaid(m, t, s, Done(s, L), p)
    BY <1>1, LaidIs
  <1>3. Assign(m, x, v, s) = Laid(t, Part(s, Done(s, Rest(L, x))), p)
    BY <1>1, <1>2, TakenWhole
  <1>4. DOMAIN s \subseteq Path /\ DOMAIN t \subseteq Path /\ x \in Path /\ x \in DOMAIN s
    BY <1>1, TreeIs
  <1>5. ASSUME NEW u \in Done(s, Rest(L, x)), u \notin Done(s, L)
        PROVE  u \in L /\ u \in Path /\ Lists!IsPrefix(x, u)
    BY <1>1, <1>4, <1>5 DEF Done, Rest
  <1>6. ASSUME NEW u \in Done(s, Rest(L, x)), NEW l \in Rest(L, x)
        PROVE  Before(u, l)
    <2>1. l \in L /\ ~Lists!IsPrefix(x, l) /\ l \in Path
      BY <1>1, <1>4 DEF Rest
    <2>2. CASE u \in Done(s, L)
      BY <2>1, <2>2 DEF WalkAt
    <2>3. CASE u \notin Done(s, L)
      <3>1. u \in Path /\ Lists!IsPrefix(x, u)
        BY <1>5, <2>3
      <3>2. Lists!IsPrefix(x, x)
        BY <1>4, PrefixOrder
      <3>3. Before(x, l)
        BY <2>1, <3>2 DEF First
      <3> QED
        BY <1>4, <2>1, <3>1, <3>3, BelowBefore
    <2> QED
      BY <2>2, <2>3
  <1>7. ASSUME NEW u \in Done(s, Rest(L, x))
        PROVE  u \notin Conflicts(t, s, p)
    <2>1. CASE u \in Done(s, L)
      BY <2>1 DEF WalkAt
    <2>2. CASE u \notin Done(s, L) /\ u # x
      <3>1. u \in L /\ u \in Path /\ Lists!IsStrictPrefix(x, u)
        BY <1>5, <2>2 DEF Lists!IsStrictPrefix
      <3>2. s[x] = Obj
        BY <1>1, <1>4, <3>1, TreeIs
      <3>3. u \notin DOMAIN t
        BY <1>4, <3>1, <3>2, TreeIs
      <3> QED
        BY <3>3 DEF Conflicts
    <2> QED
      BY <2>1, <2>2
  <1>8. Rest(L, x) \subseteq DOMAIN s
    BY <1>1 DEF Rest
  <1> QED
    BY <1>3, <1>6, <1>7, <1>8 DEF WalkAt

LEMMA WalkOpens ==
  ASSUME NEW t, IsTree(t), NEW s, IsTree(s), NEW p, NEW L, NEW m, WalkAt(t, s, p, L, m),
         NEW x \in L, First(L, x), x \in DOMAIN t, t[x] = Obj, s[x] = Obj
  PROVE  WalkAt(t, s, p, L \ {x}, m)
  <1>1. L \subseteq DOMAIN s /\ m = Laid(t, Part(s, Done(s, L)), p)
    BY DEF WalkAt
  <1>2. IsLaid(m, t, s, Done(s, L), p)
    BY <1>1, LaidIs
  <1>3. m = Laid(t, Part(s, Done(s, L \ {x})), p)
    BY <1>1, <1>2, Opened
  <1>4. Done(s, L \ {x}) = Done(s, L) \cup {x}
    BY <1>1 DEF Done
  <1>5. \A v \in Done(s, L \ {x}), l \in L \ {x} : Before(v, l)
    BY <1>4 DEF WalkAt, First
  <1>6. x \notin Conflicts(t, s, p)
    <2>1. MergeValue(Obj, Obj, StrategyFor(x, p)) = Leave(Obj)
      BY ObjectsMerged
    <2>2. MergeValue(t[x], s[x], StrategyFor(x, p)).ok
      BY <2>1, OutcomeIs
    <2> QED
      BY <2>2 DEF Conflicts
  <1>7. \A v \in Done(s, L \ {x}) : v \notin Conflicts(t, s, p)
    BY <1>4, <1>6 DEF WalkAt
  <1> QED
    BY <1>1, <1>3, <1>5, <1>7 DEF WalkAt

LEMMA WalkIsTree ==
  ASSUME NEW t, IsTree(t), NEW s, IsTree(s), NEW p, IsPolicy(p),
         NEW L, NEW m, WalkAt(t, s, p, L, m)
  PROVE  IsTree(m)
  <1>1. Upper(Done(s, L), s)
    BY DoneIsUpper DEF WalkAt
  <1>2. \A q \in Done(s, L) : q \notin Conflicts(t, s, p)
    BY DEF WalkAt
  <1>3. IsTree(Laid(t, Part(s, Done(s, L)), p))
    BY <1>1, <1>2, LaidTree
  <1> QED
    BY <1>3 DEF WalkAt

\* What Merge is, in the terms of the walk.
Early(t, s, p) == {q \in DOMAIN s : \A c \in Conflicts(t, s, p) : Before(q, c)}

LEMMA MergeIs ==
  ASSUME NEW t, NEW s, NEW p
  PROVE  /\ ~IsObject(s[Root]) => Merge(t, s, p) = Leave(t)
         /\ IsObject(s[Root]) =>
              /\ Merge(t, s, p).ok = (Conflicts(t, s, p) = {})
              /\ Merge(t, s, p).value = Laid(t, Part(s, Early(t, s, p)), p)
              /\ Merge(t, s, p) = [ok |-> Conflicts(t, s, p) = {},
                                   value |-> Laid(t, Part(s, Early(t, s, p)), p)]
  BY DEF Merge, Early

LEMMA WalkEnds ==
  ASSUME NEW t, NEW s, IsObject(s[Root]), NEW p, NEW m, WalkAt(t, s, p, {}, m)
  PROVE  Merge(t, s, p) = Leave(m)
  <1>1. Done(s, {}) = DOMAIN s
    BY DEF Done
  <1>2. Conflicts(t, s, p) = {}
    BY <1>1 DEF WalkAt, Conflicts
  <1>3. Early(t, s, p) = DOMAIN s
    BY <1>2 DEF Early
  <1>4. m = Laid(t, Part(s, DOMAIN s), p)
    BY <1>1 DEF WalkAt
  <1>5. Merge(t, s, p) = [ok |-> Conflicts(t, s, p) = {},
                          value |-> Laid(t, Part(s, Early(t, s, p)), p)]
    BY MergeIs
  <1> QED
    BY <1>2, <1>3, <1>4, <1>5 DEF Leave

LEMMA WalkThrows ==
  ASSUME NEW t, NEW s, IsTree(s), IsObject(s[Root]), NEW p,
         NEW L, NEW m, WalkAt(t, s, p, L, m),
         NEW x \in L, First(L, x), x \in Conflicts(t, s, p)
  PROVE  Merge(t, s, p) = Throw(m)
  <1>1. Early(t, s, p) = Done(s, L)
    BY EarlyIsDone DEF WalkAt, First, Early
  <1>2. m = Laid(t, Part(s, Done(s, L)), p)
    BY DEF WalkAt
  <1>3. Merge(t, s, p) = [ok |-> Conflicts(t, s, p) = {},
                          value |-> Laid(t, Part(s, Early(t, s, p)), p)]
    BY MergeIs
  <1>4. (Conflicts(t, s, p) = {}) = FALSE
    OBVIOUS
  <1> QED
    BY <1>1, <1>2, <1>3, <1>4 DEF Throw

-----------------------------------------------------------------------------

\* The loop of a join, as what is there after each of its branches.
JoinLoop(after, context, branches, p, n) ==
  after = [i \in 0..n |->
             IF i = 0 THEN Leave(context)
             ELSE IF after[i-1].ok THEN Merge(after[i-1].value, branches[i], p)
             ELSE after[i-1]]

LEMMA JoinLoopExists ==
  ASSUME NEW context, NEW branches, NEW p, NEW n \in Nat
  PROVE  \E after : JoinLoop(after, context, branches, p, n)
  <1> DEFINE S == {m \in Nat : \E after : JoinLoop(after, context, branches, p, m)}
             Turn(f, i) == IF f[i-1].ok THEN Merge(f[i-1].value, branches[i], p) ELSE f[i-1]
  <1>1. 0 \in S
    <2> DEFINE f == [i \in 0..0 |-> Leave(context)]
    <2>1. JoinLoop(f, context, branches, p, 0)
      BY DEF JoinLoop
    <2> QED
      BY <2>1
  <1>2. ASSUME NEW m \in Nat, m \in S PROVE m + 1 \in S
    <2>1. PICK f : JoinLoop(f, context, branches, p, m)
      BY <1>2
    <2> DEFINE g == [i \in 0..(m+1) |-> IF i = 0 THEN Leave(context) ELSE Turn(f, i)]
    <2>2. ASSUME NEW i \in 0..(m+1), i # 0 PROVE f[i-1] = g[i-1]
      <3>1. i - 1 \in 0..m /\ i - 1 \in 0..(m + 1)
        BY <2>2
      <3>2. f[i-1] = IF i - 1 = 0 THEN Leave(context) ELSE Turn(f, i - 1)
        BY <2>1, <3>1 DEF JoinLoop
      <3> QED
        BY <3>1, <3>2
    <2>3. JoinLoop(g, context, branches, p, m + 1)
      BY <2>2 DEF JoinLoop
    <2> HIDE DEF g
    <2> QED
      BY <2>3
  <1> HIDE DEF S
  <1>3. n \in S
    BY <1>1, <1>2, InductiveSet
  <1> QED
    BY <1>3 DEF S

AreJoins(after, context, branches, p) ==
  /\ after[0] = Leave(context)
  /\ \A i \in 1..Len(branches) :
        after[i] = IF after[i-1].ok THEN Merge(after[i-1].value, branches[i], p) ELSE after[i-1]

LEMMA JoinsIs ==
  ASSUME NEW context, NEW branches, Len(branches) \in Nat, NEW p
  PROVE  AreJoins(Joins(context, branches, p), context, branches, p)
  <1> DEFINE after == CHOOSE f : JoinLoop(f, context, branches, p, Len(branches))
  <1>1. Joins(context, branches, p) = after
    BY DEF Joins, JoinLoop
  <1>2. JoinLoop(after, context, branches, p, Len(branches))
    BY JoinLoopExists
  <1> HIDE DEF after
  <1>3. AreJoins(after, context, branches, p)
    BY <1>2 DEF JoinLoop, AreJoins
  <1> QED
    BY <1>1, <1>3

-----------------------------------------------------------------------------

\* The specification keeps the invariant.

LEMMA PartsAre ==
  ASSUME TypeOK, Parts
  PROVE  /\ Len(results) \in Nat /\ DOMAIN results = 1..Len(results) /\ merged \in Nat
         /\ \A i \in 1..Len(results) : results[i] \in Branches /\ IsTree(results[i])
         /\ IsPolicy(policy) /\ IsTree(base) /\ IsTree(before) /\ IsTree(main_context)
         /\ merged > 0 => Source \in Branches /\ IsTree(Source)
  <1>1. Len(results) \in Nat /\ DOMAIN results = 1..Len(results)
    BY LenProperties DEF Parts
  <1>2. \A i \in 1..Len(results) : results[i] \in Branches
    BY ElementOfSeq DEF Parts
  <1>3. \A i \in 1..Len(results) : IsTree(results[i])
    BY <1>2, MergeAssumption
  <1>4. merged \in 0..Len(results)
    BY DEF TypeOK
  <1>5. merged > 0 => Source \in Branches /\ IsTree(Source)
    BY <1>1, <1>2, <1>3, <1>4 DEF Source
  <1> QED
    BY <1>1, <1>2, <1>3, <1>4, <1>5 DEF TypeOK

LEMMA InitIInv == Init => IInv
  <1> SUFFICES ASSUME Init PROVE IInv
    OBVIOUS
  <1>1. PICK n \in 0..MaxBranches : results \in [1..n -> Branches]
    BY DEF Init
  <1>2. results \in Seq(Branches) /\ Len(results) \in Nat
    <2>1. n \in Nat
      BY MergeAssumption
    <2> QED
      BY <1>1, <2>1
  <1>3. Parts
    BY <1>2 DEF Init, Parts
  <1>4. TypeOK
    BY <1>2, MergeAssumption DEF Init, TypeOK
  <1>5. Joins(base, results, policy)[0] = Leave(base)
    BY <1>2, JoinsIs DEF AreJoins
  <1>6. AllMerges
    BY <1>5 DEF AllMerges, Init, Resting, Outcome, Leave
  <1> QED
    BY <1>3, <1>4, <1>6 DEF IInv, Init, Walk, LastMerge, Ended, Resting

\* A field of the branch the walk has come to.
LEMMA FieldIs ==
  ASSUME TypeOK, Parts, Walk, NEW x \in left, AtField(x)
  PROVE  /\ status = "walking" /\ merged > 0 /\ x \in DOMAIN Source
         /\ WalkAt(before, Source, policy, left, main_context)
         /\ First(left, x)
         /\ x \in DOMAIN main_context <=> x \in DOMAIN before
         /\ x \in DOMAIN before => main_context[x] = before[x] /\ IsNode(before[x])
         /\ IsNode(Source[x])
  <1>1. status = "walking" /\ First(left, x)
    BY DEF AtField, First
  <1>2. merged > 0 /\ WalkAt(before, Source, policy, left, main_context)
    BY <1>1 DEF Walk
  <1>3. IsTree(before) /\ IsTree(Source)
    BY <1>2, PartsAre
  <1>4. left \subseteq DOMAIN Source
    BY <1>2 DEF WalkAt
  <1>5. IsLaid(main_context, before, Source, Done(Source, left), policy)
    BY <1>2, LaidIs DEF WalkAt
  <1>6. /\ x \in DOMAIN main_context <=> x \in DOMAIN before
        /\ x \in DOMAIN before => main_context[x] = before[x]
    BY <1>3, <1>4, <1>5, LeftUntouched
  <1> QED
    BY <1>1, <1>2, <1>3, <1>4, <1>6, TreeIs

\* A turn leaves the walk where the next turn finds it.
LEMMA AddFieldWalks ==
  ASSUME TypeOK, Parts, Walk, AddField
  PROVE  WalkAt(before, Source, policy, left', main_context')
  <1>1. PICK x \in left :
          /\ AtField(x) /\ x \notin DOMAIN main_context
          /\ main_context' = Assign(main_context, x, Source[x], Source)
          /\ left' = Beyond(x)
    BY DEF AddField
  <1>2. /\ WalkAt(before, Source, policy, left, main_context) /\ First(left, x)
        /\ x \notin DOMAIN before /\ merged > 0
    BY <1>1, FieldIs
  <1>3. IsTree(before) /\ IsTree(Source)
    BY <1>2, PartsAre
  <1>4. x \notin Conflicts(before, Source, policy)
    BY <1>2 DEF Conflicts
  <1>5. WalkAt(before, Source, policy, Rest(left, x),
               Assign(main_context, x, Source[x], Source))
    BY <1>2, <1>3, <1>4, WalkTakes
  <1> QED
    BY <1>1, <1>5 DEF Beyond, Rest

LEMMA MergeObjectsWalks ==
  ASSUME TypeOK, Parts, Walk, MergeObjects
  PROVE  WalkAt(before, Source, policy, left', main_context')
  <1>1. PICK x \in left :
          /\ AtField(x) /\ BothObjects(x)
          /\ left' = left \ {x} /\ main_context' = main_context
    BY DEF MergeObjects
  <1>2. /\ WalkAt(before, Source, policy, left, main_context) /\ First(left, x)
        /\ merged > 0 /\ x \in DOMAIN before /\ before[x] = Obj /\ Source[x] = Obj
    BY <1>1, FieldIs, NodeIs DEF BothObjects
  <1>3. IsTree(before) /\ IsTree(Source)
    BY <1>2, PartsAre
  <1> QED
    BY <1>1, <1>2, <1>3, WalkOpens

LEMMA MergeFieldWalks ==
  ASSUME TypeOK, Parts, Walk, MergeField
  PROVE  WalkAt(before, Source, policy, left', main_context')
  <1>1. PICK x \in left :
          /\ AtField(x) /\ x \in DOMAIN main_context /\ ~BothObjects(x)
          /\ MergeAt(x).ok
          /\ main_context' = Assign(main_context, x, MergeAt(x).value, Source)
          /\ left' = Beyond(x)
    BY DEF MergeField
  <1>2. /\ WalkAt(before, Source, policy, left, main_context) /\ First(left, x)
        /\ merged > 0 /\ x \in DOMAIN before /\ main_context[x] = before[x]
    BY <1>1, FieldIs
  <1>3. IsTree(before) /\ IsTree(Source)
    BY <1>2, PartsAre
  <1> DEFINE r == MergeValue(before[x], Source[x], StrategyFor(x, policy))
  <1>4. MergeAt(x) = r
    BY <1>2 DEF MergeAt
  <1>5. ~(before[x] = Obj /\ Source[x] = Obj)
    BY <1>1, <1>2, ObjIsNode DEF BothObjects
  <1>6. x \notin Conflicts(before, Source, policy)
    BY <1>1, <1>4 DEF Conflicts
  <1>7. WalkAt(before, Source, policy, Rest(left, x), Assign(main_context, x, r.value, Source))
    <2>1. r.value = IF x \in DOMAIN before
                    THEN MergeValue(before[x], Source[x], StrategyFor(x, policy)).value
                    ELSE Source[x]
      BY <1>2
    <2> HIDE DEF r
    <2> QED
      BY <1>2, <1>3, <1>5, <1>6, <2>1, WalkTakes
  <1> QED
    BY <1>1, <1>4, <1>7 DEF Beyond, Rest

Turn == AddField \/ MergeObjects \/ MergeField

LEMMA TurnIs ==
  ASSUME TypeOK, Parts, Walk, Turn
  PROVE  /\ status = "walking" /\ merged > 0 /\ IsObject(Source[Root])
         /\ WalkAt(before, Source, policy, left', main_context')
         /\ UNCHANGED <<policy, base, results, merged, status, before>>
  <1>1. WalkAt(before, Source, policy, left', main_context')
    BY AddFieldWalks, MergeObjectsWalks, MergeFieldWalks DEF Turn
  <1>2. status = "walking" /\ UNCHANGED <<policy, base, results, merged, status, before>>
    BY DEF Turn, AddField, MergeObjects, MergeField, AtField, joinVars
  <1> QED
    BY <1>1, <1>2 DEF Walk

\* A walk that meets a conflict has left what Merge leaves, and throws.
LEMMA ConflictIs ==
  ASSUME TypeOK, Parts, Walk, Conflict
  PROVE  /\ status = "walking" /\ merged > 0 /\ status' = "threw" /\ left' = {}
         /\ UNCHANGED <<policy, base, results, main_context, merged, before>>
         /\ Merge(before, Source, policy) = Throw(main_context)
  <1>1. PICK x \in left : AtField(x) /\ x \in DOMAIN main_context /\ ~MergeAt(x).ok
    BY DEF Conflict
  <1>2. /\ status = "walking" /\ status' = "threw" /\ left' = {}
        /\ UNCHANGED <<policy, base, results, main_context, merged, before>>
    BY DEF Conflict, AtField, joinVars
  <1>3. /\ WalkAt(before, Source, policy, left, main_context) /\ First(left, x)
        /\ merged > 0 /\ x \in DOMAIN before /\ main_context[x] = before[x]
        /\ x \in DOMAIN Source
    BY <1>1, FieldIs
  <1>4. IsTree(Source) /\ IsObject(Source[Root])
    BY <1>2, <1>3, PartsAre DEF Walk
  <1>5. x \in Conflicts(before, Source, policy)
    BY <1>1, <1>3 DEF Conflicts, MergeAt
  <1> QED
    BY <1>2, <1>3, <1>4, <1>5, WalkThrows

\* A walk that ends has left what Merge leaves.
LEMMA EndBranchIs ==
  ASSUME TypeOK, Parts, Walk, EndBranch
  PROVE  /\ status = "walking" /\ merged > 0 /\ status' = "joining" /\ left = {}
         /\ UNCHANGED <<policy, base, results, main_context, merged, left, before>>
         /\ Merge(before, Source, policy) = Leave(main_context)
  <1>1. /\ status = "walking" /\ status' = "joining" /\ left = {}
        /\ UNCHANGED <<policy, base, results, main_context, merged, left, before>>
    BY DEF EndBranch, joinVars
  <1> QED
    BY <1>1, WalkEnds DEF Walk

LEMMA SkipBranchIs ==
  ASSUME TypeOK, Parts, SkipBranch
  PROVE  /\ status = "joining" /\ merged < Len(results) /\ merged' = merged + 1
         /\ before' = main_context
         /\ UNCHANGED <<policy, base, results, main_context, status, left>>
         /\ Merge(main_context, results[merged + 1], policy) = Leave(main_context)
  <1>1. /\ status = "joining" /\ merged < Len(results) /\ merged' = merged + 1
        /\ before' = main_context
        /\ UNCHANGED <<policy, base, results, main_context, status, left>>
        /\ ~IsObject(results[merged + 1][Root])
    BY DEF SkipBranch, TakeBranch, joinVars
  <1> QED
    BY <1>1, MergeIs

LEMMA BeginBranchIs ==
  ASSUME BeginBranch
  PROVE  /\ status = "joining" /\ merged < Len(results) /\ merged' = merged + 1
         /\ before' = main_context /\ status' = "walking"
         /\ left' = DOMAIN results[merged + 1]
         /\ IsObject(results[merged + 1][Root])
         /\ UNCHANGED <<policy, base, results, main_context>>
  BY DEF BeginBranch, TakeBranch, joinVars

LEMMA TurnKeepsIInv == ASSUME IInv, Turn PROVE IInv'
  <1>1. TypeOK /\ Parts /\ Walk /\ AllMerges
    BY DEF IInv
  <1>2. /\ status = "walking" /\ merged > 0 /\ IsObject(Source[Root])
        /\ WalkAt(before, Source, policy, left', main_context')
        /\ UNCHANGED <<policy, base, results, merged, status, before>>
    BY <1>1, TurnIs
  <1>3. Source' = Source
    BY <1>2 DEF Source
  <1>4. IsTree(before) /\ IsTree(Source) /\ IsPolicy(policy)
    BY <1>1, <1>2, PartsAre
  <1>5. IsTree(main_context')
    BY <1>2, <1>4, WalkIsTree
  <1>6. Walk'
    BY <1>2, <1>3 DEF Walk
  <1>7. left' \subseteq DOMAIN Source
    BY <1>2 DEF WalkAt
  <1>8. TypeOK'
    BY <1>1, <1>2, <1>3, <1>5, <1>7 DEF TypeOK
  <1>9. AllMerges'
    BY <1>1, <1>2 DEF AllMerges, Resting
  <1> QED
    BY <1>1, <1>2, <1>6, <1>8, <1>9 DEF IInv, Parts, LastMerge, Ended, Resting

\* What the join has come to after the branch under way.
LEMMA NextOfJoins ==
  ASSUME TypeOK, Parts, NEW J, J = Joins(base, results, policy), NEW i \in 1..Len(results),
         NEW context, J[i-1] = Leave(context)
  PROVE  J[i] = Merge(context, results[i], policy)
  <1>1. AreJoins(J, base, results, policy)
    BY PartsAre, JoinsIs
  <1>2. J[i] = IF J[i-1].ok THEN Merge(J[i-1].value, results[i], policy) ELSE J[i-1]
    BY <1>1 DEF AreJoins
  <1>3. J[i-1].ok = TRUE /\ J[i-1].value = context
    BY OutcomeIs
  <1> QED
    BY <1>2, <1>3

LEMMA ConflictKeepsIInv == ASSUME IInv, Conflict PROVE IInv'
  <1>1. TypeOK /\ Parts /\ Walk /\ AllMerges
    BY DEF IInv
  <1>2. /\ status = "walking" /\ merged > 0 /\ status' = "threw" /\ left' = {}
        /\ UNCHANGED <<policy, base, results, main_context, merged, before>>
        /\ Merge(before, Source, policy) = Throw(main_context)
    BY <1>1, ConflictIs
  <1>3. Source' = Source
    BY <1>2 DEF Source
  <1>4. Outcome' = Throw(main_context)
    BY <1>2 DEF Outcome, Throw
  <1>5. LastMerge'
    BY <1>2, <1>3, <1>4 DEF LastMerge
  <1>6. Joins(base, results, policy)[merged] = Throw(main_context)
    <2> DEFINE J == Joins(base, results, policy)
    <2>1. J[merged - 1] = Leave(before)
      BY <1>1, <1>2 DEF AllMerges, Resting
    <2>2. merged \in 1..Len(results)
      BY <1>1, <1>2 DEF TypeOK
    <2>3. J[merged] = Merge(before, results[merged], policy)
      BY <1>1, <2>1, <2>2, NextOfJoins
    <2> QED
      BY <1>2, <2>3 DEF Source
  <1>7. AllMerges'
    BY <1>2, <1>4, <1>6 DEF AllMerges, Resting
  <1>8. TypeOK'
    BY <1>1, <1>2 DEF TypeOK
  <1> QED
    BY <1>1, <1>2, <1>5, <1>7, <1>8 DEF IInv, Parts, Walk, Ended

LEMMA EndBranchKeepsIInv == ASSUME IInv, EndBranch PROVE IInv'
  <1>1. TypeOK /\ Parts /\ Walk /\ AllMerges
    BY DEF IInv
  <1>2. /\ status = "walking" /\ merged > 0 /\ status' = "joining" /\ left = {}
        /\ UNCHANGED <<policy, base, results, main_context, merged, left, before>>
        /\ Merge(before, Source, policy) = Leave(main_context)
    BY <1>1, EndBranchIs
  <1>3. Source' = Source
    BY <1>2 DEF Source
  <1>4. Outcome' = Leave(main_context)
    BY <1>2 DEF Outcome, Leave
  <1>5. LastMerge'
    BY <1>2, <1>3, <1>4 DEF LastMerge
  <1>6. Joins(base, results, policy)[merged] = Leave(main_context)
    <2> DEFINE J == Joins(base, results, policy)
    <2>1. J[merged - 1] = Leave(before)
      BY <1>1, <1>2 DEF AllMerges, Resting
    <2>2. merged \in 1..Len(results)
      BY <1>1, <1>2 DEF TypeOK
    <2>3. J[merged] = Merge(before, results[merged], policy)
      BY <1>1, <2>1, <2>2, NextOfJoins
    <2> QED
      BY <1>2, <2>3 DEF Source
  <1>7. AllMerges'
    BY <1>2, <1>4, <1>6 DEF AllMerges, Resting
  <1>8. TypeOK'
    BY <1>1, <1>2 DEF TypeOK
  <1> QED
    BY <1>1, <1>2, <1>5, <1>7, <1>8 DEF IInv, Parts, Walk, Ended

LEMMA SkipBranchKeepsIInv == ASSUME IInv, SkipBranch PROVE IInv'
  <1>1. TypeOK /\ Parts /\ AllMerges
    BY DEF IInv
  <1>2. /\ status = "joining" /\ merged < Len(results) /\ merged' = merged + 1
        /\ before' = main_context
        /\ UNCHANGED <<policy, base, results, main_context, status, left>>
        /\ Merge(main_context, results[merged + 1], policy) = Leave(main_context)
    BY <1>1, SkipBranchIs
  <1>3. merged \in Nat /\ Len(results) \in Nat /\ Source' = results[merged + 1]
    BY <1>1, <1>2, PartsAre DEF Source
  <1>4. Outcome' = Leave(main_context) /\ Outcome = Leave(main_context)
    BY <1>2 DEF Outcome, Leave
  <1>5. LastMerge'
    BY <1>2, <1>3, <1>4 DEF LastMerge
  <1>6. Joins(base, results, policy)[merged + 1] = Leave(main_context)
    <2> DEFINE J == Joins(base, results, policy)
    <2>1. J[merged] = Leave(main_context)
      BY <1>1, <1>2, <1>4 DEF AllMerges, Resting
    <2> DEFINE i == merged + 1
    <2>2. i \in 1..Len(results) /\ i - 1 = merged
      BY <1>2, <1>3
    <2> HIDE DEF i
    <2>3. J[i - 1] = Leave(main_context)
      BY <2>1, <2>2
    <2>4. J[i] = Merge(main_context, results[i], policy)
      BY <1>1, <2>2, <2>3, NextOfJoins
    <2> QED
      BY <1>2, <2>4 DEF i
  <1>7. AllMerges'
    BY <1>2, <1>4, <1>6 DEF AllMerges, Resting
  <1>8. TypeOK'
    BY <1>1, <1>2, <1>3 DEF TypeOK
  <1> QED
    BY <1>1, <1>2, <1>5, <1>7, <1>8 DEF IInv, Parts, Walk, Ended

LEMMA BeginBranchKeepsIInv == ASSUME IInv, BeginBranch PROVE IInv'
  <1>1. TypeOK /\ Parts /\ AllMerges
    BY DEF IInv
  <1>2. /\ status = "joining" /\ merged < Len(results) /\ merged' = merged + 1
        /\ before' = main_context /\ status' = "walking"
        /\ left' = DOMAIN results[merged + 1]
        /\ IsObject(results[merged + 1][Root])
        /\ UNCHANGED <<policy, base, results, main_context>>
    BY BeginBranchIs
  <1>3. merged \in Nat /\ Len(results) \in Nat /\ Source' = results[merged + 1]
    BY <1>1, <1>2, PartsAre DEF Source
  <1>4. Walk'
    <2>1. WalkAt(main_context, Source', policy, DOMAIN Source', main_context)
      BY <1>1, PartsAre, WalkBegins
    <2> QED
      BY <1>2, <1>3, <2>1 DEF Walk
  <1>5. AllMerges'
    <2>1. Joins(base, results, policy)[merged] = Leave(main_context)
      BY <1>1, <1>2 DEF AllMerges, Resting, Outcome, Leave
    <2>2. merged' - 1 = merged
      BY <1>2, <1>3
    <2> QED
      BY <1>2, <2>1, <2>2 DEF AllMerges, Resting
  <1>6. TypeOK'
    BY <1>1, <1>2, <1>3 DEF TypeOK
  <1> QED
    BY <1>1, <1>2, <1>4, <1>5, <1>6 DEF IInv, Parts, LastMerge, Resting, Ended

LEMMA AllMergedKeepsIInv == ASSUME IInv, AllMerged PROVE IInv'
  <1>1. TypeOK /\ Parts /\ AllMerges /\ LastMerge
    BY DEF IInv
  <1>2. /\ status = "joining" /\ status' = "merged" /\ merged = Len(results)
        /\ UNCHANGED <<policy, base, results, main_context, merged, left, before>>
    BY DEF AllMerged, joinVars
  <1>3. Outcome' = Outcome /\ Source' = Source
    BY <1>2 DEF Outcome, Source
  <1>4. LastMerge' /\ AllMerges'
    BY <1>1, <1>2, <1>3 DEF LastMerge, AllMerges, Resting
  <1>5. TypeOK'
    BY <1>1, <1>2 DEF TypeOK
  <1> QED
    BY <1>1, <1>2, <1>4, <1>5 DEF IInv, Parts, Walk, Ended

LEMMA StutterKeepsIInv == ASSUME IInv, UNCHANGED vars PROVE IInv'
  <1>1. /\ Source' = Source /\ Outcome' = Outcome
        /\ UNCHANGED <<policy, base, results, main_context, merged, status, left, before>>
    BY DEF vars, Source, Outcome
  <1> QED
    BY <1>1 DEF IInv, TypeOK, Parts, Walk, LastMerge, AllMerges, Ended, Resting

LEMMA NextKeepsIInv == ASSUME IInv, [Next]_vars PROVE IInv'
  <1>1. CASE SkipBranch
    BY <1>1, SkipBranchKeepsIInv
  <1>2. CASE BeginBranch
    BY <1>2, BeginBranchKeepsIInv
  <1>3. CASE AddField \/ MergeObjects \/ MergeField
    BY <1>3, TurnKeepsIInv DEF Turn
  <1>4. CASE Conflict
    BY <1>4, ConflictKeepsIInv
  <1>5. CASE EndBranch
    BY <1>5, EndBranchKeepsIInv
  <1>6. CASE AllMerged
    BY <1>6, AllMergedKeepsIInv
  <1>7. CASE Joined \/ UNCHANGED vars
    BY <1>7, StutterKeepsIInv DEF Joined
  <1> QED
    BY <1>1, <1>2, <1>3, <1>4, <1>5, <1>6, <1>7 DEF Next

LEMMA Invariance == Spec => []IInv
  <1>1. Init => IInv
    BY InitIInv
  <1>2. IInv /\ [Next]_vars => IInv'
    BY NextKeepsIInv
  <1> QED
    BY <1>1, <1>2, PTL DEF Spec

\* Every variable keeps its type: what a merge leaves, also in the middle of
\* it, is a tree, without children of what is no object.
THEOREM TypeCorrect == Spec => []TypeOK
  <1>1. IInv => TypeOK
    BY DEF IInv
  <1> QED
    BY <1>1, Invariance, PTL

-----------------------------------------------------------------------------

\* The walk implements the join of whole merges: a turn is a stutter of it, and
\* the end of a branch is its step.

LEMMA StepsOfJoin ==
  ASSUME IInv, [Next]_vars
  PROVE  [Join!Next]_(Join!vars)
  <1>1. TypeOK /\ Parts /\ Walk
    BY DEF IInv
  <1>2. merged \in Nat /\ Len(results) \in Nat
    BY <1>1, PartsAre
  <1>3. CASE SkipBranch
    <2>1. /\ status = "joining" /\ merged < Len(results) /\ merged' = merged + 1
          /\ UNCHANGED <<policy, base, results, main_context, status>>
          /\ Merge(main_context, results[merged + 1], policy) = Leave(main_context)
      BY <1>1, <1>3, SkipBranchIs
    <2> QED
      BY <2>1, OutcomeIs DEF Join!Next, Join!MergeBranch, Resting
  <1>4. CASE BeginBranch
    <2>1. /\ status = "joining" /\ merged' = merged + 1 /\ before' = main_context
          /\ status' = "walking" /\ UNCHANGED <<policy, base, results, main_context>>
      BY <1>4, BeginBranchIs
    <2> QED
      BY <1>2, <2>1 DEF Join!vars, Resting
  <1>5. CASE AddField \/ MergeObjects \/ MergeField
    <2>1. /\ status = "walking"
          /\ UNCHANGED <<policy, base, results, merged, status, before>>
      BY <1>1, <1>5, TurnIs DEF Turn
    <2> QED
      BY <2>1 DEF Join!vars, Resting
  <1>6. CASE Conflict
    <2>1. /\ status = "walking" /\ merged > 0 /\ status' = "threw"
          /\ UNCHANGED <<policy, base, results, main_context, merged, before>>
          /\ Merge(before, results[merged], policy) = Throw(main_context)
      BY <1>1, <1>6, ConflictIs DEF Source
    <2>2. merged - 1 < Len(results) /\ merged - 1 + 1 = merged
      BY <1>1, <1>2 DEF TypeOK
    <2> QED
      BY <1>2, <2>1, <2>2, OutcomeIs DEF Join!Next, Join!MergeBranch, Resting
  <1>7. CASE EndBranch
    <2>1. /\ status = "walking" /\ merged > 0 /\ status' = "joining"
          /\ UNCHANGED <<policy, base, results, main_context, merged, before>>
          /\ Merge(before, results[merged], policy) = Leave(main_context)
      BY <1>1, <1>7, EndBranchIs DEF Source
    <2>2. merged - 1 < Len(results) /\ merged - 1 + 1 = merged
      BY <1>1, <1>2 DEF TypeOK
    <2> QED
      BY <1>2, <2>1, <2>2, OutcomeIs DEF Join!Next, Join!MergeBranch, Resting
  <1>8. CASE AllMerged
    <2>1. /\ status = "joining" /\ status' = "merged" /\ merged = Len(results)
          /\ UNCHANGED <<policy, base, results, main_context, merged>>
      BY <1>8 DEF AllMerged, joinVars
    <2> QED
      BY <2>1 DEF Join!Next, Join!AllMerged, Resting
  <1>9. CASE Joined \/ UNCHANGED vars
    <2>1. UNCHANGED <<policy, base, results, main_context, merged, status, before>>
      BY <1>9 DEF Joined, vars
    <2> QED
      BY <2>1 DEF Join!vars, Resting
  <1> QED
    BY <1>3, <1>4, <1>5, <1>6, <1>7, <1>8, <1>9 DEF Next

\* The recursion computes Merge: what it does field by field, on trees of any
\* depth, amounts to one step in which everything before the first conflict is
\* merged.
THEOREM WalkImplementsJoin == Spec => ImplementsJoin
  <1>1. Init => Join!Init
    BY DEF Init, Join!Init, Resting
  <1>2. IInv /\ [Next]_vars => [Join!Next]_(Join!vars)
    BY StepsOfJoin
  <1> QED
    BY <1>1, <1>2, Invariance, PTL DEF Spec, ImplementsJoin, Join!Spec

-----------------------------------------------------------------------------

\* What a merge changes, and what it leaves alone.

LEMMA LaidSpares ==
  ASSUME NEW t, NEW s, NEW p, NEW D, D \subseteq DOMAIN s, NEW m, IsLaid(m, t, s, D, p),
         NEW q \in DOMAIN t, Spared(q, s)
  PROVE  q \in DOMAIN m /\ m[q] = t[q]
  <1>1. q \notin D /\ \A x \in D : Lists!IsStrictPrefix(x, q) => IsObject(s[x])
    BY DEF Spared
  <1>2. Spared(q, Part(s, D))
    BY <1>1, SparedIs
  <1> QED
    BY <1>2 DEF IsLaid

LEMMA EarlyIsPart == ASSUME NEW t, NEW s, NEW p PROVE Early(t, s, p) \subseteq DOMAIN s
  BY DEF Early

\* Between merges: the last one.
LEMMA LastMergeIs ==
  ASSUME IInv, Resting, merged > 0
  PROVE  /\ ~IsObject(Source[Root]) => main_context = before /\ status # "threw"
         /\ IsObject(Source[Root]) =>
              /\ IsLaid(main_context, before, Source, Early(before, Source, policy), policy)
              /\ main_context = Laid(before, Part(Source, Early(before, Source, policy)), policy)
              /\ status # "threw" <=> Conflicts(before, Source, policy) = {}
  <1>1. Outcome = Merge(before, Source, policy)
    BY DEF IInv, LastMerge
  <1>2. Outcome.ok = (status # "threw") /\ Outcome.value = main_context
    BY DEF Outcome
  <1>3. CASE ~IsObject(Source[Root])
    <2>0. Outcome = Leave(before)
      BY <1>1, <1>3, MergeIs
    <2>1. Outcome.ok = TRUE /\ Outcome.value = before
      BY <2>0, OutcomeIs
    <2> QED
      BY <1>2, <1>3, <2>1
  <1>4. CASE IsObject(Source[Root])
    <2>1. /\ Outcome.ok = (Conflicts(before, Source, policy) = {})
          /\ Outcome.value = Laid(before, Part(Source, Early(before, Source, policy)), policy)
      BY <1>1, <1>4, MergeIs
    <2>2. main_context = Laid(before, Part(Source, Early(before, Source, policy)), policy)
      BY <1>2, <2>1
    <2>3. IsLaid(main_context, before, Source, Early(before, Source, policy), policy)
      BY <2>2, LaidIs
    <2> QED
      BY <1>2, <1>4, <2>1, <2>2, <2>3
  <1> QED
    BY <1>3, <1>4

\* In every turn of a merge, and when it throws, what the branch does not
\* mention is as it was.
THEOREM SparedAreKept == Spec => []OnlyMentionedChange
  <1>1. ASSUME IInv, merged > 0, NEW q \in DOMAIN before,
               ~IsObject(Source[Root]) \/ Spared(q, Source)
        PROVE  q \in DOMAIN main_context /\ main_context[q] = before[q]
    <2>1. CASE ~Resting
      <3>1. /\ IsObject(Source[Root])
            /\ WalkAt(before, Source, policy, left, main_context)
        BY <1>1, <2>1 DEF IInv, Walk, Resting
      <3>2. IsLaid(main_context, before, Source, Done(Source, left), policy)
        BY <3>1, LaidIs DEF WalkAt
      <3>3. Done(Source, left) \subseteq DOMAIN Source
        BY DEF Done
      <3> QED
        BY <1>1, <3>1, <3>2, <3>3, LaidSpares
    <2>2. CASE Resting /\ ~IsObject(Source[Root])
      BY <1>1, <2>2, LastMergeIs
    <2>3. CASE Resting /\ IsObject(Source[Root])
      <3>1. IsLaid(main_context, before, Source, Early(before, Source, policy), policy)
        BY <1>1, <2>3, LastMergeIs
      <3> QED
        BY <1>1, <2>3, <3>1, EarlyIsPart, LaidSpares
    <2> QED
      BY <2>1, <2>2, <2>3
  <1>2. IInv => OnlyMentionedChange
    BY <1>1 DEF OnlyMentionedChange
  <1> QED
    BY <1>2, Invariance, PTL

\* Where every strategy overwrites, a merge lays the branch over the context.
THEOREM OverwritingPatches == Spec => []MergesAsPatch
  <1>1. ASSUME IInv, Resting, merged > 0, \A s \in Strategies : Overwrites(s),
               IsObject(Source[Root])
        PROVE  status # "threw" /\ main_context = LaidOver(before, Source)
    <2>1. IsTree(before) /\ IsTree(Source) /\ IsPolicy(policy)
      BY <1>1, PartsAre DEF IInv
    <2>2. ASSUME NEW q \in DOMAIN before, q \in DOMAIN Source
          PROVE  /\ MergeValue(before[q], Source[q], StrategyFor(q, policy)).ok
                 /\ MergeValue(before[q], Source[q], StrategyFor(q, policy)).value = Source[q]
      <3> DEFINE strategy == StrategyFor(q, policy)
      <3>1. strategy \in Strategy /\ Overwrites(strategy)
        BY <1>1, <2>1, StrategyForIs DEF Strategies, AllStrategies
      <3>2. IsNode(before[q]) /\ IsNode(Source[q])
        BY <2>1, <2>2, TreeIs
      <3> HIDE DEF strategy
      <3>3. /\ MergeValue(before[q], Source[q], strategy).ok
            /\ MergeValue(before[q], Source[q], strategy).value = Source[q]
        BY <3>1, <3>2, MergeValueIs
      <3> QED
        BY <3>3 DEF strategy
    <2>3. Conflicts(before, Source, policy) = {}
      BY <2>2 DEF Conflicts
    <2>4. Early(before, Source, policy) = DOMAIN Source
      BY <2>3 DEF Early
    <2>5. status # "threw" /\ IsLaid(main_context, before, Source, DOMAIN Source, policy)
      BY <1>1, <2>3, <2>4, LastMergeIs
    <2>6. ASSUME NEW q
          PROVE  Spared(q, Part(Source, DOMAIN Source)) <=> Spared(q, Source)
      BY SparedIs DEF Spared
    <2>7. DOMAIN main_context = DOMAIN Source \cup {p \in DOMAIN before : Spared(p, Source)}
      BY <2>5, <2>6 DEF IsLaid
    <2>8. ASSUME NEW q \in DOMAIN main_context
          PROVE  main_context[q] = IF q \in DOMAIN Source THEN Source[q] ELSE before[q]
      <3>1. CASE q \in DOMAIN Source
        BY <2>2, <2>5, <3>1 DEF IsLaid
      <3>2. CASE q \notin DOMAIN Source
        BY <2>5, <2>6, <2>7, <3>2 DEF IsLaid
      <3> QED
        BY <3>1, <3>2
    <2>9. main_context = [q \in DOMAIN main_context |-> main_context[q]]
      BY <2>5 DEF IsLaid, IsMap
    <2>10. main_context = LaidOver(before, Source)
      BY <2>7, <2>8, <2>9 DEF LaidOver
    <2> QED
      BY <2>5, <2>10
  <1>2. IInv => MergesAsPatch
    BY <1>1 DEF MergesAsPatch
  <1> QED
    BY <1>2, Invariance, PTL

-----------------------------------------------------------------------------

\* Merging a branch again.

\* What conflicted conflicts again, and so no more is merged than was.
LEMMA ConflictsRemain ==
  ASSUME NEW t, IsTree(t), NEW s, IsTree(s), NEW p,
         NEW m, IsLaid(m, t, s, Early(t, s, p), p)
  PROVE  /\ Conflicts(t, s, p) \subseteq Conflicts(m, s, p)
         /\ Early(m, s, p) \subseteq Early(t, s, p)
  <1>1. DOMAIN s \subseteq Path
    BY TreeIs
  <1>2. ASSUME NEW c \in Conflicts(t, s, p)
        PROVE  c \in Conflicts(m, s, p)
    <2>1. c \in DOMAIN t /\ c \in DOMAIN s /\ ~MergeValue(t[c], s[c], StrategyFor(c, p)).ok
      BY DEF Conflicts
    <2>2. c \notin Early(t, s, p)
      BY <1>1, <2>1, BeforeOrder DEF Early
    <2>3. \A x \in Early(t, s, p) : Lists!IsStrictPrefix(x, c) => IsObject(s[x])
      BY <1>1, <2>1, TreeIs, ObjIsNode DEF Early
    <2>4. Spared(c, Part(s, Early(t, s, p)))
      BY <2>2, <2>3, SparedIs
    <2>5. c \in DOMAIN m /\ m[c] = t[c]
      BY <2>1, <2>4 DEF IsLaid
    <2> QED
      BY <2>1, <2>5 DEF Conflicts
  <1> QED
    BY <1>2 DEF Early

\* Laying a part of what was laid once more.
LEMMA LaidAgain ==
  ASSUME NEW t, IsTree(t), NEW s, IsTree(s), NEW p, IsPolicy(p),
         \A q \in DOMAIN s : StrategyFor(q, p) # "array_concat",
         NEW E, E \subseteq DOMAIN s, NEW m, IsLaid(m, t, s, E, p), NEW D, D \subseteq E
  PROVE  Laid(m, Part(s, D), p) = m
  <1> DEFINE n == Laid(m, Part(s, D), p)
  <1>1. IsLaid(n, m, s, D, p)
    BY LaidIs
  <1> HIDE DEF n
  <1>2. DOMAIN m = E \cup {q \in DOMAIN t : Spared(q, Part(s, E))}
    BY DEF IsLaid
  <1>3. DOMAIN s \subseteq Path
    BY TreeIs
  <1>4. ASSUME NEW r \in DOMAIN m, r \notin D
        PROVE  Spared(r, Part(s, D))
    <2>1. CASE r \in E
      <3>1. \A x \in D : Lists!IsStrictPrefix(x, r) => IsObject(s[x])
        BY <1>3, <2>1, TreeIs, ObjIsNode
      <3> QED
        BY <1>4, <3>1, SparedIs
    <2>2. CASE r \notin E
      <3>1. Spared(r, Part(s, E))
        BY <1>2, <1>4, <2>2
      <3> QED
        BY <1>4, <3>1, SparedIs
    <2> QED
      BY <2>1, <2>2
  <1>5. DOMAIN n = DOMAIN m
    <2>1. DOMAIN n = D \cup {q \in DOMAIN m : Spared(q, Part(s, D))}
      BY <1>1 DEF IsLaid
    <2> QED
      BY <1>2, <1>4, <2>1
  <1>6. ASSUME NEW q \in DOMAIN m PROVE n[q] = m[q]
    <2>1. CASE q \notin D
      BY <1>1, <1>4, <1>6, <2>1 DEF IsLaid
    <2>2. CASE q \in D
      <3> DEFINE strategy == StrategyFor(q, p)
      <3>1. strategy \in Strategy \ {"array_concat"} /\ q \in DOMAIN s /\ q \in E
        BY <2>2, StrategyForIs
      <3>2. n[q] = MergeValue(m[q], s[q], strategy).value
        BY <1>1, <2>2 DEF IsLaid
      <3>3. IsNode(s[q])
        BY <3>1, TreeIs
      <3>4. CASE q \in DOMAIN t
        <4>1. m[q] = MergeValue(t[q], s[q], strategy).value
          BY <3>1, <3>4 DEF IsLaid
        <4>2. IsNode(t[q])
          BY <3>4, TreeIs
        <4> HIDE DEF strategy
        <4> QED
          BY <3>1, <3>2, <3>3, <4>1, <4>2, MergeValueAgain
      <3>5. CASE q \notin DOMAIN t
        <4>1. m[q] = s[q]
          BY <3>1, <3>5 DEF IsLaid
        <4> HIDE DEF strategy
        <4>2. MergeValue(s[q], s[q], strategy).value = s[q]
          BY <3>1, <3>3, SelfMerge
        <4> QED
          BY <3>2, <4>1, <4>2
      <3> QED
        BY <3>4, <3>5
    <2> QED
      BY <2>1, <2>2
  <1>7. IsMap(n) /\ IsMap(m)
    BY <1>1 DEF IsLaid
  <1>8. n = m
    BY <1>5, <1>6, <1>7 DEF IsMap
  <1> QED
    BY <1>8 DEF n

\* Where nothing conflicted and arrays may be merged, nothing conflicts again.
LEMMA NoConflictAgain ==
  ASSUME NEW t, IsTree(t), NEW s, IsTree(s), NEW p, IsPolicy(p),
         \A q \in DOMAIN s : StrategyFor(q, p) \notin {"array_concat", "error_on_conflict"},
         Conflicts(t, s, p) = {}, NEW m, IsLaid(m, t, s, DOMAIN s, p)
  PROVE  Conflicts(m, s, p) = {}
  <1>1. ASSUME NEW q \in DOMAIN s
        PROVE  MergeValue(m[q], s[q], StrategyFor(q, p)).ok
    <2> DEFINE strategy == StrategyFor(q, p)
    <2>1. /\ strategy \in Strategy \ {"array_concat"} /\ strategy # "error_on_conflict"
          /\ IsNode(s[q])
      BY StrategyForIs, TreeIs
    <2>2. CASE q \in DOMAIN t
      <3>1. m[q] = MergeValue(t[q], s[q], strategy).value /\ IsNode(t[q])
        BY <2>2, TreeIs DEF IsLaid
      <3>2. MergeValue(t[q], s[q], strategy).ok
        BY <2>2 DEF Conflicts
      <3> HIDE DEF strategy
      <3>3. MergeValue(m[q], s[q], strategy).ok
        BY <2>1, <3>1, <3>2, MergeValueAgain
      <3> QED
        BY <3>3 DEF strategy
    <2>3. CASE q \notin DOMAIN t
      <3>1. m[q] = s[q]
        BY <2>3 DEF IsLaid
      <3> HIDE DEF strategy
      <3>2. MergeValue(s[q], s[q], strategy).ok
        BY <2>1, SelfMerge
      <3> QED
        BY <3>1, <3>2 DEF strategy
    <2> QED
      BY <2>2, <2>3
  <1> QED
    BY <1>1 DEF Conflicts

\* Merging a branch again, after a failure too, changes nothing more and ends
\* the same way.
THEOREM MergingIsIdempotent == Spec => []RepeatIsHarmless
  <1>1. ASSUME IInv, Resting, merged > 0, "array_concat" \notin Strategies
        PROVE  /\ Merge(main_context, Source, policy).value = main_context
               /\ status = "threw" => ~Merge(main_context, Source, policy).ok
               /\ "error_on_conflict" \notin Strategies =>
                    Merge(main_context, Source, policy).ok = Outcome.ok
    <2>1. IsTree(before) /\ IsTree(Source) /\ IsPolicy(policy)
      BY <1>1, PartsAre DEF IInv
    <2>2. Outcome.ok = (status # "threw")
      BY DEF Outcome
    <2>3. \A q : StrategyFor(q, policy) \in Strategies
      BY <2>1, StrategyForIs DEF Strategies, AllStrategies
    <2> DEFINE again == Merge(main_context, Source, policy)
               E == Early(before, Source, policy)
    <2>4. CASE ~IsObject(Source[Root])
      <3>1. again = Leave(main_context) /\ status # "threw"
        BY <1>1, <2>4, LastMergeIs, MergeIs
      <3>2. again.ok = TRUE /\ again.value = main_context
        BY <3>1, OutcomeIs
      <3> HIDE DEF again
      <3> QED
        BY <2>2, <3>1, <3>2 DEF again
    <2>5. CASE IsObject(Source[Root])
      <3>1. /\ IsLaid(main_context, before, Source, E, policy)
            /\ status # "threw" <=> Conflicts(before, Source, policy) = {}
        BY <1>1, <2>5, LastMergeIs
      <3>2. /\ again.ok = (Conflicts(main_context, Source, policy) = {})
            /\ again.value = Laid(main_context,
                                  Part(Source, Early(main_context, Source, policy)), policy)
        BY <2>5, MergeIs
      <3>3. /\ Conflicts(before, Source, policy) \subseteq Conflicts(main_context, Source, policy)
            /\ Early(main_context, Source, policy) \subseteq E
        BY <2>1, <3>1, ConflictsRemain
      <3>4. Laid(main_context, Part(Source, Early(main_context, Source, policy)), policy)
              = main_context
        <4>1. E \subseteq DOMAIN Source
          BY EarlyIsPart
        <4>2. \A q \in DOMAIN Source : StrategyFor(q, policy) # "array_concat"
          BY <1>1, <2>3
        <4> HIDE DEF E
        <4> QED
          BY <2>1, <3>1, <3>3, <4>1, <4>2, LaidAgain
      <3>5. ASSUME "error_on_conflict" \notin Strategies, status # "threw"
            PROVE  Conflicts(main_context, Source, policy) = {}
        <4>1. Conflicts(before, Source, policy) = {}
          BY <3>1, <3>5
        <4>2. E = DOMAIN Source
          BY <4>1 DEF Early
        <4>3. \A q \in DOMAIN Source :
                StrategyFor(q, policy) \notin {"array_concat", "error_on_conflict"}
          BY <1>1, <2>3, <3>5
        <4> HIDE DEF E
        <4> QED
          BY <2>1, <3>1, <4>1, <4>2, <4>3, NoConflictAgain
      <3> HIDE DEF again, E
      <3> QED
        BY <2>2, <3>1, <3>2, <3>3, <3>4, <3>5 DEF again
    <2> QED
      BY <2>4, <2>5
  <1>2. IInv => RepeatIsHarmless
    BY <1>1 DEF RepeatIsHarmless
  <1> QED
    BY <1>2, Invariance, PTL

-----------------------------------------------------------------------------

\* Where no strategy overwrites, nothing is lost.

LEMMA HoldsIs ==
  ASSUME NEW m, NEW u
  PROVE  Holds(m, u) <=> \A q \in DOMAIN u : q \in DOMAIN m /\ Kept(m[q], u[q])
  BY DEF Holds, Kept, HasAll

LEMMA HoldsOrder ==
  ASSUME NEW m, NEW t, NEW u
  PROVE  Holds(t, t) /\ (Holds(m, t) /\ Holds(t, u) => Holds(m, u))
  <1>1. Holds(t, t)
    BY HoldsIs, KeptOrder
  <1>2. ASSUME Holds(m, t), Holds(t, u), NEW q \in DOMAIN u
        PROVE  q \in DOMAIN m /\ Kept(m[q], u[q])
    <2>1. q \in DOMAIN t /\ Kept(t[q], u[q])
      BY <1>2, HoldsIs
    <2>2. q \in DOMAIN m /\ Kept(m[q], t[q])
      BY <1>2, <2>1, HoldsIs
    <2> QED
      BY <2>1, <2>2, KeptOrder
  <1>3. Holds(m, t) /\ Holds(t, u) => Holds(m, u)
    BY <1>2, HoldsIs
  <1> QED
    BY <1>1, <1>3

LEMMA LaidHolds ==
  ASSUME NEW t, IsTree(t), NEW s, IsTree(s), NEW p, IsPolicy(p),
         \A q : ~Overwrites(StrategyFor(q, p)),
         NEW D, D \subseteq DOMAIN s, \A q \in D : q \notin Conflicts(t, s, p),
         NEW m, IsLaid(m, t, s, D, p)
  PROVE  Holds(m, t) /\ (D = DOMAIN s => Holds(m, s))
  <1>1. ASSUME NEW q \in D, q \in DOMAIN t
        PROVE  /\ q \in DOMAIN m /\ Kept(m[q], t[q]) /\ Kept(m[q], s[q])
               /\ t[q] = Obj => s[q] = Obj
    <2> DEFINE strategy == StrategyFor(q, p)
               r == MergeValue(t[q], s[q], strategy)
    <2>1. strategy \in Strategy /\ ~Overwrites(strategy) /\ IsNode(t[q]) /\ IsNode(s[q])
      BY <1>1, StrategyForIs, TreeIs
    <2>2. r.ok
      BY <1>1 DEF Conflicts
    <2>3. q \in DOMAIN m /\ m[q] = r.value
      BY <1>1 DEF IsLaid
    <2> HIDE DEF strategy
    <2>4. Kept(r.value, t[q]) /\ Kept(r.value, s[q])
      BY <2>1, <2>2, MergeValueIs
    <2> HIDE DEF r
    <2>5. t[q] = Obj => s[q] = Obj
      BY <2>4, ObjIsNode DEF Kept
    <2> QED
      BY <2>3, <2>4, <2>5
  <1>2. ASSUME NEW q \in DOMAIN t, q \notin D
        PROVE  q \in DOMAIN m /\ m[q] = t[q]
    <2>1. ASSUME NEW x \in D, Lists!IsStrictPrefix(x, q) PROVE IsObject(s[x])
      <3>1. x \in Path
        BY TreeIs
      <3>2. x \in DOMAIN t /\ t[x] = Obj
        BY <2>1, <3>1, TreeIs
      <3> QED
        BY <1>1, <3>2, ObjIsNode
    <2>2. Spared(q, Part(s, D))
      BY <1>2, <2>1, SparedIs
    <2> QED
      BY <2>2 DEF IsLaid
  <1>3. Holds(m, t)
    <2>1. \A q \in DOMAIN t : q \in DOMAIN m /\ Kept(m[q], t[q])
      BY <1>1, <1>2, KeptOrder
    <2> QED
      BY <2>1, HoldsIs
  <1>4. ASSUME D = DOMAIN s PROVE Holds(m, s)
    <2>1. ASSUME NEW q \in DOMAIN s PROVE q \in DOMAIN m /\ Kept(m[q], s[q])
      <3>1. CASE q \in DOMAIN t
        BY <1>1, <1>4, <3>1
      <3>2. CASE q \notin DOMAIN t
        <4>1. q \in DOMAIN m /\ m[q] = s[q]
          BY <1>4, <3>2 DEF IsLaid
        <4> QED
          BY <4>1, KeptOrder
      <3> QED
        BY <3>1, <3>2
    <2> QED
      BY <2>1, HoldsIs
  <1> QED
    BY <1>3, <1>4

NoneOverwrites == \A s \in Strategies : ~Overwrites(s)

Saved(context, k) ==
  /\ Holds(context, base)
  /\ \A i \in 1..k : IsObject(results[i][Root]) => Holds(context, results[i])

\* What is held between merges, and what was while one is under way.
Saving ==
  NoneOverwrites =>
    Saved(IF Resting THEN main_context ELSE before,
          IF status \in {"joining", "merged"} THEN merged ELSE merged - 1)

LEMMA SavedOrder ==
  ASSUME NEW m, NEW t, NEW k, Saved(t, k), Holds(m, t)
  PROVE  Saved(m, k)
  BY HoldsOrder DEF Saved

LEMMA WalkHolds ==
  ASSUME IInv, status = "walking", NoneOverwrites
  PROVE  Holds(main_context, before) /\ (left = {} => Holds(main_context, Source))
  <1>1. merged > 0 /\ WalkAt(before, Source, policy, left, main_context)
    BY DEF IInv, Walk
  <1>2. IsTree(before) /\ IsTree(Source) /\ IsPolicy(policy)
    BY <1>1, PartsAre DEF IInv
  <1>3. \A q : ~Overwrites(StrategyFor(q, policy))
    BY <1>2, StrategyForIs DEF NoneOverwrites, Strategies, AllStrategies
  <1> DEFINE D == Done(Source, left)
  <1>4. IsLaid(main_context, before, Source, D, policy)
    BY <1>1, LaidIs DEF WalkAt
  <1>5. D \subseteq DOMAIN Source /\ (left = {} => D = DOMAIN Source)
    BY DEF Done
  <1>6. \A q \in D : q \notin Conflicts(before, Source, policy)
    BY <1>1 DEF WalkAt
  <1> HIDE DEF D
  <1> QED
    BY <1>2, <1>3, <1>4, <1>5, <1>6, LaidHolds

LEMMA NextKeepsSaving == ASSUME IInv, Saving, [Next]_vars PROVE Saving'
  <1>1. TypeOK /\ Parts /\ Walk
    BY DEF IInv
  <1>2. merged \in Nat
    BY <1>1, PartsAre
  <1>3. UNCHANGED <<policy, base, results>>
    BY DEF Next, vars, joinVars, SkipBranch, BeginBranch, TakeBranch, AddField, MergeObjects,
           MergeField, Conflict, EndBranch, AllMerged, Joined
  <1>4. NoneOverwrites' <=> NoneOverwrites
    BY <1>3 DEF NoneOverwrites, Strategies
  <1> SUFFICES ASSUME NoneOverwrites
               PROVE  Saved(IF Resting THEN main_context ELSE before,
                            IF status \in {"joining", "merged"} THEN merged ELSE merged - 1)'
    BY <1>4 DEF Saving
  <1>5. ASSUME NEW m, NEW k, Saved(m, k),
               m = IF Resting' THEN main_context' ELSE before',
               k = IF status' \in {"joining", "merged"} THEN merged' ELSE merged' - 1
        PROVE  Saved(IF Resting THEN main_context ELSE before,
                     IF status \in {"joining", "merged"} THEN merged ELSE merged - 1)'
    BY <1>3, <1>5 DEF Saved
  <1>6. CASE SkipBranch
    <2>1. /\ status = "joining" /\ merged' = merged + 1
          /\ UNCHANGED <<main_context, status>>
          /\ ~IsObject(results[merged + 1][Root])
      BY <1>6 DEF SkipBranch, TakeBranch
    <2>2. Saved(main_context, merged)
      BY <2>1 DEF Saving, Resting
    <2>3. \A i \in 1..(merged + 1) : i \in 1..merged \/ i = merged + 1
      BY <1>2
    <2>4. Saved(main_context, merged + 1)
      BY <2>1, <2>2, <2>3 DEF Saved
    <2> QED
      BY <1>5, <2>1, <2>4 DEF Resting
  <1>7. CASE BeginBranch
    <2>1. /\ status = "joining" /\ merged' = merged + 1 /\ before' = main_context
          /\ status' = "walking"
      BY <1>7, BeginBranchIs
    <2>2. Saved(main_context, merged)
      BY <2>1 DEF Saving, Resting
    <2>3. merged' - 1 = merged
      BY <1>2, <2>1
    <2> QED
      BY <1>5, <2>1, <2>2, <2>3 DEF Resting
  <1>8. CASE AddField \/ MergeObjects \/ MergeField
    <2>1. status = "walking" /\ UNCHANGED <<merged, status, before>>
      BY <1>1, <1>8, TurnIs DEF Turn
    <2>2. Saved(before, merged - 1)
      BY <2>1 DEF Saving, Resting
    <2> QED
      BY <1>5, <2>1, <2>2 DEF Resting
  <1>9. CASE Conflict
    <2>1. status = "walking" /\ status' = "threw" /\ UNCHANGED <<main_context, merged>>
      BY <1>1, <1>9, ConflictIs
    <2>2. Saved(before, merged - 1)
      BY <2>1 DEF Saving, Resting
    <2>3. Saved(main_context, merged - 1)
      BY <2>1, <2>2, WalkHolds, SavedOrder
    <2> QED
      BY <1>5, <2>1, <2>3 DEF Resting
  <1>10. CASE EndBranch
    <2>1. /\ status = "walking" /\ status' = "joining" /\ left = {}
          /\ UNCHANGED <<main_context, merged>>
      BY <1>1, <1>10, EndBranchIs
    <2>2. Saved(before, merged - 1)
      BY <2>1 DEF Saving, Resting
    <2>3. Saved(main_context, merged - 1) /\ Holds(main_context, results[merged])
      BY <2>1, <2>2, WalkHolds, SavedOrder DEF Source
    <2>4. \A i \in 1..merged : i \in 1..(merged - 1) \/ i = merged
      BY <1>2
    <2>5. Saved(main_context, merged)
      BY <2>3, <2>4 DEF Saved
    <2> QED
      BY <1>5, <2>1, <2>5 DEF Resting
  <1>11. CASE AllMerged
    <2>1. status = "joining" /\ status' = "merged" /\ UNCHANGED <<main_context, merged>>
      BY <1>11 DEF AllMerged
    <2>2. Saved(main_context, merged)
      BY <2>1 DEF Saving, Resting
    <2> QED
      BY <1>5, <2>1, <2>2 DEF Resting
  <1>12. CASE Joined \/ UNCHANGED vars
    <2>1. UNCHANGED <<main_context, merged, status, before>>
      BY <1>12 DEF Joined, vars
    <2> QED
      BY <1>5, <2>1 DEF Saving, Resting
  <1> QED
    BY <1>6, <1>7, <1>8, <1>9, <1>10, <1>11, <1>12 DEF Next

\* Where no strategy overwrites, every scalar of the base and of each merged
\* branch, and every item of its arrays, is in the main context to the end;
\* OnlyArraysJoin is not needed, for whatever else differs is a conflict.
THEOREM NoWriteIsLost == Spec => []NothingIsLost
  <1>1. Init => Saving
    <2>1. Init => Holds(base, base)
      BY HoldsOrder
    <2> QED
      BY <2>1 DEF Init, Saving, Saved, Resting
  <1>2. IInv /\ Saving /\ [Next]_vars => Saving'
    BY NextKeepsSaving
  <1>3. ASSUME IInv, Saving, NoneOverwrites
        PROVE  Saved(main_context,
                     IF status \in {"joining", "merged"} THEN merged ELSE merged - 1)
    <2>1. CASE Resting
      BY <1>3, <2>1 DEF Saving
    <2>2. CASE ~Resting
      <3>1. status = "walking" /\ Saved(before, merged - 1)
        BY <1>3, <2>2 DEF Saving, Resting
      <3>2. Saved(main_context, merged - 1)
        BY <1>3, <3>1, WalkHolds, SavedOrder
      <3> QED
        BY <3>1, <3>2
    <2> QED
      BY <2>1, <2>2
  <1>4. IInv /\ Saving => NothingIsLost
    BY <1>3 DEF NothingIsLost, NoneOverwrites, Saved
  <1> QED
    BY <1>1, <1>2, <1>4, Invariance, PTL DEF Spec

-----------------------------------------------------------------------------

\* The whole join: what it came to is what Joins says of all its branches.
LEMMA OutcomeIsJoin ==
  ASSUME IInv, status \in {"merged", "threw"}
  PROVE  JoinOf(base, results, policy) = Outcome
  <1> DEFINE J == Joins(base, results, policy)
  <1>1. /\ Len(results) \in Nat /\ merged \in 0..Len(results)
        /\ AreJoins(J, base, results, policy)
    BY PartsAre, JoinsIs DEF IInv, TypeOK
  <1>2. J[merged] = Outcome
    BY DEF IInv, AllMerges, Resting
  <1>3. JoinOf(base, results, policy) = J[Len(results)]
    BY DEF JoinOf
  <1> HIDE DEF J
  <1>4. CASE status = "merged"
    BY <1>2, <1>3, <1>4 DEF IInv, Ended
  <1>5. CASE status = "threw"
    <2>1. Outcome.ok = FALSE
      BY <1>5 DEF Outcome
    <2> DEFINE S == {d \in Nat : merged + d <= Len(results) => J[merged + d] = J[merged]}
    <2>2. 0 \in S
      BY <1>1
    <2>3. ASSUME NEW d \in Nat, d \in S PROVE d + 1 \in S
      <3> SUFFICES ASSUME merged + (d + 1) <= Len(results)
                   PROVE  J[merged + (d + 1)] = J[merged]
        OBVIOUS
      <3>1. J[merged + d] = J[merged]
        BY <1>1, <2>3
      <3> DEFINE k == merged + (d + 1)
      <3>2. k \in 1..Len(results) /\ k - 1 = merged + d
        BY <1>1
      <3> HIDE DEF k
      <3>3. J[k] = IF J[k-1].ok THEN Merge(J[k-1].value, results[k], policy) ELSE J[k-1]
        BY <1>1, <3>2 DEF AreJoins
      <3>4. J[k-1] = Outcome
        BY <1>2, <3>1, <3>2
      <3>5. J[k] = Outcome
        BY <2>1, <3>3, <3>4
      <3> QED
        BY <1>2, <3>5 DEF k
    <2> HIDE DEF S
    <2>4. Len(results) - merged \in S
      BY <1>1, <2>2, <2>3, InductiveSet
    <2>5. merged + (Len(results) - merged) = Len(results)
      BY <1>1
    <2> QED
      BY <1>1, <1>2, <1>3, <2>4, <2>5 DEF S
  <1> QED
    BY <1>4, <1>5

-----------------------------------------------------------------------------

\* The order of the patterns.

Reordered(p) == [p EXCEPT !.wild = Lists!Reverse(@)]

LEMMA ReversedIs ==
  ASSUME NEW S, NEW b \in Seq(S)
  PROVE  /\ Lists!Reverse(b) \in Seq(S) /\ Len(Lists!Reverse(b)) = Len(b) /\ Len(b) \in Nat
         /\ DOMAIN Lists!Reverse(b) = 1..Len(b)
         /\ \A i \in 1..Len(b) : Lists!Reverse(b)[i] = b[(Len(b) - i) + 1]
  <1>1. Len(b) \in Nat
    BY LenProperties
  <1>2. \A i \in 1..Len(b) : (Len(b) - i) + 1 \in 1..Len(b)
    BY <1>1
  <1>3. \A i \in 1..Len(b) : b[(Len(b) - i) + 1] \in S
    BY <1>2, ElementOfSeq
  <1>4. Lists!Reverse(b) = [i \in 1..Len(b) |-> b[(Len(b) - i) + 1]]
    BY DEF Lists!Reverse
  <1> QED
    BY <1>1, <1>3, <1>4

LEMMA ReorderedIs ==
  ASSUME NEW p, IsPolicy(p)
  PROVE  /\ IsPolicy(Reordered(p))
         /\ Reordered(p).default = p.default /\ Reordered(p).exact = p.exact
         /\ DOMAIN Reordered(p).wild = DOMAIN p.wild /\ DOMAIN p.wild = 1..Len(p.wild)
         /\ Len(p.wild) \in Nat
         /\ \A i \in 1..Len(p.wild) : Reordered(p).wild[i] = p.wild[(Len(p.wild) - i) + 1]
  <1> DEFINE r == Reordered(p)
  <1>1. /\ DOMAIN r = DOMAIN p /\ r.default = p.default /\ r.exact = p.exact
        /\ r.wild = Lists!Reverse(p.wild)
    BY DEF Reordered, IsPolicy
  <1>2. p.wild \in Seq(Pattern)
    BY DEF IsPolicy
  <1> HIDE DEF r
  <1>3. /\ r.wild \in Seq(Pattern) /\ DOMAIN r.wild = 1..Len(p.wild) /\ Len(p.wild) \in Nat
        /\ \A i \in 1..Len(p.wild) : r.wild[i] = p.wild[(Len(p.wild) - i) + 1]
    BY <1>1, <1>2, ReversedIs
  <1>4. DOMAIN p.wild = 1..Len(p.wild)
    BY PolicyIs
  <1>5. IsPolicy(r)
    BY <1>1, <1>3 DEF IsPolicy
  <1> QED
    BY <1>1, <1>3, <1>4, <1>5 DEF r

\* The strategy of a path whose patterns agree.
LEMMA StrategyOfReordered ==
  ASSUME NEW p, IsPolicy(p), NEW path,
         \A i, j \in Matching(path, p) : p.wild[i].strategy = p.wild[j].strategy
  PROVE  StrategyFor(path, Reordered(p)) = StrategyFor(path, p)
  <1> DEFINE r == Reordered(p)
             n == Len(p.wild)
  <1>1. /\ IsPolicy(r) /\ r.default = p.default /\ r.exact = p.exact
        /\ DOMAIN r.wild = 1..n /\ DOMAIN p.wild = 1..n /\ n \in Nat
        /\ \A i \in 1..n : r.wild[i] = p.wild[(n - i) + 1]
    BY ReorderedIs
  <1> HIDE DEF r, n
  <1>2. \A i \in 1..n : (n - i) + 1 \in 1..n /\ (n - ((n - i) + 1)) + 1 = i
    BY <1>1
  <1>3. \A i \in 1..n : i \in Matching(path, r) <=> (n - i) + 1 \in Matching(path, p)
    BY <1>1, <1>2 DEF Matching
  <1>4. Matching(path, p) \subseteq 1..n /\ Matching(path, r) \subseteq 1..n
    BY <1>1 DEF Matching
  <1>5. Matching(path, r) = {} <=> Matching(path, p) = {}
    BY <1>2, <1>3, <1>4
  <1>6. CASE path \in DOMAIN p.exact \/ Matching(path, p) = {}
    BY <1>1, <1>5, <1>6 DEF StrategyFor, r
  <1>7. CASE path \notin DOMAIN p.exact /\ Matching(path, p) # {}
    <2> DEFINE i == CHOOSE k \in Matching(path, p) : \A j \in Matching(path, p) : k <= j
               l == CHOOSE k \in Matching(path, r) : \A j \in Matching(path, r) : k <= j
    <2>1. i \in Matching(path, p)
      BY <1>7, FirstMatching
    <2>2. l \in Matching(path, r)
      BY <1>1, <1>5, <1>7, FirstMatching
    <2>3. StrategyFor(path, p) = p.wild[i].strategy
      BY <1>7 DEF StrategyFor
    <2>4. StrategyFor(path, r) = r.wild[l].strategy
      BY <1>1, <1>5, <1>7 DEF StrategyFor
    <2> HIDE DEF i, l
    <2>5. l \in 1..n /\ (n - l) + 1 \in Matching(path, p) /\ r.wild[l] = p.wild[(n - l) + 1]
      BY <1>1, <1>3, <1>4, <2>2
    <2>6. p.wild[(n - l) + 1].strategy = p.wild[i].strategy
      BY <2>1, <2>5
    <2> QED
      BY <2>3, <2>4, <2>5, <2>6 DEF r
  <1> QED
    BY <1>6, <1>7

\* Policies with the same strategy for every path of a branch merge it alike.
LEMMA SameStrategies ==
  ASSUME NEW t, NEW s, NEW p, NEW r,
         \A q \in DOMAIN s : StrategyFor(q, p) = StrategyFor(q, r)
  PROVE  Merge(t, s, p) = Merge(t, s, r)
  <1>2. Conflicts(t, s, p) = Conflicts(t, s, r)
    BY DEF Conflicts
  <1>3. Early(t, s, p) = Early(t, s, r)
    BY <1>2 DEF Early
  <1> DEFINE E == Early(t, s, p)
             m == Laid(t, Part(s, E), p)
             n == Laid(t, Part(s, E), r)
  <1>4. IsLaid(m, t, s, E, p) /\ IsLaid(n, t, s, E, r)
    BY LaidIs
  <1>5. E \subseteq DOMAIN s
    BY EarlyIsPart
  <1> HIDE DEF E, m, n
  <1>6. DOMAIN m = E \cup {q \in DOMAIN t : Spared(q, Part(s, E))} /\ DOMAIN n = DOMAIN m
    BY <1>4 DEF IsLaid
  <1>7. ASSUME NEW q \in DOMAIN m PROVE m[q] = n[q]
    <2>1. CASE q \in E
      <3>1. StrategyFor(q, p) = StrategyFor(q, r)
        BY <1>5, <2>1
      <3> QED
        BY <1>4, <2>1, <3>1 DEF IsLaid
    <2>2. CASE q \notin E
      <3>1. q \in DOMAIN t /\ Spared(q, Part(s, E))
        BY <1>6, <2>2
      <3> QED
        BY <1>4, <3>1 DEF IsLaid
    <2> QED
      BY <2>1, <2>2
  <1>8. m = n
    <2>1. IsMap(m) /\ IsMap(n)
      BY <1>4 DEF IsLaid
    <2> QED
      BY <1>6, <1>7, <2>1 DEF IsMap
  <1>9. CASE ~IsObject(s[Root])
    BY <1>9, MergeIs
  <1>10. CASE IsObject(s[Root])
    <2>1. Merge(t, s, p) = [ok |-> Conflicts(t, s, p) = {},
                            value |-> Laid(t, Part(s, Early(t, s, p)), p)]
      BY <1>10, MergeIs
    <2>2. Merge(t, s, r) = [ok |-> Conflicts(t, s, r) = {},
                            value |-> Laid(t, Part(s, Early(t, s, r)), r)]
      BY <1>10, MergeIs
    <2> QED
      BY <1>2, <1>3, <1>8, <2>1, <2>2 DEF E, m, n
  <1> QED
    BY <1>9, <1>10

\* Loops with equal turns come to the same.
LEMMA SameJoins ==
  ASSUME NEW c, NEW b, Len(b) \in Nat, NEW p, NEW r, NEW J, AreJoins(J, c, b, p),
         NEW K, AreJoins(K, c, b, r),
         \A t : \A i \in 1..Len(b) : Merge(t, b[i], p) = Merge(t, b[i], r)
  PROVE  J[Len(b)] = K[Len(b)]
  <1> DEFINE S == {k \in Nat : k <= Len(b) => J[k] = K[k]}
  <1>1. 0 \in S
    BY DEF AreJoins
  <1>2. ASSUME NEW k \in Nat, k \in S PROVE k + 1 \in S
    <2> SUFFICES ASSUME k + 1 <= Len(b) PROVE J[k + 1] = K[k + 1]
      OBVIOUS
    <2>1. J[k] = K[k]
      BY <1>2
    <2> DEFINE i == k + 1
    <2>2. i \in 1..Len(b) /\ i - 1 = k
      OBVIOUS
    <2> HIDE DEF i
    <2>3. J[i] = IF J[i-1].ok THEN Merge(J[i-1].value, b[i], p) ELSE J[i-1]
      BY <2>2 DEF AreJoins
    <2>4. K[i] = IF K[i-1].ok THEN Merge(K[i-1].value, b[i], r) ELSE K[i-1]
      BY <2>2 DEF AreJoins
    <2>5. Merge(J[i-1].value, b[i], p) = Merge(J[i-1].value, b[i], r)
      BY <2>2
    <2>6. J[i] = K[i]
      BY <2>1, <2>2, <2>3, <2>4, <2>5
    <2> QED
      BY <2>6 DEF i
  <1> HIDE DEF S
  <1>3. Len(b) \in S
    BY <1>1, <1>2, InductiveSet
  <1> QED
    BY <1>3 DEF S

\* The order in which the unordered map of patterns is iterated does not
\* matter, as long as patterns that match one path of a branch agree.
THEOREM PatternsCommute == Spec => []PatternOrderIsMoot
  <1>1. ASSUME IInv, status \in {"merged", "threw"}, PatternsAgree
        PROVE  JoinOf(base, results, Reordered(policy)) = Outcome
    <2> DEFINE r == Reordered(policy)
               J == Joins(base, results, policy)
               K == Joins(base, results, r)
    <2>1. IsPolicy(policy) /\ Len(results) \in Nat /\ DOMAIN results = 1..Len(results)
      BY <1>1, PartsAre DEF IInv
    <2>2. \A i \in 1..Len(results) : \A q \in DOMAIN results[i] :
            StrategyFor(q, policy) = StrategyFor(q, r)
      BY <1>1, <2>1, StrategyOfReordered DEF PatternsAgree
    <2>3. AreJoins(J, base, results, policy) /\ AreJoins(K, base, results, r)
      BY <2>1, JoinsIs
    <2> HIDE DEF r, J, K
    <2>4. \A t : \A i \in 1..Len(results) :
            Merge(t, results[i], policy) = Merge(t, results[i], r)
      BY <2>1, <2>2, SameStrategies
    <2>5. J[Len(results)] = K[Len(results)]
      BY <2>1, <2>3, <2>4, SameJoins
    <2>6. JoinOf(base, results, policy) = J[Len(results)]
          /\ JoinOf(base, results, r) = K[Len(results)]
      BY DEF JoinOf, J, K
    <2> QED
      BY <1>1, <2>5, <2>6, OutcomeIsJoin DEF r
  <1>2. IInv => PatternOrderIsMoot
    BY <1>1 DEF PatternOrderIsMoot, Reordered
  <1> QED
    BY <1>2, Invariance, PTL

-----------------------------------------------------------------------------

\* The order of the branches, where every conflict is an error.

OnlyErrors(p) == \A q : StrategyFor(q, p) = "error_on_conflict"

\* Two contexts differ where both have something, or both have an array.
Clash(t, s) == \E q \in DOMAIN t \cap DOMAIN s : t[q] # s[q] \/ IsArray(t[q])

LEMMA ClashSymmetric == ASSUME NEW t, NEW s PROVE Clash(t, s) <=> Clash(s, t)
  BY DEF Clash

\* m is a and b together.
Together(m, a, b) ==
  /\ IsMap(m) /\ IsTree(m)
  /\ \A q : q \in DOMAIN m <=> q \in DOMAIN a \/ q \in DOMAIN b
  /\ \A q \in DOMAIN a : m[q] = a[q]
  /\ \A q \in DOMAIN b : m[q] = b[q]

LEMMA StrictMerge ==
  ASSUME NEW t, IsTree(t), NEW s, IsTree(s), IsObject(s[Root]),
         NEW p, IsPolicy(p), OnlyErrors(p)
  PROVE  /\ Merge(t, s, p).ok \in BOOLEAN
         /\ Merge(t, s, p).ok <=> ~Clash(t, s)
         /\ Merge(t, s, p).ok => Together(Merge(t, s, p).value, t, s)
  <1>1. ASSUME NEW q \in DOMAIN t, q \in DOMAIN s
        PROVE  LET r == MergeValue(t[q], s[q], StrategyFor(q, p)) IN
               /\ r.ok <=> t[q] = s[q] /\ ~IsArray(t[q])
               /\ r.ok => r.value = t[q]
    <2>1. IsNode(t[q]) /\ IsNode(s[q]) /\ StrategyFor(q, p) = "error_on_conflict"
      BY <1>1, TreeIs DEF OnlyErrors
    <2>2. "error_on_conflict" \in Strategy
      BY DEF Strategy
    <2> QED
      BY <2>1, <2>2, MergeValueIs
  <1>2. Conflicts(t, s, p) = {} <=> ~Clash(t, s)
    BY <1>1 DEF Conflicts, Clash
  <1>3. /\ Merge(t, s, p).ok = (Conflicts(t, s, p) = {})
        /\ Merge(t, s, p).value = Laid(t, Part(s, Early(t, s, p)), p)
    BY MergeIs
  <1>4. ASSUME Conflicts(t, s, p) = {}
        PROVE  Together(Merge(t, s, p).value, t, s)
    <2> DEFINE m == Laid(t, Part(s, DOMAIN s), p)
    <2>1. Early(t, s, p) = DOMAIN s
      BY <1>4 DEF Early
    <2>2. Merge(t, s, p).value = m
      BY <1>3, <2>1
    <2>3. IsLaid(m, t, s, DOMAIN s, p)
      BY LaidIs
    <2>4. IsTree(m)
      <3>1. Upper(DOMAIN s, s)
        BY DEF Upper
      <3> QED
        BY <1>4, <3>1, LaidTree
    <2> HIDE DEF m
    <2>5. ASSUME NEW q \in DOMAIN t, q \in DOMAIN s PROVE m[q] = t[q] /\ t[q] = s[q]
      <3>1. MergeValue(t[q], s[q], StrategyFor(q, p)).ok
        BY <1>4, <2>5 DEF Conflicts
      <3> QED
        BY <1>1, <2>3, <2>5, <3>1 DEF IsLaid
    <2>6. ASSUME NEW q \in DOMAIN t, q \notin DOMAIN s PROVE q \in DOMAIN m /\ m[q] = t[q]
      <3>1. ASSUME NEW x \in DOMAIN s, Lists!IsStrictPrefix(x, q) PROVE IsObject(s[x])
        <4>1. x \in Path
          BY TreeIs
        <4>2. x \in DOMAIN t /\ t[x] = Obj
          BY <3>1, <4>1, TreeIs
        <4> QED
          BY <2>5, <4>2, ObjIsNode
      <3>2. Spared(q, Part(s, DOMAIN s))
        BY <2>6, <3>1, SparedIs
      <3> QED
        BY <2>3, <3>2 DEF IsLaid
    <2>7. \A q : q \in DOMAIN m <=> q \in DOMAIN t \/ q \in DOMAIN s
      BY <2>3, <2>6 DEF IsLaid
    <2>8. \A q \in DOMAIN t : m[q] = t[q]
      BY <2>5, <2>6
    <2>9. \A q \in DOMAIN s : m[q] = s[q]
      BY <2>3, <2>5 DEF IsLaid
    <2>10. Together(m, t, s)
      BY <2>3, <2>4, <2>7, <2>8, <2>9 DEF Together, IsLaid
    <2> QED
      BY <2>2, <2>10
  <1> QED
    BY <1>2, <1>3, <1>4

\* The first n branches, and m is all of them and c together.
Counts(b, i) == IsObject(b[i][Root])

Peaceful(c, b, n) ==
  \A i \in 1..n : Counts(b, i) =>
    /\ ~Clash(c, b[i])
    /\ \A j \in 1..n : j # i /\ Counts(b, j) => ~Clash(b[j], b[i])

Unites(m, c, b, n) ==
  /\ IsMap(m) /\ IsTree(m)
  /\ \A q : q \in DOMAIN m <=> q \in DOMAIN c \/ \E i \in 1..n : Counts(b, i) /\ q \in DOMAIN b[i]
  /\ \A q \in DOMAIN c : m[q] = c[q]
  /\ \A i \in 1..n : Counts(b, i) => \A q \in DOMAIN b[i] : m[q] = b[i][q]

LEMMA PeaceOfOneMore ==
  ASSUME NEW c, NEW b, NEW n \in Nat
  PROVE  Peaceful(c, b, n + 1) <=>
           /\ Peaceful(c, b, n)
           /\ Counts(b, n + 1) =>
                /\ ~Clash(c, b[n+1])
                /\ \A i \in 1..n : Counts(b, i) => ~Clash(b[i], b[n+1])
  <1>1. \A i : i \in 1..(n + 1) <=> i \in 1..n \/ i = n + 1
    OBVIOUS
  <1>2. n + 1 \notin 1..n
    OBVIOUS
  <1>3. \A i : Clash(b[i], b[n+1]) <=> Clash(b[n+1], b[i])
    BY ClashSymmetric
  <1>4. ASSUME Peaceful(c, b, n + 1)
        PROVE  /\ Peaceful(c, b, n)
               /\ Counts(b, n + 1) =>
                    /\ ~Clash(c, b[n+1])
                    /\ \A i \in 1..n : Counts(b, i) => ~Clash(b[i], b[n+1])
    BY <1>1, <1>2, <1>4 DEF Peaceful
  <1>5. ASSUME Peaceful(c, b, n),
               Counts(b, n + 1) =>
                 /\ ~Clash(c, b[n+1])
                 /\ \A i \in 1..n : Counts(b, i) => ~Clash(b[i], b[n+1])
        PROVE  Peaceful(c, b, n + 1)
    <2> SUFFICES ASSUME NEW i \in 1..(n + 1), Counts(b, i)
                 PROVE  /\ ~Clash(c, b[i])
                        /\ \A j \in 1..(n + 1) : j # i /\ Counts(b, j) => ~Clash(b[j], b[i])
      BY DEF Peaceful
    <2>1. CASE i = n + 1
      BY <1>1, <1>5, <2>1
    <2>2. CASE i \in 1..n
      <3>1. ~Clash(c, b[i]) /\ \A j \in 1..n : j # i /\ Counts(b, j) => ~Clash(b[j], b[i])
        BY <1>5, <2>2 DEF Peaceful
      <3>2. Counts(b, n + 1) => ~Clash(b[n+1], b[i])
        BY <1>3, <1>5, <2>2
      <3> QED
        BY <1>1, <3>1, <3>2
    <2> QED
      BY <1>1, <2>1, <2>2
  <1> QED
    BY <1>4, <1>5

LEMMA ClashOfUnited ==
  ASSUME NEW c, NEW b, NEW n \in Nat, NEW m, Unites(m, c, b, n), NEW s
  PROVE  Clash(m, s) <=> Clash(c, s) \/ \E i \in 1..n : Counts(b, i) /\ Clash(b[i], s)
  <1>1. ASSUME Clash(m, s)
        PROVE  Clash(c, s) \/ \E i \in 1..n : Counts(b, i) /\ Clash(b[i], s)
    <2>1. PICK q \in DOMAIN m \cap DOMAIN s : m[q] # s[q] \/ IsArray(m[q])
      BY <1>1 DEF Clash
    <2>2. CASE q \in DOMAIN c
      <3>1. m[q] = c[q]
        BY <2>2 DEF Unites
      <3> QED
        BY <2>1, <2>2, <3>1 DEF Clash
    <2>3. ASSUME NEW i \in 1..n, Counts(b, i), q \in DOMAIN b[i]
          PROVE  Clash(b[i], s)
      <3>1. m[q] = b[i][q]
        BY <2>3 DEF Unites
      <3> QED
        BY <2>1, <2>3, <3>1 DEF Clash
    <2>4. q \in DOMAIN c \/ \E i \in 1..n : Counts(b, i) /\ q \in DOMAIN b[i]
      BY <2>1 DEF Unites
    <2> QED
      BY <2>2, <2>3, <2>4
  <1>2. ASSUME Clash(c, s) PROVE Clash(m, s)
    <2>1. PICK q \in DOMAIN c \cap DOMAIN s : c[q] # s[q] \/ IsArray(c[q])
      BY <1>2 DEF Clash
    <2>2. q \in DOMAIN m /\ m[q] = c[q]
      BY <2>1 DEF Unites
    <2> QED
      BY <2>1, <2>2 DEF Clash
  <1>3. ASSUME NEW i \in 1..n, Counts(b, i), Clash(b[i], s) PROVE Clash(m, s)
    <2>1. PICK q \in DOMAIN b[i] \cap DOMAIN s : b[i][q] # s[q] \/ IsArray(b[i][q])
      BY <1>3 DEF Clash
    <2>2. q \in DOMAIN m /\ m[q] = b[i][q]
      BY <1>3, <2>1 DEF Unites
    <2> QED
      BY <2>1, <2>2 DEF Clash
  <1> QED
    BY <1>1, <1>2, <1>3

LEMMA OneMoreUnited ==
  ASSUME NEW c, NEW b, NEW n \in Nat, NEW m, Unites(m, c, b, n),
         Counts(b, n + 1), NEW new, Together(new, m, b[n+1])
  PROVE  Unites(new, c, b, n + 1)
  <1>1. \A i : i \in 1..(n + 1) <=> i \in 1..n \/ i = n + 1
    OBVIOUS
  <1>2. ASSUME NEW q
        PROVE  q \in DOMAIN new <=>
                 q \in DOMAIN c \/ \E i \in 1..(n + 1) : Counts(b, i) /\ q \in DOMAIN b[i]
    <2>1. q \in DOMAIN new <=> q \in DOMAIN m \/ q \in DOMAIN b[n+1]
      BY DEF Together
    <2>2. q \in DOMAIN m <=> q \in DOMAIN c \/ \E i \in 1..n : Counts(b, i) /\ q \in DOMAIN b[i]
      BY DEF Unites
    <2> QED
      BY <1>1, <2>1, <2>2
  <1>3. \A q \in DOMAIN c : new[q] = c[q]
    BY DEF Together, Unites
  <1>4. ASSUME NEW i \in 1..(n + 1), Counts(b, i), NEW q \in DOMAIN b[i]
        PROVE  new[q] = b[i][q]
    <2>1. CASE i \in 1..n
      <3>1. q \in DOMAIN m /\ m[q] = b[i][q]
        BY <1>4, <2>1 DEF Unites
      <3> QED
        BY <3>1 DEF Together
    <2>2. CASE i = n + 1
      BY <1>4, <2>2 DEF Together
    <2> QED
      BY <1>1, <2>1, <2>2
  <1> QED
    BY <1>2, <1>3, <1>4 DEF Unites, Together

\* A join without strategies succeeds exactly where no two of its contexts
\* clash, and makes them all together.
LEMMA StrictJoin ==
  ASSUME NEW c, IsTree(c), NEW b, Len(b) \in Nat, \A i \in 1..Len(b) : IsTree(b[i]),
         NEW p, IsPolicy(p), OnlyErrors(p), NEW J, AreJoins(J, c, b, p)
  PROVE  /\ J[Len(b)].ok \in BOOLEAN
         /\ J[Len(b)].ok <=> Peaceful(c, b, Len(b))
         /\ J[Len(b)].ok => Unites(J[Len(b)].value, c, b, Len(b))
  <1> DEFINE Good(r, n) == /\ r.ok \in BOOLEAN
                           /\ r.ok <=> Peaceful(c, b, n)
                           /\ r.ok => Unites(r.value, c, b, n)
             S == {n \in Nat : n <= Len(b) => Good(J[n], n)}
  <1>1. 0 \in S
    <2>1. J[0].ok = TRUE /\ J[0].value = c
      BY OutcomeIs DEF AreJoins
    <2>2. Peaceful(c, b, 0)
      BY DEF Peaceful
    <2>3. Unites(c, c, b, 0)
      BY TreeIs DEF Unites, IsMap
    <2> QED
      BY <2>1, <2>2, <2>3
  <1>2. ASSUME NEW n \in Nat, n \in S PROVE n + 1 \in S
    <2> SUFFICES ASSUME n + 1 <= Len(b) PROVE Good(J[n + 1], n + 1)
      OBVIOUS
    <2>1. Good(J[n], n)
      BY <1>2
    <2> DEFINE s == b[n + 1]
    <2>2. J[n + 1] = IF J[n].ok THEN Merge(J[n].value, s, p) ELSE J[n]
      <3> DEFINE i == n + 1
      <3>1. i \in 1..Len(b) /\ i - 1 = n
        OBVIOUS
      <3> HIDE DEF i
      <3>2. J[i] = IF J[i-1].ok THEN Merge(J[i-1].value, b[i], p) ELSE J[i-1]
        BY <3>1 DEF AreJoins
      <3>3. J[i] = IF J[n].ok THEN Merge(J[n].value, b[i], p) ELSE J[n]
        BY <3>1, <3>2
      <3> QED
        BY <3>3 DEF i
    <2>3. IsTree(s)
      OBVIOUS
    <2>4. Peaceful(c, b, n + 1) <=>
            /\ Peaceful(c, b, n)
            /\ Counts(b, n + 1) =>
                 /\ ~Clash(c, s)
                 /\ \A i \in 1..n : Counts(b, i) => ~Clash(b[i], s)
      BY PeaceOfOneMore
    <2>5. CASE ~J[n].ok
      BY <2>1, <2>2, <2>4, <2>5
    <2>6. CASE J[n].ok /\ ~Counts(b, n + 1)
      <3> DEFINE m == J[n].value
      <3>1. J[n + 1] = Leave(m)
        BY <2>2, <2>6, MergeIs DEF Counts
      <3>2. J[n + 1].ok = TRUE /\ J[n + 1].value = m
        BY <3>1, OutcomeIs
      <3>3. Unites(m, c, b, n)
        BY <2>1, <2>6
      <3> HIDE DEF m
      <3>4. \A i : i \in 1..(n + 1) <=> i \in 1..n \/ i = n + 1
        OBVIOUS
      <3>5. \A q : (\E i \in 1..(n + 1) : Counts(b, i) /\ q \in DOMAIN b[i]) <=>
                   (\E i \in 1..n : Counts(b, i) /\ q \in DOMAIN b[i])
        BY <2>6, <3>4
      <3>6. Unites(m, c, b, n + 1)
        BY <2>6, <3>3, <3>4, <3>5 DEF Unites
      <3> QED
        BY <2>1, <2>4, <2>6, <3>2, <3>6
    <2>7. CASE J[n].ok /\ Counts(b, n + 1)
      <3> DEFINE m == J[n].value
                 r == Merge(m, s, p)
      <3>1. Unites(m, c, b, n) /\ Peaceful(c, b, n)
        BY <2>1, <2>7
      <3>2. J[n + 1] = r
        BY <2>2, <2>7
      <3> HIDE DEF m
      <3>3. IsTree(m) /\ IsObject(s[Root])
        BY <2>7, <3>1 DEF Unites, Counts
      <3> HIDE DEF s
      <3>4. r.ok \in BOOLEAN /\ (r.ok <=> ~Clash(m, s)) /\ (r.ok => Together(r.value, m, s))
        BY <2>3, <3>3, StrictMerge
      <3> HIDE DEF r
      <3>5. Clash(m, s) <=> Clash(c, s) \/ \E i \in 1..n : Counts(b, i) /\ Clash(b[i], s)
        BY <3>1, ClashOfUnited
      <3>6. r.ok <=> Peaceful(c, b, n + 1)
        BY <2>4, <2>7, <3>1, <3>4, <3>5
      <3>7. r.ok => Unites(r.value, c, b, n + 1)
        BY <2>7, <3>1, <3>4, OneMoreUnited DEF s
      <3> QED
        BY <3>2, <3>4, <3>6, <3>7
    <2> QED
      BY <2>5, <2>6, <2>7
  <1> HIDE DEF S
  <1>3. Len(b) \in S
    BY <1>1, <1>2, InductiveSet
  <1> QED
    BY <1>3 DEF S

\* Read backwards, the branches are as peaceful, and make the same together.
LEMMA PeaceReversed ==
  ASSUME NEW c, NEW b, NEW n \in Nat, NEW d, \A i \in 1..n : d[i] = b[(n - i) + 1]
  PROVE  Peaceful(c, b, n) => Peaceful(c, d, n)
  <1> SUFFICES ASSUME Peaceful(c, b, n), NEW i \in 1..n, Counts(d, i)
               PROVE  /\ ~Clash(c, d[i])
                      /\ \A j \in 1..n : j # i /\ Counts(d, j) => ~Clash(d[j], d[i])
    BY DEF Peaceful
  <1> DEFINE k == (n - i) + 1
  <1>1. k \in 1..n /\ d[i] = b[k]
    OBVIOUS
  <1>2. Counts(b, k)
    BY <1>1 DEF Counts
  <1>3. ~Clash(c, b[k]) /\ \A l \in 1..n : l # k /\ Counts(b, l) => ~Clash(b[l], b[k])
    <2> HIDE DEF k
    <2> QED
      BY <1>1, <1>2 DEF Peaceful
  <1>4. ASSUME NEW j \in 1..n, j # i, Counts(d, j) PROVE ~Clash(d[j], d[i])
    <2> DEFINE l == (n - j) + 1
    <2>1. l \in 1..n /\ d[j] = b[l] /\ l # k
      BY <1>4
    <2>2. Counts(b, l)
      BY <1>4, <2>1 DEF Counts
    <2> HIDE DEF k, l
    <2> QED
      BY <1>1, <1>3, <2>1, <2>2
  <1> QED
    BY <1>1, <1>3, <1>4

LEMMA UnitedReversed ==
  ASSUME NEW c, NEW b, NEW n \in Nat, NEW d, \A i \in 1..n : d[i] = b[(n - i) + 1],
         NEW m, Unites(m, c, b, n), NEW o, Unites(o, c, d, n)
  PROVE  m = o
  <1>1. \A i \in 1..n : (n - i) + 1 \in 1..n /\ (n - ((n - i) + 1)) + 1 = i
    OBVIOUS
  <1>2. \A i \in 1..n : b[i] = d[(n - i) + 1]
    BY <1>1
  <1>3. ASSUME NEW q, NEW i \in 1..n, Counts(b, i), q \in DOMAIN b[i]
        PROVE  q \in DOMAIN m /\ q \in DOMAIN o /\ m[q] = b[i][q] /\ o[q] = b[i][q]
    <2>1. q \in DOMAIN m /\ m[q] = b[i][q]
      BY <1>3 DEF Unites
    <2> DEFINE k == (n - i) + 1
    <2>2. k \in 1..n /\ d[k] = b[i]
      BY <1>1, <1>2
    <2> HIDE DEF k
    <2>3. Counts(d, k) /\ q \in DOMAIN d[k]
      BY <1>3, <2>2 DEF Counts
    <2>4. q \in DOMAIN o /\ o[q] = d[k][q]
      BY <2>2, <2>3 DEF Unites
    <2> QED
      BY <2>1, <2>2, <2>4
  <1>4. ASSUME NEW q, NEW i \in 1..n, Counts(d, i), q \in DOMAIN d[i]
        PROVE  q \in DOMAIN m
    <2> DEFINE k == (n - i) + 1
    <2>1. k \in 1..n /\ b[k] = d[i]
      BY <1>1
    <2> HIDE DEF k
    <2>2. Counts(b, k) /\ q \in DOMAIN b[k]
      BY <1>4, <2>1 DEF Counts
    <2> QED
      BY <1>3, <2>1, <2>2
  <1>5. \A q \in DOMAIN c : q \in DOMAIN m /\ q \in DOMAIN o /\ m[q] = c[q] /\ o[q] = c[q]
    BY DEF Unites
  <1>6. ASSUME NEW q \in DOMAIN m PROVE q \in DOMAIN o /\ m[q] = o[q]
    <2>1. q \in DOMAIN c \/ \E i \in 1..n : Counts(b, i) /\ q \in DOMAIN b[i]
      BY DEF Unites
    <2> QED
      BY <1>3, <1>5, <2>1
  <1>7. ASSUME NEW q \in DOMAIN o PROVE q \in DOMAIN m
    <2>1. q \in DOMAIN c \/ \E i \in 1..n : Counts(d, i) /\ q \in DOMAIN d[i]
      BY DEF Unites
    <2> QED
      BY <1>4, <1>5, <2>1
  <1>8. DOMAIN m = DOMAIN o
    BY <1>6, <1>7
  <1> QED
    BY <1>6, <1>8 DEF Unites, IsMap

\* Whether branches conflict, and what they make together when they do not,
\* does not depend on the order they are merged in.
THEOREM BranchesCommute == Spec => []ConflictsAreSymmetric
  <1>1. ASSUME IInv, status \in {"merged", "threw"}, Strategies = {"error_on_conflict"}
        PROVE  LET other == JoinOf(base, Lists!Reverse(results), policy) IN
                 /\ other.ok = Outcome.ok
                 /\ other.ok => other.value = main_context
    <2> DEFINE n == Len(results)
               d == Lists!Reverse(results)
               J == Joins(base, results, policy)
               K == Joins(base, d, policy)
    <2>1. /\ IsPolicy(policy) /\ IsTree(base) /\ n \in Nat
          /\ \A i \in 1..n : IsTree(results[i])
      BY <1>1, PartsAre DEF IInv
    <2>2. OnlyErrors(policy)
      <3>1. \A q : StrategyFor(q, policy) \in Strategies
        BY <2>1, StrategyForIs DEF Strategies, AllStrategies
      <3> QED
        BY <1>1, <3>1 DEF OnlyErrors
    <2>3. Len(d) = n /\ \A i \in 1..n : d[i] = results[(n - i) + 1]
      BY <1>1, ReversedIs DEF IInv, Parts
    <2>4. AreJoins(J, base, results, policy)
      BY <2>1, JoinsIs
    <2>5. AreJoins(K, base, d, policy)
      <3> HIDE DEF d
      <3> QED
        BY <2>1, <2>3, JoinsIs
    <2>6. JoinOf(base, results, policy) = J[n]
      BY DEF JoinOf
    <2>7. JoinOf(base, d, policy) = K[n]
      <3> HIDE DEF d, n
      <3> QED
        BY <2>3 DEF JoinOf
    <2>8. J[n] = Outcome
      BY <1>1, <2>6, OutcomeIsJoin
    <2> HIDE DEF J, K, d
    <2>9. \A i \in 1..n : (n - i) + 1 \in 1..n /\ (n - ((n - i) + 1)) + 1 = i
      BY <2>1
    <2>10. /\ J[n].ok \in BOOLEAN
           /\ J[n].ok <=> Peaceful(base, results, n)
           /\ J[n].ok => Unites(J[n].value, base, results, n)
      BY <2>1, <2>2, <2>4, StrictJoin
    <2> HIDE DEF n
    <2>11. \A i \in 1..n : IsTree(d[i])
      BY <2>1, <2>3, <2>9
    <2>12. /\ K[n].ok \in BOOLEAN
           /\ K[n].ok <=> Peaceful(base, d, n)
           /\ K[n].ok => Unites(K[n].value, base, d, n)
      BY <2>1, <2>2, <2>3, <2>5, <2>11, StrictJoin
    <2>13. Peaceful(base, results, n) <=> Peaceful(base, d, n)
      <3>1. Peaceful(base, results, n) => Peaceful(base, d, n)
        BY <2>1, <2>3, PeaceReversed
      <3>2. \A i \in 1..n : results[i] = d[(n - i) + 1]
        BY <2>3, <2>9
      <3>3. Peaceful(base, d, n) => Peaceful(base, results, n)
        BY <2>1, <3>2, PeaceReversed
      <3> QED
        BY <3>1, <3>3
    <2>14. K[n].ok => K[n].value = J[n].value
      BY <2>1, <2>3, <2>10, <2>12, <2>13, UnitedReversed
    <2>15. J[n].value = main_context /\ J[n].ok = Outcome.ok
      BY <2>8 DEF Outcome
    <2>16. K[n].ok = Outcome.ok /\ (K[n].ok => K[n].value = main_context)
      BY <2>10, <2>12, <2>13, <2>14, <2>15
    <2> QED
      BY <2>7, <2>16 DEF d
  <1>2. IInv => ConflictsAreSymmetric
    BY <1>1 DEF ConflictsAreSymmetric
  <1> QED
    BY <1>2, Invariance, PTL
==============================================================================
