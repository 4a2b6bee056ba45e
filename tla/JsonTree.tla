------------------------------- MODULE JsonTree -------------------------------
(***************************************************************************)
(* A nested JSON value as a tree: a function from the paths of its fields  *)
(* to what is there, an array (whole, with its items), a scalar or the     *)
(* mark of an object.  A path is the sequence of keys that leads to a      *)
(* field; the value itself is at the empty path.  Keys are compared as     *)
(* strings: here they are numbers in that order.                           *)
(***************************************************************************)
EXTENDS Json

CONSTANTS Key,      \* keys of objects, as numbers in the order of the strings
          Item      \* what arrays hold: it is compared and never looked into

ASSUME KeyAssumption == Key \subseteq Int

Path == Seq(Key)

Root == << >>
Obj == [kind |-> "object"]

IsNode(v) == \/ v = Obj
             \/ ~IsObject(v) /\ ~IsArray(v)
             \/ IsArray(v) /\ v.items \in Seq(Item) /\ v = Array(v.items)

\* Every path of a tree but the empty one leads through objects.
IsTree(t) ==
  /\ t = [p \in DOMAIN t |-> t[p]]
  /\ Root \in DOMAIN t /\ DOMAIN t \subseteq Path
  /\ \A p \in DOMAIN t :
       /\ IsNode(t[p])
       /\ \A n \in 0..(Len(p) - 1) : SubSeq(p, 1, n) \in DOMAIN t /\ t[SubSeq(p, 1, n)] = Obj

\* The order in which nested loops over sorted keys come to the paths.
Before(p, q) ==
  \/ Lists!IsStrictPrefix(p, q)
  \/ \E i \in DOMAIN p \cap DOMAIN q :
        p[i] < q[i] /\ \A j \in 1..(i - 1) : p[j] = q[j]

\* t[p] = v, where v has below it what source has below p.
Assign(t, p, v, source) ==
  [q \in {r \in DOMAIN t : ~Lists!IsPrefix(p, r)} \cup {r \in DOMAIN source : Lists!IsPrefix(p, r)} |->
     IF q = p THEN v ELSE IF Lists!IsPrefix(p, q) THEN source[q] ELSE t[q]]
==============================================================================
