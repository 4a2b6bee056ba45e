------------------------- MODULE ContextEngineProofs -------------------------
(***************************************************************************)
(* The snapshot store never wraps its size counter, can always evict what  *)
(* it holds, and respects its limits between calls, for every set of keys, *)
(* contexts, sizes and limits.                                             *)
(***************************************************************************)
EXTENDS ContextEngine, FiniteSetTheorems, SequenceTheorems, TLAPS

\* The part of StoredKb that belongs to one key.
Slice(k) == {k} \X (1..Kb[snapshots[k]])

\* Cardinalities below are of finite sets.
Finite == IsFiniteSet(DOMAIN snapshots) /\ IsFiniteSet(StoredKb)

\* Outside set_snapshot_limits the eviction loop has nothing to do: this is
\* what keeps the limits between calls and what makes saving keep snapshots.
NothingToEvict == ~InLimits => ~Evicting

IInv == /\ TypeOK
        /\ Finite
        /\ StoredIsListed
        /\ TotalCoversStored
        /\ NothingToEvict

\* The types of the three parts of the store, without the quantifier.
LEMMA StoreType ==
  ASSUME TypeOK
  PROVE  /\ DOMAIN snapshots \subseteq Key
         /\ snapshots = [k \in DOMAIN snapshots |-> snapshots[k]]
         /\ \A k \in DOMAIN snapshots : /\ snapshots[k] \in Ctx
                                        /\ Kb[snapshots[k]] \in Nat \ {0}
  BY ContextAssumption DEF TypeOK

\* A box of KBs has as many elements as it has KBs.
LEMMA SliceSize ==
  ASSUME NEW k, NEW n \in Nat
  PROVE  /\ IsFiniteSet({k} \X (1..n))
         /\ Cardinality({k} \X (1..n)) = n
  <1>1. IsFiniteSet({k}) /\ Cardinality({k}) = 1
    BY FS_Singleton
  <1>2. IsFiniteSet(1..n) /\ Cardinality(1..n) = n
    BY FS_Interval
  <1>3. /\ IsFiniteSet({k} \X (1..n))
        /\ Cardinality({k} \X (1..n)) = Cardinality({k}) * Cardinality(1..n)
    BY <1>1, <1>2, FS_Product
  <1> QED
    BY <1>1, <1>2, <1>3

\* Adding a snapshot adds at most its own size to what is stored: less when
\* it overwrites one.
LEMMA StoreAdds ==
  ASSUME TypeOK, Finite, NEW key \in Key, NEW ctx \in Ctx, Store(key, ctx)
  PROVE  /\ Finite'
         /\ Cardinality(StoredKb') <= Cardinality(StoredKb) + Kb[ctx]
         /\ Cardinality(StoredKb') \in Nat
  <1>1. Kb[ctx] \in Nat
    BY ContextAssumption
  <1> DEFINE New == {key} \X (1..Kb[ctx])
  <1>2. IsFiniteSet(New) /\ Cardinality(New) = Kb[ctx]
    BY <1>1, SliceSize
  <1>3. StoredKb' \subseteq StoredKb \cup New
    BY DEF Store, StoredKb
  <1>4. /\ IsFiniteSet(StoredKb \cup New)
        /\ Cardinality(StoredKb \cup New) <= Cardinality(StoredKb) + Kb[ctx]
    <2>1. /\ IsFiniteSet(StoredKb \cup New)
          /\ Cardinality(StoredKb \cup New) =
               Cardinality(StoredKb) + Cardinality(New) - Cardinality(StoredKb \cap New)
      BY <1>2, FS_Union DEF Finite
    <2>2. Cardinality(StoredKb \cap New) \in Nat /\ Cardinality(StoredKb) \in Nat
      BY FS_Intersection, FS_CardinalityType DEF Finite
    <2> QED
      BY <1>1, <1>2, <2>1, <2>2
  <1>5. /\ IsFiniteSet(StoredKb')
        /\ Cardinality(StoredKb') <= Cardinality(StoredKb \cup New)
    BY <1>3, <1>4, FS_Subset
  <1>6. DOMAIN snapshots' = DOMAIN snapshots \cup {key}
    BY DEF Store
  <1>7. IsFiniteSet(DOMAIN snapshots')
    BY <1>6, FS_AddElement DEF Finite
  <1>8. /\ Cardinality(StoredKb') \in Nat /\ Cardinality(StoredKb) \in Nat
        /\ Cardinality(StoredKb \cup New) \in Nat
    BY <1>4, <1>5, FS_CardinalityType DEF Finite
  <1> QED
    BY <1>1, <1>4, <1>5, <1>7, <1>8 DEF Finite

\* An eviction takes from what is stored the size it subtracts.
LEMMA EvictRemoves ==
  ASSUME TypeOK, Finite, EvictOldest
  PROVE  /\ Finite'
         /\ Cardinality(StoredKb') \in Nat
         /\ Cardinality(StoredKb') =
              Cardinality(StoredKb) - (IF Head(snapshot_order) \in DOMAIN snapshots
                                         THEN Kb[snapshots[Head(snapshot_order)]] ELSE 0)
  <1> DEFINE k == Head(snapshot_order)
  <1>1. /\ DOMAIN snapshots' = DOMAIN snapshots \ {k}
        /\ \A j \in DOMAIN snapshots' : snapshots'[j] = snapshots[j]
    BY DEF EvictOldest
  <1>2. IsFiniteSet(DOMAIN snapshots')
    BY <1>1, FS_RemoveElement DEF Finite
  <1>3. CASE k \in DOMAIN snapshots
    <2>1. Kb[snapshots[k]] \in Nat
      BY <1>3, StoreType
    <2>2. IsFiniteSet(Slice(k)) /\ Cardinality(Slice(k)) = Kb[snapshots[k]]
      BY <2>1, SliceSize DEF Slice
    <2>3. StoredKb' = StoredKb \ Slice(k)
      BY <1>1 DEF StoredKb, Slice
    <2>4. StoredKb \cap Slice(k) = Slice(k)
      BY <1>3 DEF StoredKb, Slice
    <2>5. /\ IsFiniteSet(StoredKb')
          /\ Cardinality(StoredKb') = Cardinality(StoredKb) - Kb[snapshots[k]]
      BY <2>2, <2>3, <2>4, FS_Difference DEF Finite
    <2> QED
      BY <1>2, <1>3, <2>5, FS_CardinalityType DEF Finite
  <1>4. CASE k \notin DOMAIN snapshots
    <2>1. StoredKb' = StoredKb
      BY <1>1, <1>4 DEF StoredKb
    <2> QED
      BY <1>2, <1>4, <2>1, FS_CardinalityType DEF Finite
  <1> QED
    BY <1>3, <1>4

\* The store starts empty.
LEMMA InitIInv == Init => IInv
  <1> SUFFICES ASSUME NEW l \in Limits, EmptyStore(l[1], l[2]) PROVE IInv
    BY DEF Init
  <1>1. l[1] \in Nat /\ l[2] \in Nat
    BY ContextAssumption
  <1>2. DOMAIN snapshots = {} /\ snapshots \in [{} -> Ctx]
    BY DEF EmptyStore
  <1>3. StoredKb = {}
    BY <1>2 DEF StoredKb
  <1>4. TypeOK
    <2>1. snapshot_order \in Seq(Key)
      BY EmptySeq DEF EmptyStore
    <2>2. \E D \in SUBSET Key : snapshots \in [D -> Ctx]
      BY <1>2
    <2> QED
      BY <1>1, <2>1, <2>2 DEF EmptyStore, TypeOK
  <1>5. Finite /\ TotalCoversStored
    BY <1>2, <1>3, FS_EmptySet DEF EmptyStore, Finite, TotalCoversStored
  <1>6. StoredIsListed /\ NothingToEvict
    BY <1>2 DEF EmptyStore, StoredIsListed, NothingToEvict, Evicting
  <1> QED
    BY <1>4, <1>5, <1>6 DEF IInv

\* Storing a snapshot that fits preserves every part of the invariant.
LEMMA StoreIInv ==
  ASSUME IInv, NEW key \in Key, NEW ctx \in Ctx, Fits(ctx), Store(key, ctx),
         call' = Idle, UNCHANGED limits
  PROVE  IInv'
  <1>1. Kb[ctx] \in Nat
    BY ContextAssumption
  <1>2. TypeOK /\ Finite
    BY DEF IInv
  <1>3. /\ Finite'
        /\ Cardinality(StoredKb') <= Cardinality(StoredKb) + Kb[ctx]
        /\ Cardinality(StoredKb') \in Nat
    BY <1>2, StoreAdds
  <1>4. DOMAIN snapshots' = DOMAIN snapshots \cup {key}
    BY DEF Store
  <1>5. TypeOK'
    <2>1. snapshots' \in [DOMAIN snapshots' -> Ctx] /\ DOMAIN snapshots' \in SUBSET Key
      BY <1>2, <1>4, StoreType DEF Store
    <2>2. snapshot_order' \in Seq(Key)
      BY <1>2, AppendProperties DEF Store, TypeOK
    <2>3. current_total_size_kb' \in Nat
      BY <1>1, <1>2 DEF Store, TypeOK
    <2> QED
      BY <1>2, <2>1, <2>2, <2>3 DEF TypeOK, limits
  <1>6. StoredIsListed'
    <2>1. /\ Len(snapshot_order') = Len(snapshot_order) + 1
          /\ \A i \in 1..Len(snapshot_order) : snapshot_order'[i] = snapshot_order[i]
          /\ snapshot_order'[Len(snapshot_order) + 1] = key
          /\ DOMAIN snapshot_order = 1..Len(snapshot_order)
          /\ DOMAIN snapshot_order' = 1..Len(snapshot_order')
          /\ Len(snapshot_order) \in Nat
      BY <1>2, <1>5, AppendProperties, LenProperties DEF Store, TypeOK
    <2>2. Listed \subseteq Listed'
      BY <2>1 DEF Listed
    <2>3. key \in Listed'
      <3>1. Len(snapshot_order) + 1 \in DOMAIN snapshot_order'
        BY <2>1
      <3> QED
        BY <2>1, <3>1 DEF Listed
    <2> QED
      BY <1>4, <2>2, <2>3 DEF IInv, StoredIsListed
  <1>7. TotalCoversStored'
    <2>1. Cardinality(StoredKb) \in Nat
      BY <1>2, FS_CardinalityType DEF Finite
    <2> QED
      BY <1>1, <1>2, <1>3, <2>1 DEF IInv, TotalCoversStored, Store, TypeOK
  <1>8. NothingToEvict'
    <2>1. Cardinality(DOMAIN snapshots) \in Nat
      BY <1>2, FS_CardinalityType DEF Finite
    <2>2. Cardinality(DOMAIN snapshots') <= Cardinality(DOMAIN snapshots) + 1
      <3>1. Cardinality(DOMAIN snapshots \cup {key}) =
              IF key \in DOMAIN snapshots THEN Cardinality(DOMAIN snapshots)
                                         ELSE Cardinality(DOMAIN snapshots) + 1
        BY <1>2, FS_AddElement DEF Finite
      <3> QED
        BY <1>4, <2>1, <3>1
    <2>3. Cardinality(DOMAIN snapshots') <= max_snapshots
      <3>1. Cardinality(DOMAIN snapshots') \in Nat
        BY <1>3, FS_CardinalityType DEF Finite
      <3> QED
        BY <1>2, <2>1, <2>2, <3>1 DEF Fits, TypeOK
    <2>4. ~OverLimits'
      <3>1. Cardinality(DOMAIN snapshots') \in Nat
        BY <1>3, FS_CardinalityType DEF Finite
      <3> QED
        BY <1>1, <1>2, <2>3, <3>1 DEF Fits, Store, OverLimits, TypeOK, limits
    <2> QED
      BY <2>4 DEF NothingToEvict, Evicting
  <1> QED
    BY <1>3, <1>5, <1>6, <1>7, <1>8 DEF IInv

\* One eviction, which only set_snapshot_limits can cause, preserves it.
LEMMA EvictIInv == IInv /\ EvictOldest => IInv'
  <1> SUFFICES ASSUME IInv, EvictOldest PROVE IInv'
    OBVIOUS
  <1> DEFINE k == Head(snapshot_order)
  <1>1. TypeOK /\ Finite /\ StoredIsListed /\ TotalCoversStored
    BY DEF IInv
  <1>2. InLimits /\ call' = call
    BY DEF IInv, EvictOldest, NothingToEvict
  <1>3. /\ Finite'
        /\ Cardinality(StoredKb') \in Nat
        /\ Cardinality(StoredKb') =
             Cardinality(StoredKb) - (IF k \in DOMAIN snapshots THEN Kb[snapshots[k]] ELSE 0)
    BY <1>1, EvictRemoves
  <1>4. /\ k \in Key /\ snapshot_order' \in Seq(Key)
        /\ Len(snapshot_order') = Len(snapshot_order) - 1
        /\ \A i \in 1..Len(snapshot_order') : snapshot_order'[i] = snapshot_order[i+1]
        /\ DOMAIN snapshot_order = 1..Len(snapshot_order)
        /\ DOMAIN snapshot_order' = 1..Len(snapshot_order')
        /\ Len(snapshot_order) \in Nat \ {0}
        /\ k = snapshot_order[1]
    BY <1>1, HeadTailProperties, LenProperties, EmptySeq DEF EvictOldest, Evicting, TypeOK
  <1>5. TotalCoversStored' /\ current_total_size_kb' \in Nat
    <2>1. Cardinality(StoredKb) \in Nat
      BY <1>1, FS_CardinalityType DEF Finite
    <2>2. k \in DOMAIN snapshots => Kb[snapshots[k]] \in Nat
      BY <1>1, StoreType
    <2> QED
      BY <1>1, <1>3, <2>1, <2>2 DEF TotalCoversStored, EvictOldest, TypeOK
  <1>6. TypeOK'
    <2>1. snapshots' \in [DOMAIN snapshots \ {k} -> Ctx] /\ DOMAIN snapshots \ {k} \in SUBSET Key
      BY <1>1, StoreType DEF EvictOldest
    <2> QED
      BY <1>1, <1>4, <1>5, <2>1 DEF EvictOldest, TypeOK, limits
  <1>7. StoredIsListed'
    <2>1. ASSUME NEW j \in DOMAIN snapshots' PROVE j \in Listed'
      <3>1. j \in DOMAIN snapshots /\ j # k
        BY DEF EvictOldest
      <3>2. PICK i \in DOMAIN snapshot_order : snapshot_order[i] = j
        BY <1>1, <3>1 DEF StoredIsListed, Listed
      <3>3. i - 1 \in DOMAIN snapshot_order' /\ snapshot_order'[i-1] = j
        BY <1>4, <3>1, <3>2
      <3> QED
        BY <3>3 DEF Listed
    <2> QED
      BY <2>1 DEF StoredIsListed
  <1>8. NothingToEvict'
    BY <1>2 DEF NothingToEvict, InLimits
  <1> QED
    BY <1>1, <1>3, <1>5, <1>6, <1>7, <1>8 DEF IInv

\* Every step preserves the invariant.
LEMMA NextIInv == IInv /\ [Next]_vars => IInv'
  <1> SUFFICES ASSUME IInv, [Next]_vars PROVE IInv'
    OBVIOUS
  <1> USE DEF InLimits, InSave, Idle
  <1>0. ASSUME UNCHANGED store PROVE /\ Finite' /\ StoredIsListed' /\ TotalCoversStored'
    BY <1>0 DEF IInv, store, Finite, StoredIsListed, TotalCoversStored, StoredKb, Listed
  <1>1. ASSUME NEW key \in Key, NEW ctx \in Ctx, SaveSnapshot(key, ctx) PROVE IInv'
    <2>1. CASE Fits(ctx)
      BY <1>1, <2>1, StoreIInv DEF SaveSnapshot
    <2>2. CASE ~Fits(ctx)
      <3>1. /\ UNCHANGED store /\ UNCHANGED limits
            /\ call' = [op |-> "save", key |-> key, ctx |-> ctx]
        BY <1>1, <2>2 DEF SaveSnapshot
      <3>2. TypeOK'
        BY <3>1 DEF IInv, TypeOK, store, limits
      <3>3. NothingToEvict'
        BY <1>1, <3>1
           DEF SaveSnapshot, IInv, NothingToEvict, Evicting, OverLimits, store, limits
      <3> QED
        BY <1>0, <3>1, <3>2, <3>3 DEF IInv
    <2> QED
      BY <2>1, <2>2
  <1>2. CASE EvictOldest
    BY <1>2, EvictIInv
  <1>3. CASE RecheckSave
    <2>1. call.key \in Key /\ call.ctx \in Ctx
      BY <1>3 DEF RecheckSave, IInv, TypeOK
    <2>2. CASE Fits(call.ctx)
      BY <1>3, <2>1, <2>2, StoreIInv DEF RecheckSave
    <2>3. CASE ~Fits(call.ctx)
      <3>1. UNCHANGED store /\ UNCHANGED limits /\ call' = Idle /\ ~Evicting
        BY <1>3, <2>3 DEF RecheckSave
      <3>2. TypeOK' /\ NothingToEvict'
        BY <3>1 DEF IInv, TypeOK, NothingToEvict, Evicting, OverLimits, store, limits
      <3> QED
        BY <1>0, <3>1, <3>2 DEF IInv
    <2> QED
      BY <2>2, <2>3
  <1>4. ASSUME NEW l \in Limits, SetSnapshotLimits(l[1], l[2]) PROVE IInv'
    <2>1. l[1] \in Nat /\ l[2] \in Nat
      BY ContextAssumption
    <2>2. UNCHANGED store /\ TypeOK' /\ NothingToEvict'
      BY <1>4, <2>1 DEF SetSnapshotLimits, IInv, TypeOK, NothingToEvict, store
    <2> QED
      BY <1>0, <2>2 DEF IInv
  <1>5. CASE LimitsEnforced
    <2>1. UNCHANGED store /\ UNCHANGED limits /\ call' = Idle /\ ~Evicting
      BY <1>5 DEF LimitsEnforced, store, limits
    <2>2. TypeOK' /\ NothingToEvict'
      BY <2>1 DEF IInv, TypeOK, NothingToEvict, Evicting, OverLimits, store, limits
    <2> QED
      BY <1>0, <2>1, <2>2 DEF IInv
  <1>6. CASE UNCHANGED vars
    <2>1. UNCHANGED store /\ TypeOK' /\ NothingToEvict'
      BY <1>6 DEF vars, store, IInv, TypeOK, NothingToEvict, Evicting, OverLimits
    <2> QED
      BY <1>0, <2>1 DEF IInv
  <1> QED
    BY <1>1, <1>2, <1>3, <1>4, <1>5, <1>6 DEF Next

\* What the invariant says of the store between calls.
LEMMA WithinLimits == IInv => KeptWithinLimits
  <1> SUFFICES ASSUME IInv, call = Idle PROVE /\ Cardinality(DOMAIN snapshots) <= max_snapshots
                                              /\ Cardinality(StoredKb) <= max_snapshot_size_kb
    BY DEF KeptWithinLimits
  <1>1. ~Evicting
    BY DEF IInv, NothingToEvict, InLimits
  <1>2. Cardinality(DOMAIN snapshots) \in Nat /\ Cardinality(StoredKb) \in Nat
    BY FS_CardinalityType DEF IInv, Finite
  <1>3. CASE snapshot_order = << >>
    <2>1. DOMAIN snapshots = {}
      <3>1. DOMAIN snapshot_order = {}
        BY <1>3
      <3> QED
        BY <3>1 DEF IInv, StoredIsListed, Listed
    <2>2. StoredKb = {}
      BY <2>1 DEF StoredKb
    <2> QED
      BY <2>1, <2>2, FS_EmptySet DEF IInv, TypeOK
  <1>4. CASE ~OverLimits
    BY <1>2, <1>4 DEF OverLimits, IInv, TypeOK, TotalCoversStored
  <1> QED
    BY <1>1, <1>3, <1>4 DEF Evicting

\* The inductive invariant of the snapshot store.
THEOREM Inductive == Spec => []IInv
  BY InitIInv, NextIInv, PTL DEF Spec

\* Every variable keeps its type: current_total_size_kb_ never wraps.
THEOREM Typing == Spec => []TypeOK
  <1>1. IInv => TypeOK
    BY DEF IInv
  <1> QED
    BY Inductive, <1>1, PTL

\* Whatever is stored can be evicted: the order still lists it.
THEOREM StoredIsEvictable == Spec => []StoredIsListed
  <1>1. IInv => StoredIsListed
    BY DEF IInv
  <1> QED
    BY Inductive, <1>1, PTL

\* The size estimate covers what is stored, so no subtraction wraps it.
THEOREM EstimateIsSafe == Spec => []TotalCoversStored
  <1>1. IInv => TotalCoversStored
    BY DEF IInv
  <1> QED
    BY Inductive, <1>1, PTL

\* Between calls the store is within both of its limits.
THEOREM StoreIsBounded == Spec => []KeptWithinLimits
  BY Inductive, WithinLimits, PTL

\* A saved snapshot stays until set_snapshot_limits is called.
THEOREM SavingKeeps == Spec => SavingKeepsSnapshots
  <1>1. IInv /\ [Next]_vars => [~InLimits => DOMAIN snapshots \subseteq DOMAIN snapshots']_vars
    <2> SUFFICES ASSUME IInv, Next, ~InLimits PROVE DOMAIN snapshots \subseteq DOMAIN snapshots'
      BY DEF vars
    <2>1. ~EvictOldest
      BY DEF IInv, NothingToEvict, EvictOldest
    <2>2. ASSUME NEW key, NEW ctx, Store(key, ctx) PROVE DOMAIN snapshots \subseteq DOMAIN snapshots'
      BY <2>2 DEF Store
    <2> QED
      BY <2>1, <2>2 DEF Next, SaveSnapshot, RecheckSave, SetSnapshotLimits, LimitsEnforced, store
  <1> QED
    BY Inductive, <1>1, PTL DEF Spec, SavingKeepsSnapshots
==============================================================================
