---------------------------- MODULE ContextEngine ----------------------------
(***************************************************************************)
(* The snapshot store of ContextEngine: contexts saved under node paths,   *)
(* the order they were saved in, an estimate of their total size, and the  *)
(* loop that evicts the oldest ones.  A call that needs the loop runs it   *)
(* one eviction a step; `call` is the call under way.                      *)
(***************************************************************************)
EXTENDS Integers, Sequences, FiniteSets

CONSTANTS Key,      \* node paths
          Ctx,      \* contexts
          Kb,       \* estimate_json_size_kb of each context
          Limits    \* the <<max_count, max_size_kb>> given to the store

\* Sizes are rounded up to whole KB, and no JSON text is empty.
ASSUME ContextAssumption == /\ Kb \in [Ctx -> Nat \ {0}]
                            /\ Limits \subseteq Nat \X Nat

VARIABLES snapshots,              \* snapshots_
          snapshot_order,         \* snapshot_order_
          current_total_size_kb,  \* current_total_size_kb_
          max_snapshots,          \* max_snapshots_
          max_snapshot_size_kb,   \* max_snapshot_size_kb_
          call                    \* the call whose eviction loop is running

store == <<snapshots, snapshot_order, current_total_size_kb>>
limits == <<max_snapshots, max_snapshot_size_kb>>
vars == <<snapshots, snapshot_order, current_total_size_kb,
          max_snapshots, max_snapshot_size_kb, call>>

Idle == [op |-> "idle"]
InSave == call # Idle /\ call.op = "save"
InLimits == call # Idle /\ call.op = "limits"

\* An empty store under the given limits.
EmptyStore(max_count, max_kb) ==
  /\ snapshots = [k \in {} |-> {}]
  /\ snapshot_order = << >>
  /\ current_total_size_kb = 0
  /\ max_snapshots = max_count
  /\ max_snapshot_size_kb = max_kb
  /\ call = Idle

\* The test before a snapshot is added.
Fits(ctx) == /\ Cardinality(DOMAIN snapshots) < max_snapshots
             /\ current_total_size_kb + Kb[ctx] <= max_snapshot_size_kb

BugOverLimits == \/ Cardinality(DOMAIN snapshots) >= max_snapshots
                 \/ current_total_size_kb > max_snapshot_size_kb

\* The test of the eviction loop, which admits a full store.
OverLimits == \/ Cardinality(DOMAIN snapshots) > max_snapshots
              \/ current_total_size_kb > max_snapshot_size_kb

Evicting == snapshot_order # << >> /\ OverLimits

BugStore(key, ctx) ==
  /\ snapshots' = [k \in DOMAIN snapshots \cup {key} |->
                     IF k = key THEN ctx ELSE snapshots[k]]
  /\ snapshot_order' = Append(snapshot_order, key)
  /\ current_total_size_kb' = IF key \in DOMAIN snapshots THEN current_total_size_kb
                              ELSE current_total_size_kb + Kb[ctx]

\* An overwritten key is listed, and its size counted, once more.
Store(key, ctx) ==
  /\ snapshots' = [k \in DOMAIN snapshots \cup {key} |->
                     IF k = key THEN ctx ELSE snapshots[k]]
  /\ snapshot_order' = Append(snapshot_order, key)
  /\ current_total_size_kb' = current_total_size_kb + Kb[ctx]

\* save_snapshot: stored at once when it fits, otherwise after the loop.
SaveSnapshot(key, ctx) ==
  /\ call = Idle
  /\ IF Fits(ctx)
       THEN Store(key, ctx) /\ UNCHANGED call
       ELSE call' = [op |-> "save", key |-> key, ctx |-> ctx] /\ UNCHANGED store
  /\ UNCHANGED limits

BugEvictOldest ==
  /\ call # Idle
  /\ Evicting
  /\ snapshot_order' = Tail(snapshot_order)
  /\ current_total_size_kb' =
       current_total_size_kb - (IF Head(snapshot_order) \in DOMAIN snapshots
                                  THEN Kb[snapshots[Head(snapshot_order)]] ELSE 0)
  /\ UNCHANGED <<snapshots, max_snapshots, max_snapshot_size_kb, call>>

\* One turn of the loop of enforce_snapshot_budget.  A key listed twice is
\* subtracted once, with the size it has now.
EvictOldest ==
  /\ call # Idle
  /\ Evicting
  /\ snapshot_order' = Tail(snapshot_order)
  /\ snapshots' = [k \in DOMAIN snapshots \ {Head(snapshot_order)} |-> snapshots[k]]
  /\ current_total_size_kb' =
       current_total_size_kb - (IF Head(snapshot_order) \in DOMAIN snapshots
                                  THEN Kb[snapshots[Head(snapshot_order)]] ELSE 0)
  /\ UNCHANGED <<max_snapshots, max_snapshot_size_kb, call>>

BugRecheckSave ==
  /\ InSave
  /\ ~Evicting
  /\ Store(call.key, call.ctx)
  /\ call' = Idle
  /\ UNCHANGED limits

\* save_snapshot after the loop: stored if it fits now, dropped otherwise.
RecheckSave ==
  /\ InSave
  /\ ~Evicting
  /\ IF Fits(call.ctx) THEN Store(call.key, call.ctx) ELSE UNCHANGED store
  /\ call' = Idle
  /\ UNCHANGED limits

\* set_snapshot_limits: the new limits are enforced before it returns.
SetSnapshotLimits(max_count, max_kb) ==
  /\ call = Idle
  /\ max_snapshots' = max_count
  /\ max_snapshot_size_kb' = max_kb
  /\ call' = [op |-> "limits"]
  /\ UNCHANGED store

LimitsEnforced ==
  /\ InLimits
  /\ ~Evicting
  /\ call' = Idle
  /\ UNCHANGED <<snapshots, snapshot_order, current_total_size_kb,
                 max_snapshots, max_snapshot_size_kb>>

Init == \E l \in Limits : EmptyStore(l[1], l[2])

Next == \/ \E key \in Key, ctx \in Ctx : SaveSnapshot(key, ctx)
        \/ EvictOldest
        \/ RecheckSave
        \/ \E l \in Limits : SetSnapshotLimits(l[1], l[2])
        \/ LimitsEnforced

Spec == Init /\ [][Next]_vars

-----------------------------------------------------------------------------

\* The keys the order still lists.
Listed == {snapshot_order[i] : i \in DOMAIN snapshot_order}

\* One element per KB of the stored snapshots, so that its cardinality is
\* the sum of their sizes.
StoredKb == UNION {{k} \X (1..Kb[snapshots[k]]) : k \in DOMAIN snapshots}

\* Every variable keeps its type; current_total_size_kb_ is a size_t, so
\* staying in Nat says that no eviction wraps it around.
TypeOK == /\ \E D \in SUBSET Key : snapshots \in [D -> Ctx]
          /\ snapshot_order \in Seq(Key)
          /\ current_total_size_kb \in Nat
          /\ max_snapshots \in Nat
          /\ max_snapshot_size_kb \in Nat
          /\ call \in {Idle, [op |-> "limits"]}
                      \cup [op : {"save"}, key : Key, ctx : Ctx]

\* A stored snapshot can always still be evicted: whatever was overwritten
\* or evicted before, the loop of enforce_snapshot_budget will reach it.
StoredIsListed == DOMAIN snapshots \subseteq Listed

\* The estimate never falls below what is stored, in the middle of an
\* eviction loop too, so that subtracting a stored size cannot wrap it.
TotalCoversStored == current_total_size_kb >= Cardinality(StoredKb)

\* Between calls the store respects both limits, the size it really has and
\* not only the estimate.
KeptWithinLimits == call = Idle => /\ Cardinality(DOMAIN snapshots) <= max_snapshots
                                   /\ Cardinality(StoredKb) <= max_snapshot_size_kb

\* Saving never costs an older snapshot: only set_snapshot_limits takes one
\* away, although save_snapshot runs the eviction loop.
SavingKeepsSnapshots == [][~InLimits => DOMAIN snapshots \subseteq DOMAIN snapshots']_vars

\* context_engine.h cleans snapshots up first in, first out, to make room: a
\* snapshot that the limits could hold alone is stored.
NewestIsKept ==
  [][InSave /\ call' = Idle /\ max_snapshots > 0 /\ Kb[call.ctx] <= max_snapshot_size_kb
       => call.key \in DOMAIN snapshots' /\ snapshots'[call.key] = call.ctx]_vars
==============================================================================
