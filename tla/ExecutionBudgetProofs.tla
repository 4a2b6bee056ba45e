------------------------ MODULE ExecutionBudgetProofs ------------------------
(***************************************************************************)
(* The compare-and-swap loop of ExecutionBudget never overdraws a counter  *)
(* and implements the atomic counter, for any number of threads and calls. *)
(***************************************************************************)
EXTENDS ExecutionBudget, FiniteSetTheorems, TLAPS

\* A call that is under way has been answered neither way.
InProgress == \A t \in Thread : pc[t] # "idle" =>
                 /\ calls[t] \in 1..MaxCalls
                 /\ <<t, calls[t]>> \notin granted \cup refused

\* Only calls that were started have been answered.
AnsweredWereMade == \A c \in granted \cup refused : c[2] <= calls[c[1]]

\* The local copy is never ahead of the counter, and a thread about to swap
\* holds a copy that has passed the check.
CopyIsOld == \A t \in Thread :
                /\ expected[t] <= used
                /\ pc[t] = "swap" => MayConsume(limit, expected[t])

\* Why NeverOverdrawn and RefusedOnlyWhenSpent are inductive: a swap succeeds
\* only where the checked copy still is the counter, and the counter never
\* goes down.
IInv == /\ TypeOK
        /\ InProgress
        /\ AnsweredWereMade
        /\ CopyIsOld
        /\ NeverOverdrawn
        /\ RefusedOnlyWhenSpent

\* There are finitely many calls, so sets of calls have a cardinality.
LEMMA CallsAreFinite == IsFiniteSet(Call) /\ \A S \in SUBSET Call : IsFiniteSet(S)
  <1>1. IsFiniteSet(1..MaxCalls)
    BY FS_Interval, BudgetAssumption
  <1>2. IsFiniteSet(Call)
    BY <1>1, FS_Product, BudgetAssumption DEF Call, BC!Call
  <1> QED
    BY <1>2, FS_Subset

\* Initially nothing has been called and nothing has been used.
LEMMA InitIInv == Init => IInv
  <1> SUFFICES ASSUME Init PROVE IInv
    OBVIOUS
  <1> USE BudgetAssumption
  <1>1. limit \in Int
    BY DEF Init
  <1>2. used = Cardinality(granted)
    BY FS_EmptySet DEF Init
  <1> QED
    BY <1>1, <1>2 DEF Init, IInv, TypeOK, InProgress, AnsweredWereMade, CopyIsOld,
                NeverOverdrawn, RefusedOnlyWhenSpent, Call, BC!Call

\* Every step of every thread preserves the invariant.
LEMMA NextIInv == IInv /\ [Next]_vars => IInv'
  <1> SUFFICES ASSUME IInv, [Next]_vars PROVE IInv'
    OBVIOUS
  <1> USE BudgetAssumption DEF IInv, TypeOK, Call, BC!Call
  <1>0. limit \in Int
    OBVIOUS
  <1>1. ASSUME NEW t \in Thread, Load(t) PROVE IInv'
    BY <1>0, <1>1 DEF Load, InProgress, AnsweredWereMade, CopyIsOld,
                NeverOverdrawn, RefusedOnlyWhenSpent, MayConsume, BC!MayConsume
  <1>2. ASSUME NEW t \in Thread, Check(t) PROVE IInv'
    BY <1>0, <1>2 DEF Check, InProgress, AnsweredWereMade, CopyIsOld,
                NeverOverdrawn, RefusedOnlyWhenSpent, MayConsume, BC!MayConsume
  <1>3. ASSUME NEW t \in Thread, SwapSucceeds(t) PROVE IInv'
    <2>1. <<t, calls[t]>> \in Call /\ <<t, calls[t]>> \notin granted
      BY <1>3 DEF SwapSucceeds, InProgress
    <2>2. Cardinality(granted') = Cardinality(granted) + 1
      BY <1>3, <2>1, CallsAreFinite, FS_AddElement DEF SwapSucceeds
    <2>3. used' = Cardinality(granted')
      BY <1>3, <2>2 DEF SwapSucceeds, NeverOverdrawn
    <2>4. TypeOK' /\ InProgress' /\ AnsweredWereMade' /\ CopyIsOld'
      BY <1>0, <1>3, <2>1 DEF SwapSucceeds, InProgress, AnsweredWereMade, CopyIsOld,
                         MayConsume, BC!MayConsume
    <2>5. (limit >= 0 => used <= limit)' /\ RefusedOnlyWhenSpent'
      BY <1>0, <1>3 DEF SwapSucceeds, CopyIsOld, RefusedOnlyWhenSpent,
                   MayConsume, BC!MayConsume
    <2>6. NeverOverdrawn'
      BY <2>3, <2>5 DEF NeverOverdrawn
    <2> QED
      BY <2>4, <2>5, <2>6
  <1>4. ASSUME NEW t \in Thread, SwapFails(t) PROVE IInv'
    BY <1>0, <1>4 DEF SwapFails, InProgress, AnsweredWereMade, CopyIsOld,
                NeverOverdrawn, RefusedOnlyWhenSpent, MayConsume, BC!MayConsume
  <1>5. CASE UNCHANGED vars
    BY <1>5 DEF vars, InProgress, AnsweredWereMade, CopyIsOld,
                NeverOverdrawn, RefusedOnlyWhenSpent
  <1> QED
    BY <1>1, <1>2, <1>3, <1>4, <1>5 DEF Next

\* The inductive invariant of the compare-and-swap loop.
THEOREM Inductive == Spec => []IInv
  BY InitIInv, NextIInv, PTL DEF Spec

\* Every variable of every thread keeps its type.
THEOREM Typing == Spec => []TypeOK
  <1>1. IInv => TypeOK
    BY DEF IInv
  <1> QED
    BY Inductive, <1>1, PTL

\* No interleaving of try_consume_* calls loses a unit or pays one twice, and
\* however stale the value a thread has checked, the budget is not overdrawn.
THEOREM BudgetHolds == Spec => []NeverOverdrawn
  <1>1. IInv => NeverOverdrawn
    BY DEF IInv
  <1> QED
    BY Inductive, <1>1, PTL

\* No call is refused while a unit is left, however often swaps fail.
THEOREM RefusalsAreRight == Spec => []RefusedOnlyWhenSpent
  <1>1. IInv => RefusedOnlyWhenSpent
    BY DEF IInv
  <1> QED
    BY Inductive, <1>1, PTL

\* The load, check and swap steps implement a counter consumed atomically: a
\* grant takes effect at the swap, a refusal at the check.
THEOREM Refinement == Spec => ImplementsBudgetCounter
  <1>1. Init => BC!Init
    BY DEF Init, BC!Init
  <1>2. IInv /\ [Next]_vars => [BC!Next]_(BC!vars)
    <2> SUFFICES ASSUME IInv, [Next]_vars PROVE BC!Next \/ UNCHANGED BC!vars
      OBVIOUS
    <2> USE DEF BC!vars
    <2>1. ASSUME NEW t \in Thread, Load(t) PROVE UNCHANGED BC!vars
      BY <2>1 DEF Load
    <2>2. ASSUME NEW t \in Thread, Check(t) PROVE BC!Next \/ UNCHANGED BC!vars
      <3>1. CASE MayConsume(limit, expected[t])
        BY <2>2, <3>1 DEF Check
      <3>2. CASE ~MayConsume(limit, expected[t])
        <4>1. <<t, calls[t]>> \in BC!Call /\ <<t, calls[t]>> \notin granted \cup refused
          BY <2>2 DEF Check, IInv, InProgress, BC!Call
        <4>2. ~BC!MayConsume(limit, used)
          BY <3>2, BudgetAssumption
             DEF IInv, TypeOK, CopyIsOld, MayConsume, BC!MayConsume
        <4>3. BC!Refuse(<<t, calls[t]>>)
          BY <2>2, <3>2, <4>1, <4>2 DEF Check, BC!Refuse
        <4> QED
          BY <4>1, <4>3 DEF BC!Next
      <3> QED
        BY <3>1, <3>2
    <2>3. ASSUME NEW t \in Thread, SwapSucceeds(t) PROVE BC!Next
      <3>1. <<t, calls[t]>> \in BC!Call /\ <<t, calls[t]>> \notin granted \cup refused
        BY <2>3 DEF SwapSucceeds, IInv, InProgress, BC!Call
      <3>2. BC!MayConsume(limit, used)
        BY <2>3 DEF SwapSucceeds, IInv, CopyIsOld, MayConsume
      <3>3. BC!Grant(<<t, calls[t]>>)
        BY <2>3, <3>1, <3>2 DEF SwapSucceeds, BC!Grant
      <3> QED
        BY <3>1, <3>3 DEF BC!Next
    <2>4. ASSUME NEW t \in Thread, SwapFails(t) PROVE UNCHANGED BC!vars
      BY <2>4 DEF SwapFails
    <2>5. CASE UNCHANGED vars
      BY <2>5 DEF vars
    <2> QED
      BY <2>1, <2>2, <2>3, <2>4, <2>5 DEF Next
  <1> QED
    BY Inductive, <1>1, <1>2, PTL DEF Spec, ImplementsBudgetCounter, BC!Spec
==============================================================================
