--------------------------- MODULE ExecutionBudget ---------------------------
(***************************************************************************)
(* The try_consume_* methods of ExecutionBudget as they run on the atomic  *)
(* counter: a load, a check of the loaded value, and a weak compare and    *)
(* swap that is retried until it succeeds or the limit is met.  The three  *)
(* methods are the same algorithm on three counters, so one is modelled.   *)
(***************************************************************************)
EXTENDS Integers, FiniteSets

CONSTANTS Thread, MaxCalls, Limits

ASSUME BudgetAssumption == /\ IsFiniteSet(Thread)
                           /\ MaxCalls \in Nat
                           /\ Limits \subseteq Int

VARIABLES limit,      \* max_nodes, max_llm_calls or max_subgraph_depth
          used,       \* the atomic counter
          pc,         \* where each thread is in its current call
          expected,   \* the thread's local copy of the counter
          calls,      \* calls each thread has started
          granted,    \* calls that returned true
          refused     \* calls that returned false

vars == <<limit, used, pc, expected, calls, granted, refused>>

BC == INSTANCE BudgetCounter

Call == BC!Call
MayConsume(max, count) == BC!MayConsume(max, count)

Init == /\ limit \in Limits
        /\ used = 0
        /\ pc = [t \in Thread |-> "idle"]
        /\ expected = [t \in Thread |-> 0]
        /\ calls = [t \in Thread |-> 0]
        /\ granted = {}
        /\ refused = {}

\* int current = nodes_used.load();
Load(t) == /\ pc[t] = "idle"
           /\ calls[t] < MaxCalls
           /\ calls' = [calls EXCEPT ![t] = @ + 1]
           /\ expected' = [expected EXCEPT ![t] = used]
           /\ pc' = [pc EXCEPT ![t] = "check"]
           /\ UNCHANGED <<limit, used, granted, refused>>

BugCheck(t) == /\ pc[t] = "check"
               /\ IF MayConsume(limit, expected[t])
                    THEN /\ pc' = [pc EXCEPT ![t] = "swap"]
                         /\ UNCHANGED <<refused, used>>
                    ELSE /\ pc' = [pc EXCEPT ![t] = "idle"]
                         /\ refused' = refused \cup {<<t, calls[t]>>}
                         /\ used' = used - 1
               /\ UNCHANGED <<limit, expected, calls, granted>>

\* The limit is checked on the loaded value, before the first swap and again
\* after every swap that failed.
Check(t) == /\ pc[t] = "check"
            /\ IF MayConsume(limit, expected[t])
                 THEN /\ pc' = [pc EXCEPT ![t] = "swap"]
                      /\ UNCHANGED refused
                 ELSE /\ pc' = [pc EXCEPT ![t] = "idle"]
                      /\ refused' = refused \cup {<<t, calls[t]>>}
            /\ UNCHANGED <<limit, used, expected, calls, granted>>

BugSwapSucceeds(t) == /\ pc[t] = "swap"
                      /\ used' = expected[t] + 1
                      /\ granted' = granted \cup {<<t, calls[t]>>}
                      /\ pc' = [pc EXCEPT ![t] = "idle"]
                      /\ UNCHANGED <<limit, expected, calls, refused>>

SwapSucceeds(t) == /\ pc[t] = "swap"
                   /\ used = expected[t]
                   /\ used' = expected[t] + 1
                   /\ granted' = granted \cup {<<t, calls[t]>>}
                   /\ pc' = [pc EXCEPT ![t] = "idle"]
                   /\ UNCHANGED <<limit, expected, calls, refused>>

BugSwapFails(t) == /\ pc[t] = "swap"
                   /\ expected' = [expected EXCEPT ![t] = used]
                   /\ UNCHANGED <<limit, used, pc, calls, granted, refused>>

\* A failed swap stores the counter in expected; the weak form may also fail
\* when the two are equal.
SwapFails(t) == /\ pc[t] = "swap"
                /\ expected' = [expected EXCEPT ![t] = used]
                /\ pc' = [pc EXCEPT ![t] = "check"]
                /\ UNCHANGED <<limit, used, calls, granted, refused>>

Next == \E t \in Thread : Load(t) \/ Check(t) \/ SwapSucceeds(t) \/ SwapFails(t)

Spec == Init /\ [][Next]_vars

-----------------------------------------------------------------------------

\* Every variable keeps its type: the threads' local state of try_consume_*.
TypeOK == /\ limit \in Limits
          /\ used \in Nat
          /\ pc \in [Thread -> {"idle", "check", "swap"}]
          /\ expected \in [Thread -> Nat]
          /\ calls \in [Thread -> 0..MaxCalls]
          /\ granted \subseteq Call
          /\ refused \subseteq Call

\* However the threads interleave between load, check and swap, the counter
\* is the number of calls that returned true, no unit lost or paid twice, and
\* a limited budget is never overdrawn, although every thread checked the
\* limit on a value other threads may have changed since.
NeverOverdrawn == /\ used = Cardinality(granted)
                  /\ limit >= 0 => used <= limit

\* A call that returned false was right: all the units had been granted, so
\* no later call of any thread can succeed.
RefusedOnlyWhenSpent == refused # {} => ~MayConsume(limit, used)

\* The compare-and-swap loop implements the atomic counter.
ImplementsBudgetCounter == BC!Spec
==============================================================================
