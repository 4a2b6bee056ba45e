------------------------ MODULE UnexecutedCheckProofs ------------------------
(***************************************************************************)
(* For every set of paths and every order of iteration: set_difference     *)
(* misses no unexecuted node, is exact when at most one node has run or    *)
(* both iterations are sorted, and concludes as FinalCheck says.           *)
(***************************************************************************)
EXTENDS UnexecutedCheck, TLAPS

TypeOK == /\ all_node_paths \in Listings
          /\ executed \in Listings
          /\ i \in Nat \ {0} /\ j \in Nat \ {0}

\* With at most one executed node, a complete workflow has at most one path,
\* and the two positions leave it together.
SingleStep == Len(executed) <= 1 /\ Missing = {} => unexecuted = {} /\ (i = 1 => j = 1)

\* Sorted walks: the executed paths passed are below the paths to come.
SortedWalk ==
  Ascending(all_node_paths) /\ Ascending(executed) =>
    /\ unexecuted \subseteq Missing
    /\ \A k \in DOMAIN executed, l \in DOMAIN all_node_paths :
          k < j /\ l >= i => executed[k] < all_node_paths[l]

IInv == TypeOK /\ NoneMissed /\ SingleStep /\ SortedWalk

\* What a listing is: a sequence of integers without repetitions.
LEMMA ListingFacts ==
  ASSUME NEW s \in Listings
  PROVE /\ Len(s) \in Nat /\ DOMAIN s = 1..Len(s)
        /\ \A k \in DOMAIN s : s[k] \in Int
        /\ \A k, l \in DOMAIN s : s[k] = s[l] => k = l
  <1>1. s \in Seq(Paths)
    BY ListingAssumption
  <1>2. Len(s) \in Nat /\ DOMAIN s = 1..Len(s) /\ \A k \in DOMAIN s : s[k] \in Paths
    BY <1>1
  <1> QED
    BY <1>2, ListingAssumption

LEMMA InitIInv == Init => IInv
  <1> SUFFICES ASSUME Init PROVE IInv
    OBVIOUS
  <1>1. TypeOK /\ NoneMissed /\ SingleStep
    BY DEF Init, TypeOK, NoneMissed, SingleStep
  <1>2. SortedWalk
    BY ListingFacts DEF Init, SortedWalk
  <1> QED
    BY <1>1, <1>2 DEF IInv

LEMMA ReportIInv == IInv /\ Report => IInv'
  <1> SUFFICES ASSUME IInv, Report PROVE IInv'
    OBVIOUS
  <1> DEFINE all == all_node_paths
  <1>0. all \in Listings /\ executed \in Listings /\ i \in Nat \ {0} /\ j \in Nat \ {0}
    BY DEF IInv, TypeOK
  <1>1. i \in DOMAIN all /\ (j <= Len(executed) => j \in DOMAIN executed)
    BY <1>0, ListingFacts DEF Report, More
  <1>2. TypeOK'
    BY <1>0 DEF Report, TypeOK
  <1>3. NoneMissed'
    <2>1. all[i] \in Elements(all)
      BY <1>1 DEF Elements
    <2>2. unexecuted' = unexecuted \cup {all[i]} /\ i' = i + 1
          /\ UNCHANGED <<all, executed, Missing, Elements(all)>>
      BY DEF Report, Missing
    <2>3. \A k \in 1..((i + 1) - 1) : k \in 1..(i - 1) \/ k = i
      BY <1>0
    <2> QED
      BY <2>1, <2>2, <2>3 DEF NoneMissed, IInv
  <1>4. SingleStep'
    <2> SUFFICES ASSUME Len(executed) <= 1, Missing = {} PROVE FALSE
      BY DEF SingleStep, Report, Missing
    <2>1. \A k \in DOMAIN all : 1 \in DOMAIN executed /\ all[k] = executed[1]
      <3> TAKE k \in DOMAIN all
      <3>1. PICK l \in DOMAIN executed : all[k] = executed[l]
        BY DEF Missing, Elements
      <3> QED
        BY <1>0, <3>1, ListingFacts
    <2>2. 1 \in DOMAIN all
      BY <1>0, <1>1, ListingFacts
    <2>3. i = 1
      BY <1>0, <1>1, <2>1, <2>2, ListingFacts
    <2>4. j = 1 /\ More(executed, j)
      BY <1>0, <1>1, <2>1, <2>3, ListingFacts DEF IInv, SingleStep, More
    <2> QED
      BY <1>0, <1>1, <2>1, <2>3, <2>4, ListingFacts DEF Report
  <1>5. SortedWalk'
    <2> SUFFICES ASSUME Ascending(all), Ascending(executed)
                 PROVE /\ unexecuted' \subseteq Missing
                       /\ \A k \in DOMAIN executed, l \in DOMAIN all :
                             k < j /\ l >= i + 1 => executed[k] < all[l]
      BY DEF SortedWalk, Report, Missing, Ascending
    <2>1. \A k \in DOMAIN executed : executed[k] # all[i]
      <3> TAKE k \in DOMAIN executed
      <3>1. CASE k < j
        <4>1. executed[k] < all[i]
          BY <1>0, <1>1, <3>1 DEF IInv, SortedWalk
        <4> QED
          BY <1>0, <1>1, <4>1, ListingFacts
      <3>2. CASE k >= j
        <4>1. j \in DOMAIN executed /\ all[i] < executed[j]
          BY <1>0, <1>1, <3>2, ListingFacts DEF Report, More
        <4>2. executed[j] = executed[k] \/ executed[j] < executed[k]
          BY <1>0, <3>2, <4>1, ListingFacts DEF Ascending
        <4> QED
          BY <1>0, <1>1, <4>1, <4>2, ListingFacts
      <3> QED
        BY <1>0, <3>1, <3>2, ListingFacts
    <2>2. all[i] \in Missing
      BY <1>1, <2>1 DEF Missing, Elements
    <2> QED
      BY <1>0, <2>2, ListingFacts DEF Report, IInv, SortedWalk
  <1> QED
    BY <1>2, <1>3, <1>4, <1>5 DEF IInv

LEMMA SkipExecutedIInv == IInv /\ SkipExecuted => IInv'
  <1> SUFFICES ASSUME IInv, SkipExecuted PROVE IInv'
    OBVIOUS
  <1> DEFINE all == all_node_paths
  <1>0. all \in Listings /\ executed \in Listings /\ i \in Nat \ {0} /\ j \in Nat \ {0}
    BY DEF IInv, TypeOK
  <1>1. i \in DOMAIN all /\ j \in DOMAIN executed /\ executed[j] < all[i]
    BY <1>0, ListingFacts DEF SkipExecuted, More
  <1>2. TypeOK' /\ NoneMissed'
    BY <1>0 DEF SkipExecuted, TypeOK, NoneMissed, IInv, Missing
  <1>3. SingleStep'
    <2> SUFFICES ASSUME Len(executed) <= 1, Missing = {}, i = 1 PROVE FALSE
      BY DEF SingleStep, SkipExecuted, Missing, IInv
    <2>1. j = 1
      BY DEF IInv, SingleStep
    <2>2. PICK l \in DOMAIN executed : all[1] = executed[l]
      BY <1>1 DEF Missing, Elements
    <2>3. l = 1
      BY <1>0, <2>2, ListingFacts
    <2> QED
      BY <1>0, <1>1, <2>1, <2>2, <2>3, ListingFacts
  <1>4. SortedWalk'
    <2> SUFFICES ASSUME Ascending(all), Ascending(executed),
                        NEW k \in DOMAIN executed, NEW l \in DOMAIN all, k < j + 1, l >= i
                 PROVE executed[k] < all[l]
      BY DEF SortedWalk, SkipExecuted, Missing, Ascending, IInv
    <2>1. CASE k < j
      BY <2>1, <1>0 DEF IInv, SortedWalk
    <2>2. CASE k = j
      <3>1. all[i] = all[l] \/ all[i] < all[l]
        BY <1>0, <1>1, ListingFacts DEF Ascending
      <3> QED
        BY <1>0, <1>1, <2>2, <3>1, ListingFacts
    <2> QED
      BY <1>0, <2>1, <2>2, ListingFacts
  <1> QED
    BY <1>2, <1>3, <1>4 DEF IInv

LEMMA MatchIInv == IInv /\ Match => IInv'
  <1> SUFFICES ASSUME IInv, Match PROVE IInv'
    OBVIOUS
  <1> DEFINE all == all_node_paths
  <1>0. all \in Listings /\ executed \in Listings /\ i \in Nat \ {0} /\ j \in Nat \ {0}
    BY DEF IInv, TypeOK
  <1>1. i \in DOMAIN all /\ j \in DOMAIN executed /\ executed[j] = all[i]
    BY <1>0, ListingFacts DEF Match, More
  <1>2. TypeOK'
    BY <1>0 DEF Match, TypeOK
  <1>3. NoneMissed'
    BY <1>0, <1>1, ListingFacts DEF Match, NoneMissed, IInv, Missing, Elements
  <1>4. SingleStep'
    BY <1>0 DEF SingleStep, Match, Missing, IInv
  <1>5. SortedWalk'
    <2> SUFFICES ASSUME Ascending(all), Ascending(executed),
                        NEW k \in DOMAIN executed, NEW l \in DOMAIN all, k < j + 1, l >= i + 1
                 PROVE executed[k] < all[l]
      BY DEF SortedWalk, Match, Missing, Ascending, IInv
    <2>1. CASE k < j
      BY <2>1, <1>0, ListingFacts DEF IInv, SortedWalk
    <2>2. CASE k = j
      BY <1>0, <1>1, <2>2, ListingFacts DEF Ascending
    <2> QED
      BY <1>0, <2>1, <2>2, ListingFacts
  <1> QED
    BY <1>2, <1>3, <1>4, <1>5 DEF IInv

LEMMA ReturnIInv == IInv /\ Return => IInv'
  BY DEF IInv, Return, TypeOK, NoneMissed, SingleStep, SortedWalk, Missing, Ascending, Elements

LEMMA NextIInv == IInv /\ [Next]_vars => IInv'
  <1>1. IInv /\ UNCHANGED vars => IInv'
    BY DEF IInv, vars, TypeOK, NoneMissed, SingleStep, SortedWalk, Missing, Ascending, Elements
  <1> QED
    BY <1>1, ReportIInv, SkipExecutedIInv, MatchIInv, ReturnIInv DEF Next, Returned

\* The final check of execute never lets an unexecuted node pass, whatever
\* the orders of iteration.
THEOREM NothingIsMissed == Spec => []NoneMissed
  <1>1. IInv => NoneMissed
    BY DEF IInv
  <1> QED
    BY InitIInv, NextIInv, <1>1, PTL DEF Spec

\* It is right about a run of one node, and about sorted iterations.
THEOREM RightWhenSorted == Spec => []ExactWhenSorted
  <1>1. IInv => ExactWhenSorted
    BY DEF IInv, ExactWhenSorted, SingleStep, SortedWalk
  <1> QED
    BY InitIInv, NextIInv, <1>1, PTL DEF Spec

-----------------------------------------------------------------------------

\* A verdict is given as FinalCheck allows it: by NoneMissed a report that is
\* empty means that everything has run, and by SingleStep one that is not can
\* only be wrong if more than one node has.
LEMMA ReturnConcludes ==
  ASSUME IInv, Return
  PROVE  FC!Report \/ FC!Pass
  <1>a. all_node_paths \in Listings /\ executed \in Listings /\ i \in Nat \ {0}
    BY DEF IInv, TypeOK
  <1>b. /\ Len(all_node_paths) \in Nat /\ DOMAIN all_node_paths = 1..Len(all_node_paths)
        /\ Len(executed) \in Nat
    BY <1>a, ListingFacts
  <1>c. i > Len(all_node_paths)
    <2>1. Concluded
      BY DEF Return
    <2> QED
      BY <1>a, <1>b, <2>1 DEF Concluded, More
  <1>1. UNCHANGED <<Elements(all_node_paths), Elements(executed)>>
    BY DEF Return
  <1>2. CASE unexecuted = {}
    <2>1. Elements(all_node_paths) \subseteq Elements(executed)
      <3>1. DOMAIN all_node_paths \subseteq 1..(i - 1)
        BY <1>a, <1>b, <1>c
      <3>2. \A k \in DOMAIN all_node_paths : all_node_paths[k] \notin Missing
        BY <1>2, <3>1 DEF IInv, NoneMissed
      <3> QED
        BY <3>2 DEF Missing, Elements
    <2>2. FC!Pass
      BY <1>1, <1>2, <2>1 DEF Return, FC!Pass, FC!MayPass
    <2> QED
      BY <2>2
  <1>3. CASE unexecuted # {}
    <2>1. FC!MayReport
      <3>1. CASE Missing # {}
        BY <3>1 DEF Missing, FC!MayReport, FC!MayPass
      <3>2. CASE Missing = {}
        <4>1. Elements(all_node_paths) # {}
          BY <1>3 DEF IInv, NoneMissed
        <4>2. Len(executed) > 1
          BY <1>b, <1>3, <3>2 DEF IInv, SingleStep
        <4>3. 1 \in DOMAIN executed /\ 2 \in DOMAIN executed /\ executed[1] # executed[2]
          BY <1>a, <1>b, <4>2, ListingFacts
        <4> QED
          BY <4>1, <4>3 DEF FC!MayReport, Elements
      <3> QED
        BY <3>1, <3>2
    <2>2. FC!Report
      BY <1>1, <1>3, <2>1 DEF Return, FC!Report
    <2> QED
      BY <2>2
  <1> QED
    BY <1>2, <1>3

\* The walk implements the one step that the scheduler takes: every step but
\* the last is a stutter.
THEOREM Refinement == Spec => ImplementsFinalCheck
  <1>1. Init => FC!Init
    BY DEF Init, FC!Init
  <1>2. IInv /\ [Next]_vars => [FC!Next]_(FC!vars)
    <2> SUFFICES ASSUME IInv, [Next]_vars, ~Return PROVE UNCHANGED FC!vars
      BY ReturnConcludes DEF FC!Next
    <2> QED
      BY DEF Next, Report, SkipExecuted, Match, Returned, vars, FC!vars, Elements
  <1> QED
    BY InitIInv, NextIInv, <1>1, <1>2, PTL DEF Spec, ImplementsFinalCheck, FC!Spec
==============================================================================
