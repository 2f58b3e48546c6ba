--------------------------- MODULE TickLock_proofs --------------------------
(***************************************************************************)
(* The lock's safety for every set of cycles, budget and counter bound.    *)
(***************************************************************************)
EXTENDS TickLock, FiniteSetTheorems, TLAPS

(* The counters and sets keep their types.                                 *)
LEMMA CyclesStep == TypeOK /\ [Next]_vars => CyclesOK'
<1> USE BudgetAssumption, MaxAbandonedAssumption DEF CyclesOK
<1> SUFFICES ASSUME CyclesOK, [Next]_vars PROVE CyclesOK'
  BY DEF TypeOK
<1>1. ASSUME Fresh, UNCHANGED hung PROVE CyclesOK'
  BY <1>1 DEF Fresh, Begin, TakeOver, TakeLock
<1>2. ASSUME Tick \/ Start PROVE CyclesOK'
  BY <1>1, <1>2 DEF Tick, Start, Skipped
<1>3. ASSUME NEW c \in Cycles, End(c) PROVE CyclesOK'
  BY <1>3 DEF End
<1>4. ASSUME NEW c \in Cycles, Hang(c) PROVE CyclesOK'
  BY <1>4 DEF Hang
<1>5. ASSUME TimePasses PROVE CyclesOK'
  BY <1>5 DEF TimePasses, PastBudget
<1>6. ASSUME Crash PROVE CyclesOK'
  BY <1>6 DEF Crash
<1>7. CASE Stop \/ UNCHANGED vars
  BY <1>7 DEF Stop, vars
<1>8. QED
  BY <1>2, <1>3, <1>4, <1>5, <1>6, <1>7 DEF Next

(* Every reachable state is well typed.                                    *)
THEOREM TypeCorrect == Spec => []TypeOK
<1>1. Init => FlagsOK /\ CyclesOK
  <2>1. Init => FlagsOK
    BY DEF Init, FlagsOK
  <2>2. Init => CyclesOK
    BY BudgetAssumption, MaxAbandonedAssumption DEF Init, CyclesOK
  <2>3. QED
    BY <2>1, <2>2
<1>2. TypeOK /\ [Next]_vars => FlagsOK'
  BY DEF Next, vars, Tick, Start, Stop, End, Hang, TimePasses, Crash,
         Fresh, Begin, TakeOver, TakeLock, Skipped, TypeOK, FlagsOK
<1>3. QED
  BY <1>1, <1>2, CyclesStep, PTL DEF Spec, TypeOK

-----------------------------------------------------------------------------
(* Sets of cycles in flight are finite, so counting them makes sense.      *)
LEMMA CountLive ==
  ASSUME NEW S \in SUBSET Cycles
  PROVE  /\ IsFiniteSet(S)
         /\ Cardinality(S) \in Nat
         /\ Cardinality(S) <= MaxAbandoned
         /\ \A c \in Cycles : c \notin S => Cardinality(S \cup {c}) = Cardinality(S) + 1
         /\ \A c \in S : Cardinality(S \ {c}) = Cardinality(S) - 1
<1>1. IsFiniteSet(S) /\ Cardinality(S) <= Cardinality(Cycles)
  BY CyclesAssumption, FS_Subset
<1>2. Cardinality(Cycles) \in Nat /\ Cardinality(S) \in Nat
  BY <1>1, CyclesAssumption, FS_CardinalityType
<1>3. QED
  BY <1>1, <1>2, MaxAbandonedAssumption, AbandonedAssumption, FS_AddElement, FS_RemoveElement

(* What one call of tick() does to the number of cycles in flight.         *)
LEMMA FreshKeepsBound ==
  ASSUME TypeOK, OverlapBound, Fresh \/ Skipped
  PROVE  OverlapBound'
<1> USE MaxAbandonedAssumption
<1>1. CASE Skipped
  BY <1>1 DEF Skipped, OverlapBound
<1>2. ASSUME NEW c \in Cycles, Begin(c) PROVE OverlapBound'
  <2>1. Cardinality(live') = Cardinality(live) + 1
    BY <1>2, CountLive DEF Begin, TakeLock, TypeOK, CyclesOK
  <2>2. QED
    BY <1>2, <2>1, CountLive DEF Begin, TakeLock, TypeOK, CyclesOK, OverlapBound
<1>3. ASSUME NEW c \in Cycles, TakeOver(c) PROVE OverlapBound'
  <2>1. /\ Cardinality(live') = Cardinality(live) + 1
        /\ Cardinality(live') <= MaxAbandoned
        /\ Cardinality(live) \in Nat
    BY <1>3, CountLive DEF TakeOver, TakeLock, TypeOK, CyclesOK
  <2>2. CASE abandoned < MaxAbandoned
    BY <1>3, <2>1, <2>2 DEF TakeOver, TakeLock, TypeOK, CyclesOK, OverlapBound
  <2>3. CASE ~(abandoned < MaxAbandoned)
    BY <1>3, <2>1, <2>3 DEF TakeOver, TakeLock, TypeOK, CyclesOK, OverlapBound
  <2>4. QED
    BY <2>2, <2>3
<1>4. QED
  BY <1>1, <1>2, <1>3 DEF Fresh

(* k abandonments allow at most k + 1 cycles side by side, in every run.   *)
THEOREM OverlapBounded == Spec => []OverlapBound
<1>1. Init => OverlapBound
  BY FS_EmptySet DEF Init, OverlapBound
<1>2. TypeOK /\ OverlapBound /\ [Next]_vars => OverlapBound'
  <2> SUFFICES ASSUME TypeOK, OverlapBound, [Next]_vars PROVE OverlapBound'
    OBVIOUS
  <2>1. ASSUME Tick \/ Start PROVE OverlapBound'
    BY <2>1, FreshKeepsBound DEF Tick, Start
  <2>2. ASSUME NEW c \in Cycles, End(c) PROVE OverlapBound'
    <3>1. /\ Cardinality(live') = Cardinality(live) - 1
          /\ Cardinality(live) \in Nat
      BY <2>2, CountLive DEF End, TypeOK, CyclesOK
    <3>2. QED
      BY <2>2, <3>1 DEF End, TypeOK, CyclesOK, OverlapBound
  <2>3. ASSUME Stop \/ TimePasses \/ UNCHANGED vars PROVE OverlapBound'
    BY <2>3 DEF Stop, TimePasses, vars, OverlapBound
  <2>4. ASSUME NEW c \in Cycles, Hang(c) PROVE OverlapBound'
    BY <2>4 DEF Hang, OverlapBound
  <2>5. ASSUME Crash PROVE OverlapBound'
    BY <2>5, FS_EmptySet DEF Crash, OverlapBound
  <2>6. QED
    BY <2>1, <2>2, <2>3, <2>4, <2>5 DEF Next
<1>3. QED
  BY <1>1, <1>2, TypeCorrect, PTL DEF Spec

-----------------------------------------------------------------------------
(* Two cycles in flight are two elements of `live`.                        *)
LEMMA BoundExcludes == TypeOK /\ OverlapBound => MutualExclusion
<1> SUFFICES ASSUME TypeOK, OverlapBound, abandoned = 0,
                    NEW c \in live, NEW d \in live, c # d
             PROVE  FALSE
  BY DEF MutualExclusion
<1>1. Cardinality(live) \in Nat /\ Cardinality(live) <= 1
  BY CountLive DEF TypeOK, CyclesOK, OverlapBound
<1>2. Cardinality(live \ {c}) = Cardinality(live) - 1
  BY CountLive DEF TypeOK, CyclesOK
<1>3. Cardinality((live \ {c}) \ {d}) = Cardinality(live \ {c}) - 1
  BY CountLive DEF TypeOK, CyclesOK
<1>4. Cardinality((live \ {c}) \ {d}) \in Nat
  BY CountLive DEF TypeOK, CyclesOK
<1>5. QED
  BY <1>1, <1>2, <1>3, <1>4

(* Without an expired budget the flag is a mutual exclusion.               *)
THEOREM CyclesExclude == Spec => []MutualExclusion
  BY OverlapBounded, TypeCorrect, BoundExcludes, PTL

(* A set flag always has a cycle in flight behind it.                      *)
THEOREM LockHasCycle == Spec => []NoOrphanLock
<1>1. Init => NoOrphanLock
  BY DEF Init, NoOrphanLock
<1>2. NoOrphanLock /\ [Next]_vars => NoOrphanLock'
  BY DEF Next, vars, Tick, Start, Stop, End, Hang, TimePasses, Crash,
         Fresh, Begin, TakeOver, TakeLock, Skipped, NoOrphanLock
<1>3. QED
  BY <1>1, <1>2, PTL DEF Spec
=============================================================================
