------------------------------ MODULE TickLock ------------------------------
(***************************************************************************)
(* The cycle lock of the push dispatcher (lib/push/controller.js).         *)
(*                                                                         *)
(* setInterval calls tick(); the `running` flag makes a call that finds a  *)
(* cycle in flight return at once, unless that cycle is past its budget:   *)
(* then the flag is taken over and a fresh cycle starts next to the lost   *)
(* one, which may still resolve later and then runs its own `finally`.     *)
(*                                                                         *)
(* This module has the lock and nothing of what a cycle does; PushDispatch *)
(* gives the cycle its body and is shown to implement this module.         *)
(***************************************************************************)
EXTENDS Naturals, FiniteSets

CONSTANTS
    Cycles,        \* activations of tick() that can be in flight together
    Budget,        \* TICK_BUDGET_MS, in clock units
    MaxAbandoned,  \* where the model's `abandoned` counter saturates
    MaxHangs       \* bound: how many cycles may never return

ASSUME CyclesAssumption == IsFiniteSet(Cycles)
ASSUME BudgetAssumption == Budget \in Nat \ {0}
ASSUME HangAssumption   == MaxHangs \in Nat
ASSUME MaxAbandonedAssumption == MaxAbandoned \in Nat
ASSUME AbandonedAssumption    == Cardinality(Cycles) <= MaxAbandoned

VARIABLES
    timer,      \* the interval is set (start() without stop())
    live,       \* cycles whose promise has not settled
    hung,       \* those of them that never will
    running,    \* the lock flag
    held,       \* now - runStartedAt while running, saturating at Budget
    abandoned   \* how many cycles lost the lock to the budget

vars == <<timer, live, hung, running, held, abandoned>>

FlagsOK ==
    /\ timer \in BOOLEAN
    /\ running \in BOOLEAN

CyclesOK ==
    /\ live \subseteq Cycles
    /\ hung \subseteq live
    /\ held \in 0..Budget
    /\ abandoned \in 0..MaxAbandoned

TypeOK == FlagsOK /\ CyclesOK

Init ==
    /\ timer = FALSE
    /\ live = {}
    /\ hung = {}
    /\ running = FALSE
    /\ held = 0
    /\ abandoned = 0

(***************************************************************************)
(* The outcomes of one call of tick().                                     *)
(***************************************************************************)
(* Mutant: > for >= (controller.js 124).                                   *)
PastBudgetLate == held > Budget

PastBudget == held = Budget

Skipped == running /\ ~PastBudget /\ UNCHANGED <<live, running, held, abandoned>>

TakeLock(c) ==
    /\ c \notin live
    /\ live' = live \cup {c}
    /\ running' = TRUE
    /\ held' = 0

Begin(c) == ~running /\ TakeLock(c) /\ UNCHANGED abandoned

(* Mutants: the abandoned cycle is not counted; no budget at all.          *)
TakeOverUncounted(c) == running /\ PastBudget /\ TakeLock(c) /\ UNCHANGED abandoned

TakeOverNever(c) == FALSE /\ TakeLock(c) /\ UNCHANGED abandoned

TakeOver(c) ==
    /\ running /\ PastBudget
    /\ TakeLock(c)
    /\ abandoned' = IF abandoned < MaxAbandoned THEN abandoned + 1 ELSE abandoned

Fresh == \E c \in Cycles : Begin(c) \/ TakeOver(c)

Tick == timer /\ (Fresh \/ Skipped) /\ UNCHANGED <<timer, hung>>

(* start() runs one cycle at once; a second start() changes nothing.       *)
Start == ~timer /\ timer' = TRUE /\ (Fresh \/ Skipped) /\ UNCHANGED hung

(* stop() clears the interval; a cycle in flight is not cancelled.         *)
Stop == timer /\ timer' = FALSE /\ UNCHANGED <<live, hung, running, held, abandoned>>

(* The `finally` of any cycle, abandoned or not, clears the flag.          *)
End(c) ==
    /\ c \in live \ hung
    /\ live' = live \ {c}
    /\ running' = FALSE
    /\ held' = 0
    /\ UNCHANGED <<timer, hung, abandoned>>

(* The presence call of c will never settle.                               *)
Hang(c) ==
    /\ c \in live \ hung
    /\ Cardinality(hung) < MaxHangs
    /\ hung' = hung \cup {c}
    /\ UNCHANGED <<timer, live, running, held, abandoned>>

TimePasses ==
    /\ running /\ ~PastBudget
    /\ held' = held + 1
    /\ UNCHANGED <<timer, live, hung, running, abandoned>>

(* The harness process dies: the closure's state is gone with it.          *)
Crash ==
    /\ timer' = FALSE
    /\ live' = {}
    /\ hung' = {}
    /\ running' = FALSE
    /\ held' = 0
    /\ abandoned' = 0

Next ==
    \/ Tick
    \/ Start
    \/ Stop
    \/ \E c \in Cycles : End(c) \/ Hang(c)
    \/ TimePasses
    \/ Crash

Spec == Init /\ [][Next]_vars

(***************************************************************************)
(* The interval keeps firing while it is set, the clock runs, and a cycle  *)
(* that is not hung settles.                                               *)
(***************************************************************************)
Fairness ==
    /\ WF_vars(Tick)
    /\ WF_vars(TimePasses)
    /\ \A c \in Cycles : WF_vars(End(c))

FairSpec == Spec /\ Fairness

-----------------------------------------------------------------------------
(* k abandoned cycles allow at most k + 1 cycles side by side, the lock    *)
(* being worth one of them (controller.js 121-137, 246-248).               *)
OverlapBound ==
    Cardinality(live) <= abandoned + (IF running THEN 1 ELSE 0)

(* Until a budget expires, two cycles never run side by side.              *)
MutualExclusion ==
    abandoned = 0 => \A c, d \in live : c = d

(* The flag is never left set by a cycle that has settled: every way out   *)
(* of tick() passes the `finally`.                                         *)
NoOrphanLock == running => live # {}

(* A cycle that hangs never stops the dispatcher: while the interval is    *)
(* set, fresh cycles keep starting (controller.js 89-96).                  *)
DispatcherRecovers == <>[]timer => []<><<Fresh>>_vars
=============================================================================
