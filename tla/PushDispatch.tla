---------------------------- MODULE PushDispatch ----------------------------
(***************************************************************************)
(* The presence-driven push dispatcher: lib/push/controller.js, with the   *)
(* part of lib/push/store.js it calls.  Cycles run on one JavaScript       *)
(* thread, so a step here is the code between two awaits that other code   *)
(* can run in; cycles overlap only when one has outlived its budget.       *)
(*                                                                         *)
(* Times are kept as ages in one clock unit (a minute, for the constants   *)
(* of the code: Budget 3, Cooldown 2); a cycle's `now` is its start, so    *)
(* `now - t` is the age of t minus the age of the cycle.                   *)
(***************************************************************************)
EXTENDS Integers, FiniteSets

CONSTANTS
    Cycles, Sessions, Endpoints,
    DoneEnabled,   \* remfs-options.json push.done
    Budget,        \* TICK_BUDGET_MS
    Cooldown,      \* SESSION_PUSH_COOLDOWN_MS
    Faults,        \* which of FaultKinds may happen in this instance
    AgeCap,        \* bound: no cycle is followed past this age
    MaxTurn,       \* bound: user turns per session
    MaxFaults,     \* bound: faults per behaviour
    MaxAbandoned,  \* where the abandoned counter saturates
    None, NoView

FaultKinds == {"overrun", "crash", "throw", "save", "week"}

ASSUME ConstantsAssumption ==
    /\ IsFiniteSet(Cycles) /\ None \notin Cycles
    /\ Faults \subseteq FaultKinds
    /\ {Budget, AgeCap} \subseteq Nat \ {0}
    /\ {Cooldown, MaxTurn, MaxFaults, MaxAbandoned} \subseteq Nat
    /\ Budget <= AgeCap
    /\ Cardinality(Cycles) <= MaxAbandoned

States == {"RUNNING", "NEEDS_USER", "FAILED", "DONE"}
Tasks  == [state : States, turn : 0..MaxTurn]
Views  == [Sessions -> Tasks]

(* The dedupe key sessionId:STATE:turnCycle.                               *)
Keys == [session : Sessions, state : States, turn : 0..MaxTurn]
KeyOf(view, s) == [session |-> s, state |-> view[s].state, turn |-> view[s].turn]

Notify(state) == state \in {"NEEDS_USER", "FAILED"} \/ (DoneEnabled /\ state = "DONE")

VARIABLES
    sess,       \* what the harness would report of each session now
    timer, running, held, abandoned,   \* the lock: see TickLock
    cyc,        \* the activations of tick()
    snapshot,   \* lastSnapshot: the turn it has for each session
    sincePush,  \* age of lastPushAt[s]
    subs,       \* the store's subscriptions, in memory
    pushed,     \* the store's dedupe map, in memory
    stale,      \* its entries older than PUSHED_MAX_AGE_MS
    disk,       \* remfs-push.json
    accepted,   \* history: notifications the push service accepted
    sinceSent,  \* history: age of the cycle that sent the last one of a session
    gone,       \* history: endpoints answered 404/410, not subscribed again
    faults      \* history: faults so far

lockVars  == <<timer, running, held, abandoned>>
storeVars == <<subs, pushed, stale, disk>>
histVars  == <<accepted, sinceSent, gone, faults>>
vars == <<sess, lockVars, cyc, snapshot, sincePush, storeVars, histVars>>

PCs == {"idle", "tasks", "load", "next", "send", "answer"}

Idle == [pc |-> "idle", age |-> 0, view |-> NoView, todo |-> {}, subs |-> {},
         at |-> None, left |-> {}, answer |-> None]

Answers == [from : Endpoints, status : {"sent", "gone", "failed"}]

Activations ==
    [pc : PCs, age : 0..AgeCap, view : Views \cup {NoView}, todo : SUBSET Keys,
     subs : SUBSET Endpoints, at : Keys \cup {None}, left : SUBSET Endpoints,
     answer : Answers \cup {None}]

Live == {c \in Cycles : cyc[c].pc # "idle"}

(* Ages past this no longer suppress a push, whatever cycle asks.          *)
Forgotten == AgeCap + Cooldown

FlagsOK == timer \in BOOLEAN /\ running \in BOOLEAN

CountersOK ==
    /\ held \in 0..Budget /\ abandoned \in 0..MaxAbandoned
    /\ faults \in 0..MaxFaults

CyclesOK ==
    /\ cyc \in [Cycles -> Activations]
    /\ \A c \in Cycles :
          /\ cyc[c].left \subseteq cyc[c].subs
          /\ IF cyc[c].pc \in {"send", "answer"}
             THEN cyc[c].at \in Keys ELSE cyc[c].left = {}
          /\ cyc[c].pc = "answer" => cyc[c].answer \in Answers

SessionsOK ==
    /\ sess \in Views
    /\ snapshot \in [Sessions -> 0..MaxTurn] \cup {NoView}
    /\ sincePush \in [Sessions -> 0..Forgotten]
    /\ sinceSent \in [Sessions -> 0..Forgotten]

StoreOK ==
    /\ subs \subseteq Endpoints /\ pushed \subseteq Keys /\ stale \subseteq pushed
    /\ disk \in [subs : SUBSET Endpoints, pushed : SUBSET Keys, stale : SUBSET Keys]
    /\ disk.stale \subseteq disk.pushed
    /\ accepted \in [Keys \X Endpoints -> Nat]
    /\ gone \subseteq Endpoints

TypeOK == FlagsOK /\ CountersOK /\ CyclesOK /\ SessionsOK /\ StoreOK

Init ==
    /\ sess = [s \in Sessions |-> [state |-> "RUNNING", turn |-> 0]]
    /\ timer = FALSE /\ running = FALSE /\ held = 0
    /\ abandoned = 0
    /\ cyc = [c \in Cycles |-> Idle]
    /\ snapshot = NoView
    /\ sincePush = [s \in Sessions |-> Forgotten]
    /\ subs = Endpoints /\ pushed = {} /\ stale = {}
    /\ disk = [subs |-> Endpoints, pushed |-> {}, stale |-> {}]
    /\ accepted = [ke \in Keys \X Endpoints |-> 0]
    /\ sinceSent = [s \in Sessions |-> Forgotten]
    /\ gone = {}
    /\ faults = 0

Fault(kind) == kind \in Faults /\ faults < MaxFaults /\ faults' = faults + 1

(* save(): the whole store object replaces the file.                       *)
Save == disk' = [subs |-> subs', pushed |-> pushed', stale |-> stale']

-----------------------------------------------------------------------------
(***************************************************************************)
(* Starting a cycle.                                                       *)
(***************************************************************************)
TakeLock(c) ==
    /\ cyc[c].pc = "idle"
    /\ cyc' = [cyc EXCEPT ![c] = [Idle EXCEPT !.pc = "tasks"]]
    /\ running' = TRUE /\ held' = 0

Begin(c) == ~running /\ TakeLock(c) /\ UNCHANGED <<abandoned, faults>>

TakeOver(c) ==
    /\ running /\ held = Budget
    /\ TakeLock(c)
    /\ abandoned' = IF abandoned < MaxAbandoned THEN abandoned + 1 ELSE abandoned
    /\ Fault("overrun")

Skipped == running /\ held < Budget /\ UNCHANGED <<cyc, running, held, abandoned, faults>>

Call ==
    /\ (\E c \in Cycles : Begin(c) \/ TakeOver(c)) \/ Skipped
    /\ UNCHANGED <<sess, snapshot, sincePush, storeVars, accepted, sinceSent, gone>>

Tick  == timer /\ UNCHANGED timer /\ Call
Start == ~timer /\ timer' = TRUE /\ Call

Stop == timer /\ timer' = FALSE
        /\ UNCHANGED <<sess, running, held, abandoned, cyc, snapshot,
                       sincePush, storeVars, histVars>>

(* Mutant: no `finally`.                                                   *)
FinishLocked(c) ==
    /\ cyc' = [cyc EXCEPT ![c] = Idle]
    /\ UNCHANGED lockVars

(* The `finally` of every way out of tick().                               *)
Finish(c) ==
    /\ cyc' = [cyc EXCEPT ![c] = Idle]
    /\ running' = FALSE /\ held' = 0
    /\ UNCHANGED <<timer, abandoned>>

-----------------------------------------------------------------------------
(***************************************************************************)
(* The body of a cycle.                                                    *)
(***************************************************************************)
(* presence.tasks() reads the session logs ...                             *)
Scan(c) ==
    /\ cyc[c].pc = "tasks" /\ cyc[c].view = NoView
    /\ cyc' = [cyc EXCEPT ![c].view = sess]
    /\ UNCHANGED <<sess, lockVars, snapshot, sincePush, storeVars, histVars>>

(* ... and answers some time later: the answer becomes the snapshot the    *)
(* HTTP route serves, and its tasks worth a notification are gone through. *)
TasksOk(c) ==
    /\ cyc[c].pc = "tasks" /\ cyc[c].view # NoView
    /\ snapshot' = [s \in Sessions |-> cyc[c].view[s].turn]
    /\ cyc' = [cyc EXCEPT ![c].pc = "load", ![c].view = NoView,
                  ![c].todo = {KeyOf(cyc[c].view, s) :
                                  s \in {t \in Sessions : Notify(cyc[c].view[t].state)}}]
    /\ UNCHANGED <<sess, lockVars, sincePush, storeVars, histVars>>

(* An error envelope or a throw: the snapshot stays what it was.           *)
TasksError(c) ==
    /\ cyc[c].pc = "tasks"
    /\ Finish(c)
    /\ UNCHANGED <<sess, snapshot, sincePush, storeVars, histVars>>

(* The subscriptions are copied once, for all the tasks of the cycle.      *)
LoadSubs(c) ==
    /\ cyc[c].pc = "load"
    /\ cyc' = [cyc EXCEPT ![c].pc = "next", ![c].subs = subs]
    /\ UNCHANGED <<sess, lockVars, snapshot, sincePush, storeVars, histVars>>

(* ensureVapid() mints the key pair and cannot save it.                    *)
LoadFails(c) ==
    /\ cyc[c].pc = "load"
    /\ Fault("save")
    /\ Finish(c)
    /\ UNCHANGED <<sess, snapshot, sincePush, storeVars, accepted, sinceSent, gone>>

Cooling(c, s) == sincePush[s] - cyc[c].age < Cooldown

(* Mutants: no dedupe map; dedupe keys without the turn.                   *)
SuppressedByCooldown(c, k) == Cooling(c, k.session)

SuppressedAcrossTurns(c, k) ==
    \/ \E old \in pushed : old.session = k.session /\ old.state = k.state
    \/ Cooling(c, k.session)

(* The dedupe and cooldown checks for one task.                            *)
Suppressed(c, k) == k \in pushed \/ Cooling(c, k.session)

Skip(c, k) ==
    /\ cyc[c].pc = "next" /\ k \in cyc[c].todo
    /\ Suppressed(c, k)
    /\ cyc' = [cyc EXCEPT ![c].todo = @ \ {k}]
    /\ UNCHANGED <<sess, lockVars, snapshot, sincePush, storeVars, histVars>>

(* Mutant: the task goes to the store's subscriptions of now.              *)
TakeFresh(c, k) ==
    /\ cyc[c].pc = "next" /\ k \in cyc[c].todo
    /\ ~Suppressed(c, k)
    /\ cyc' = [cyc EXCEPT ![c].todo = @ \ {k}, ![c].pc = "send",
                          ![c].at = k, ![c].left = subs]
    /\ UNCHANGED <<sess, lockVars, snapshot, sincePush, storeVars, histVars>>

Take(c, k) ==
    /\ cyc[c].pc = "next" /\ k \in cyc[c].todo
    /\ ~Suppressed(c, k)
    /\ cyc' = [cyc EXCEPT ![c].todo = @ \ {k}, ![c].pc = "send",
                          ![c].at = k, ![c].left = cyc[c].subs]
    /\ UNCHANGED <<sess, lockVars, snapshot, sincePush, storeVars, histVars>>

(* One POST, with the push service's decision.                             *)
Post(c, e, answer) ==
    /\ cyc[c].pc = "send" /\ e \in cyc[c].left
    /\ cyc' = [cyc EXCEPT ![c].left = @ \ {e}, ![c].pc = "answer",
                          ![c].answer = [from |-> e, status |-> answer]]
    /\ IF answer = "sent"
       THEN /\ accepted'  = [accepted EXCEPT ![<<cyc[c].at, e>>] = @ + 1]
            /\ sinceSent' = [sinceSent EXCEPT ![cyc[c].at.session] = cyc[c].age]
       ELSE UNCHANGED <<accepted, sinceSent>>
    /\ UNCHANGED <<sess, lockVars, snapshot, sincePush, storeVars, gone, faults>>

(* encryptPayload throws outside sendPush's try, for keys that have the    *)
(* shape of keys and are none: the cycle is over.                          *)
PostThrows(c) ==
    /\ cyc[c].pc = "send" /\ cyc[c].left # {}
    /\ Fault("throw")
    /\ Finish(c)
    /\ UNCHANGED <<sess, snapshot, sincePush, storeVars, accepted, sinceSent, gone>>

(* The answer's effect on the store, in memory: a gone endpoint is         *)
(* removed, another outcome is noted on the subscription.                  *)
ApplyAnswer(c) ==
    LET a == cyc[c].answer IN
    /\ cyc[c].pc = "answer"
    /\ IF a.status = "gone"
       THEN subs' = subs \ {a.from} /\ gone' = gone \cup {a.from}
       ELSE UNCHANGED <<subs, gone>>
    /\ UNCHANGED <<sess, snapshot, sincePush, pushed, stale, accepted, sinceSent>>

(* Mutant: the store is changed in memory only.                            *)
AnsweredInMemory(c) ==
    /\ ApplyAnswer(c) /\ UNCHANGED disk
    /\ cyc' = [cyc EXCEPT ![c].pc = "send", ![c].answer = None]
    /\ UNCHANGED <<lockVars, faults>>

(* An endpoint the store no longer has changes nothing and saves nothing.  *)
Answered(c) ==
    /\ ApplyAnswer(c)
    /\ IF cyc[c].answer.from \in subs THEN Save ELSE UNCHANGED disk
    /\ cyc' = [cyc EXCEPT ![c].pc = "send", ![c].answer = None]
    /\ UNCHANGED <<lockVars, faults>>

(* save() rejects (disk full, file locked): the cycle's catch ends it.     *)
AnsweredUnsaved(c) ==
    /\ ApplyAnswer(c) /\ UNCHANGED disk
    /\ cyc[c].answer.from \in subs
    /\ Fault("save")
    /\ Finish(c)

(* Mutant: the map is saved without the new key.                           *)
MarkNothing(c) ==
    /\ cyc[c].pc = "send" /\ cyc[c].left = {}
    /\ pushed' = pushed \ stale
    /\ stale' = {}
    /\ UNCHANGED <<sess, snapshot, subs, accepted, sinceSent, gone>>

(* markPushed forgets entries past their age, then saves.                  *)
MarkInMemory(c) ==
    /\ cyc[c].pc = "send" /\ cyc[c].left = {}
    /\ pushed' = (pushed \ stale) \cup {cyc[c].at}
    /\ stale' = {}
    /\ UNCHANGED <<sess, snapshot, subs, accepted, sinceSent, gone>>

(* Mutant: lastPushAt is not set.                                          *)
MarkNoStamp(c) ==
    /\ MarkInMemory(c) /\ Save
    /\ cyc' = [cyc EXCEPT ![c].pc = "next", ![c].at = None]
    /\ UNCHANGED <<lockVars, sincePush, faults>>

Mark(c) ==
    /\ MarkInMemory(c) /\ Save
    /\ sincePush' = [sincePush EXCEPT ![cyc[c].at.session] = cyc[c].age]
    /\ cyc' = [cyc EXCEPT ![c].pc = "next", ![c].at = None]
    /\ UNCHANGED <<lockVars, faults>>

MarkUnsaved(c) ==
    /\ MarkInMemory(c) /\ UNCHANGED <<disk, sincePush>>
    /\ Fault("save")
    /\ Finish(c)

(* The end of the loop; once a minute pruneRevoked drops subscriptions     *)
(* (which ones is the matter of PushSubscriptions).                        *)
Complete(c) ==
    /\ cyc[c].pc = "next" /\ cyc[c].todo = {}
    /\ Finish(c)
    /\ UNCHANGED <<sess, snapshot, sincePush, pushed, stale, histVars>>
    /\ \E kept \in SUBSET subs :
          /\ subs' = kept
          /\ IF kept = subs THEN UNCHANGED disk ELSE Save

Step(c) ==
    \/ Scan(c) \/ TasksOk(c) \/ TasksError(c) \/ LoadSubs(c) \/ LoadFails(c)
    \/ \E k \in Keys : Skip(c, k) \/ Take(c, k)
    \/ PostThrows(c)
    \/ \E e \in Endpoints :
          \E a \in {"sent", "gone", "failed"} : Post(c, e, a)
    \/ Answered(c) \/ AnsweredUnsaved(c) \/ Mark(c) \/ MarkUnsaved(c)
    \/ Complete(c)

-----------------------------------------------------------------------------
(***************************************************************************)
(* The surroundings: agents, users, phones, the clock, the process.        *)
(***************************************************************************)
(* The agent changes its state within a turn; the user's next message      *)
(* opens a turn.                                                           *)
Work(s) ==
    /\ \/ \E st \in States \ {sess[s].state} :
             /\ sess[s].state \in {"RUNNING", "NEEDS_USER"}
             /\ sess' = [sess EXCEPT ![s].state = st]
       \/ /\ sess[s].turn < MaxTurn
          /\ sess' = [sess EXCEPT ![s] = [state |-> "RUNNING", turn |-> @.turn + 1]]
    /\ UNCHANGED <<lockVars, cyc, snapshot, sincePush, storeVars, histVars>>

Subscribe(e) ==
    /\ e \notin subs
    /\ subs' = subs \cup {e} /\ gone' = gone \ {e}
    /\ UNCHANGED <<pushed, stale>> /\ Save
    /\ UNCHANGED <<sess, lockVars, cyc, snapshot, sincePush, accepted, sinceSent, faults>>

AgeBy1(age, cap) == IF age < cap THEN age + 1 ELSE age

TimePasses ==
    /\ \A c \in Live : cyc[c].age < (IF "overrun" \in Faults THEN AgeCap ELSE Budget - 1)
    /\ cyc' = [c \in Cycles |-> IF c \in Live THEN [cyc[c] EXCEPT !.age = @ + 1] ELSE cyc[c]]
    /\ held' = IF running THEN AgeBy1(held, Budget) ELSE held
    /\ sincePush' = [s \in Sessions |-> AgeBy1(sincePush[s], Forgotten)]
    /\ sinceSent' = [s \in Sessions |-> AgeBy1(sinceSent[s], Forgotten)]
    /\ UNCHANGED <<sess, timer, running, abandoned, snapshot, storeVars,
                   accepted, gone, faults>>

(* Seven quiet days: every dedupe entry is now past its age.               *)
WeekPasses ==
    /\ Live = {} /\ stale # pushed
    /\ Fault("week")
    /\ stale' = pushed
    /\ disk' = [disk EXCEPT !.stale = disk.pushed]
    /\ sincePush' = [s \in Sessions |-> Forgotten]
    /\ sinceSent' = [s \in Sessions |-> Forgotten]
    /\ UNCHANGED <<sess, lockVars, cyc, snapshot, subs, pushed, accepted, gone>>

(* The process dies: memory is gone, the file stays.                       *)
Crash ==
    /\ Fault("crash")
    /\ timer' = FALSE /\ running' = FALSE /\ held' = 0
    /\ abandoned' = 0
    /\ cyc' = [c \in Cycles |-> Idle]
    /\ snapshot' = NoView
    /\ sincePush' = [s \in Sessions |-> Forgotten]
    /\ subs' = disk.subs /\ pushed' = disk.pushed /\ stale' = disk.stale
    /\ UNCHANGED <<sess, disk, accepted, sinceSent, gone>>

Next ==
    \/ Tick \/ Start \/ Stop
    \/ \E c \in Cycles : Step(c)
    \/ \E s \in Sessions : Work(s)
    \/ \E e \in Endpoints : Subscribe(e)
    \/ TimePasses \/ WeekPasses \/ Crash

Spec == Init /\ [][Next]_vars

(***************************************************************************)
(* The interval fires, cycles settle, the clock runs; the presence call    *)
(* may fail, but not for ever.                                             *)
(***************************************************************************)
Fairness ==
    /\ WF_vars(Tick) /\ WF_vars(TimePasses)
    /\ \A c \in Cycles : WF_vars(Step(c)) /\ SF_vars(Scan(c)) /\ SF_vars(TasksOk(c))

FairSpec == Spec /\ Fairness

-----------------------------------------------------------------------------
(* Every notification a phone gets twice is paid for by a fault: an        *)
(* abandoned cycle, a crash, a cycle cut short, a forgotten dedupe entry   *)
(* (controller.js 182, 231; the lock of 121-137).                          *)
DuplicateBound ==
    \A ke \in Keys \X Endpoints : accepted[ke] <= 1 + faults

(* What the dispatcher says of itself: one event, one notification.        *)
NoRepeat == \A ke \in Keys \X Endpoints : accepted[ke] <= 1

(* An event that stays current is marked, whatever the other sessions,     *)
(* the cooldown and the push service do (controller.js 171-234).           *)
EventIsHandled ==
    \A k \in Keys :
        LET Current == timer /\ KeyOf(sess, k.session) = k
        IN  Notify(k.state) => (Current ~> (k \in pushed \/ ~Current))

(* Without faults, a session is not notified by two cycles that began less *)
(* than the cooldown apart, whatever its states and turns (controller.js   *)
(* 21-22, 183-186, 232); the sends may lie closer, as `now` is the start.  *)
CooldownKept ==
    [][\A c \in Cycles, k \in Keys :
          Take(c, k) /\ faults = 0 => sinceSent[k.session] - cyc[c].age >= Cooldown]_vars

(* An endpoint answered 404/410 is out of the store until it is subscribed *)
(* again, also after one crash, failed save or overlap (controller.js      *)
(* 215-218); only a cycle that copied it before may still post to it.      *)
GoneIsDropped == faults <= 1 => gone \cap subs = {}

(* The dispatcher's lock is TickLock's.                                    *)
Lock == INSTANCE TickLock WITH
            live <- Live, hung <- {}, MaxHangs <- 0

LockImplemented == Lock!Spec
=============================================================================
