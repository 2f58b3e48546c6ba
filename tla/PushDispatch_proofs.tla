------------------------- MODULE PushDispatch_proofs ------------------------
(***************************************************************************)
(* What the push dispatcher keeps, for any cycles, sessions, endpoints,    *)
(* budgets, cooldowns and faults.                                          *)
(***************************************************************************)
EXTENDS PushDispatch, FiniteSetTheorems, TLAPS

(* A cycle that may be in place of cyc[c].                                 *)
WellFormed(o) ==
    /\ o \in Activations
    /\ o.left \subseteq o.subs
    /\ IF o.pc \in {"send", "answer"} THEN o.at \in Keys ELSE o.left = {}
    /\ o.pc = "answer" => o.answer \in Answers

LEMMA Bounds ==
    /\ 0 \in 0..AgeCap /\ 0 \in 0..Budget /\ 0 \in 0..Forgotten /\ Forgotten \in 0..Forgotten
    /\ 0 \in 0..MaxTurn /\ 0 \in 0..MaxFaults /\ 0 \in 0..MaxAbandoned
    /\ 0..AgeCap \subseteq 0..Forgotten
    /\ AgeCap \in Nat /\ Budget \in Nat /\ Forgotten \in Nat
  BY ConstantsAssumption DEF Forgotten

LEMMA PCNames == {"idle", "tasks", "load", "next", "send", "answer"} \subseteq PCs
  BY DEF PCs

LEMMA IdleFits == WellFormed(Idle)
  BY Bounds, PCNames DEF WellFormed, Idle, Activations

(* Other cycles stay as they are.                                          *)
LEMMA Replaced ==
    ASSUME CyclesOK, NEW c \in Cycles, NEW o, WellFormed(o), cyc' = [cyc EXCEPT ![c] = o]
    PROVE  CyclesOK' /\ cyc'[c] = o /\ \A d \in Cycles : d # c => cyc'[d] = cyc[d]
<1>1. cyc'[c] = o /\ \A d \in Cycles : d # c => cyc'[d] = cyc[d]
    BY DEF CyclesOK
<1>2. cyc' \in [Cycles -> Activations]
    BY DEF CyclesOK, WellFormed
<1> QED
    BY <1>1, <1>2 DEF CyclesOK, WellFormed

(* A step of a cycle ends it, or leaves it at work and the lock alone.     *)
MovesTo(c, o) ==
    /\ WellFormed(o) /\ cyc' = [cyc EXCEPT ![c] = o]
    /\ \/ Finish(c) /\ o = Idle
       \/ o.pc # "idle" /\ UNCHANGED lockVars

LEMMA CycleMoves ==
    ASSUME TypeOK, NEW c \in Cycles, Step(c)
    PROVE  cyc[c].pc # "idle" /\ \E o : MovesTo(c, o)
<1>1. cyc[c] \in Activations /\ WellFormed(cyc[c])
    BY DEF TypeOK, CyclesOK, WellFormed
<1>2. CASE Scan(c)
  <2> DEFINE o == [cyc[c] EXCEPT !.view = sess]
  <2>1. WellFormed(o) /\ o.pc # "idle"
      BY <1>1, <1>2, SMT DEF Scan, WellFormed, Activations, TypeOK, SessionsOK
  <2>2. MovesTo(c, o)
      BY <1>2, <2>1 DEF Scan, MovesTo
  <2> QED
      BY <1>2, <2>2 DEF Scan
<1>3. CASE TasksOk(c)
  <2> DEFINE todo == {KeyOf(cyc[c].view, s) : s \in {t \in Sessions : Notify(cyc[c].view[t].state)}}
             o == [cyc[c] EXCEPT !.pc = "load", !.view = NoView, !.todo = todo]
  <2>1. cyc[c].view \in Views
      BY <1>1, <1>3 DEF TasksOk, Activations
  <2>2. todo \subseteq Keys
      BY <2>1 DEF KeyOf, Keys, Views, Tasks
  <2>3. cyc' = [cyc EXCEPT ![c] = o]
      BY <1>3 DEF TasksOk
  <2> HIDE DEF todo
  <2>4. WellFormed(o) /\ o.pc # "idle"
      BY <1>1, <1>3, <2>2, PCNames DEF TasksOk, WellFormed, Activations
  <2>5. MovesTo(c, o)
      BY <1>3, <2>3, <2>4 DEF TasksOk, MovesTo
  <2> QED
      BY <1>3, <2>5 DEF TasksOk
<1>4. CASE LoadSubs(c)
  <2> DEFINE o == [cyc[c] EXCEPT !.pc = "next", !.subs = subs]
  <2>1. WellFormed(o) /\ o.pc # "idle"
    <3>1. cyc[c].left \subseteq subs
        BY <1>1, <1>4 DEF LoadSubs, WellFormed
    <3> QED
        BY <1>1, <1>4, <3>1, PCNames DEF LoadSubs, WellFormed, Activations, TypeOK, StoreOK
  <2>2. MovesTo(c, o)
      BY <1>4, <2>1 DEF LoadSubs, MovesTo
  <2> QED
      BY <1>4, <2>2 DEF LoadSubs
<1>5. CASE \E k \in Keys : Skip(c, k)
  <2>1. PICK k \in Keys : Skip(c, k)
      BY <1>5
  <2> DEFINE o == [cyc[c] EXCEPT !.todo = @ \ {k}]
  <2>2. WellFormed(o) /\ o.pc # "idle"
      BY <1>1, <2>1, PCNames DEF Skip, WellFormed, Activations
  <2>3. MovesTo(c, o)
      BY <2>1, <2>2 DEF Skip, MovesTo
  <2> QED
      BY <2>1, <2>3 DEF Skip
<1>6. CASE \E k \in Keys : Take(c, k)
  <2>1. PICK k \in Keys : Take(c, k)
      BY <1>6
  <2> DEFINE o == [cyc[c] EXCEPT !.todo = @ \ {k}, !.pc = "send", !.at = k, !.left = cyc[c].subs]
  <2>2. WellFormed(o) /\ o.pc # "idle"
      BY <1>1, <2>1, PCNames DEF Take, WellFormed, Activations
  <2>3. MovesTo(c, o)
      BY <2>1, <2>2 DEF Take, MovesTo
  <2> QED
      BY <2>1, <2>3 DEF Take
<1>7. CASE \E e \in Endpoints : \E a \in {"sent", "gone", "failed"} : Post(c, e, a)
  <2>1. PICK e \in Endpoints, a \in {"sent", "gone", "failed"} : Post(c, e, a)
      BY <1>7
  <2> DEFINE b == [from |-> e, status |-> a]
             o == [cyc[c] EXCEPT !.left = @ \ {e}, !.pc = "answer", !.answer = b]
  <2>2. b \in Answers
      BY DEF Answers
  <2>3. cyc' = [cyc EXCEPT ![c] = o]
      BY <2>1 DEF Post
  <2> HIDE DEF b
  <2>4. WellFormed(o) /\ o.pc # "idle"
      BY <1>1, <2>1, <2>2, PCNames DEF Post, WellFormed, Activations
  <2>5. MovesTo(c, o)
      BY <2>1, <2>3, <2>4 DEF Post, MovesTo
  <2> QED
      BY <2>1, <2>5 DEF Post
<1>8. CASE Answered(c)
  <2> DEFINE o == [cyc[c] EXCEPT !.pc = "send", !.answer = None]
  <2>1. WellFormed(o) /\ o.pc # "idle"
      BY <1>1, <1>8, PCNames DEF Answered, ApplyAnswer, WellFormed, Activations
  <2>2. MovesTo(c, o)
      BY <1>8, <2>1 DEF Answered, MovesTo
  <2> QED
      BY <1>8, <2>2 DEF Answered, ApplyAnswer
<1>9. CASE Mark(c)
  <2> DEFINE o == [cyc[c] EXCEPT !.pc = "next", !.at = None]
  <2>1. WellFormed(o) /\ o.pc # "idle"
      BY <1>1, <1>9, PCNames DEF Mark, MarkInMemory, WellFormed, Activations
  <2>2. MovesTo(c, o)
      BY <1>9, <2>1 DEF Mark, MovesTo
  <2> QED
      BY <1>9, <2>2 DEF Mark, MarkInMemory
<1>10. CASE Finish(c) /\ cyc[c].pc # "idle"
    BY <1>10, IdleFits DEF Finish, MovesTo
<1>11. CASE TasksError(c) \/ LoadFails(c) \/ PostThrows(c) \/ AnsweredUnsaved(c) \/ MarkUnsaved(c)
                \/ Complete(c)
    BY <1>10, <1>11 DEF TasksError, LoadFails, PostThrows, AnsweredUnsaved, ApplyAnswer, MarkUnsaved,
       MarkInMemory, Complete
<1> QED
    BY <1>2, <1>3, <1>4, <1>5, <1>6, <1>7, <1>8, <1>9, <1>11 DEF Step

(* What a step of a cycle does besides: it may cost a fault, it counts a   *)
(* notification, it works on the store and the cooldown.                   *)
LEMMA CycleTypes ==
    ASSUME TypeOK, NEW c \in Cycles, Step(c)
    PROVE  CyclesOK' /\ CountersOK' /\ SessionsOK' /\ StoreOK'
<1>1. CyclesOK'
    BY CycleMoves, Replaced DEF MovesTo, TypeOK
<1>2. faults' \in 0..MaxFaults /\ UNCHANGED abandoned /\ held' \in {held, 0}
  <2>1. UNCHANGED faults \/ \E kind : Fault(kind)
      BY Zenon DEF Step, Scan, TasksOk, TasksError, LoadSubs, LoadFails, Skip, Take, PostThrows, Post,
         Answered, AnsweredUnsaved, Mark, MarkUnsaved, Complete, histVars
  <2>2. faults' \in 0..MaxFaults
      BY <2>1, ConstantsAssumption DEF Fault, TypeOK, CountersOK
  <2> QED
      BY <2>2, CycleMoves DEF MovesTo, Finish, lockVars
<1>3. CountersOK'
    BY <1>2, Bounds DEF TypeOK, CountersOK
<1>4. cyc[c] \in Activations /\ (cyc[c].pc \in {"send", "answer"} => cyc[c].at \in Keys)
    BY DEF TypeOK, CyclesOK
<1>5. /\ cyc[c].age \in 0..Forgotten /\ cyc[c].subs \subseteq Endpoints
      /\ cyc[c].pc \in {"send", "answer"} => cyc[c].at.session \in Sessions
    BY <1>4, Bounds DEF Activations, Keys
<1>6. SessionsOK'
  <2>1. UNCHANGED sess
      BY DEF Step, Scan, TasksOk, TasksError, LoadSubs, LoadFails,
         Skip, Take, PostThrows, Post, Answered, AnsweredUnsaved, ApplyAnswer, Mark, MarkUnsaved,
         MarkInMemory, Complete
  <2>2. snapshot' \in [Sessions -> 0..MaxTurn] \cup {NoView}
    <3>1. CASE TasksOk(c)
      <4>1. cyc[c].view \in Views
          BY <1>4, <3>1 DEF TasksOk, Activations
      <4> QED
          BY <3>1, <4>1 DEF TasksOk, Views, Tasks
    <3>2. CASE UNCHANGED snapshot
        BY <3>2 DEF TypeOK, SessionsOK
    <3> QED
        BY <3>1, <3>2 DEF Step, Scan, TasksError, LoadSubs, LoadFails,
           Skip, Take, PostThrows, Post, Answered, AnsweredUnsaved, ApplyAnswer, Mark, MarkUnsaved,
           MarkInMemory, Complete
  <2>3. sincePush' \in [Sessions -> 0..Forgotten]
    <3>1. CASE Mark(c)
        BY <1>5, <3>1 DEF Mark, MarkInMemory, TypeOK, SessionsOK
    <3>2. CASE UNCHANGED sincePush
        BY <3>2 DEF TypeOK, SessionsOK
    <3> QED
        BY <3>1, <3>2 DEF Step, Scan, TasksOk, TasksError, LoadSubs, LoadFails,
           Skip, Take, PostThrows, Post, Answered, AnsweredUnsaved, ApplyAnswer, MarkUnsaved, Complete
  <2>4. sinceSent' \in [Sessions -> 0..Forgotten]
    <3>1. CASE \E e \in Endpoints : \E a \in {"sent", "gone", "failed"} : Post(c, e, a)
        BY <1>5, <3>1 DEF Post, TypeOK, SessionsOK
    <3>2. CASE UNCHANGED sinceSent
        BY <3>2 DEF TypeOK, SessionsOK
    <3> QED
        BY <3>1, <3>2 DEF Step, Scan, TasksOk, TasksError, LoadSubs, LoadFails, histVars,
           Skip, Take, PostThrows, Answered, AnsweredUnsaved, ApplyAnswer, Mark, MarkUnsaved,
           MarkInMemory, Complete
  <2> QED
      BY <2>1, <2>2, <2>3, <2>4 DEF TypeOK, SessionsOK
<1>7. StoreOK'
  <2>1. CASE UNCHANGED <<storeVars, accepted, gone>>
      BY <2>1 DEF TypeOK, StoreOK, storeVars
  <2>2. CASE \E e \in Endpoints : \E a \in {"sent", "gone", "failed"} : Post(c, e, a)
    <3>1. PICK e \in Endpoints, a \in {"sent", "gone", "failed"} : Post(c, e, a)
        BY <2>2
    <3>2. accepted' \in [Keys \X Endpoints -> Nat]
        BY <1>4, <3>1 DEF Post, TypeOK, StoreOK
    <3> QED
        BY <3>1, <3>2 DEF Post, TypeOK, StoreOK, storeVars
  <2>3. CASE Answered(c) \/ AnsweredUnsaved(c)
    <3>1. cyc[c].answer.from \in Endpoints
        BY <2>3 DEF Answered, AnsweredUnsaved, ApplyAnswer, TypeOK, CyclesOK, Answers
    <3> QED
        BY <2>3, <3>1 DEF Answered, AnsweredUnsaved, ApplyAnswer, Save, TypeOK, StoreOK
  <2>4. CASE Mark(c) \/ MarkUnsaved(c)
      BY <1>4, <2>4 DEF Mark, MarkUnsaved, MarkInMemory, Save, TypeOK, StoreOK
  <2>5. CASE Complete(c)
      BY <2>5 DEF Complete, Save, histVars, TypeOK, StoreOK
  <2> QED
      BY <2>1, <2>2, <2>3, <2>4, <2>5 DEF Step, Scan, TasksOk, TasksError, LoadSubs, LoadFails, histVars,
           Skip, Take, PostThrows
<1> QED
    BY <1>1, <1>3, <1>6, <1>7

(* The steps of the lock, the surroundings and the process.                *)
LEMMA WorldTypes ==
    ASSUME TypeOK,
           \/ Tick \/ Start \/ Stop
           \/ \E s \in Sessions : Work(s)
           \/ \E e \in Endpoints : Subscribe(e)
           \/ TimePasses \/ WeekPasses \/ Crash
    PROVE  CyclesOK' /\ CountersOK' /\ SessionsOK' /\ StoreOK'
<1>1. CASE Tick \/ Start
  <2>1. Call
      BY <1>1 DEF Tick, Start
  <2>2. CyclesOK'
    <3>1. CASE \E c \in Cycles : TakeLock(c)
      <4>1. PICK c \in Cycles : TakeLock(c)
          BY <3>1
      <4> DEFINE o == [Idle EXCEPT !.pc = "tasks"]
      <4>2. WellFormed(o)
          BY IdleFits, PCNames DEF WellFormed, Activations, Idle
      <4> QED
          BY <4>1, <4>2, Replaced DEF TakeLock, TypeOK
    <3>2. CASE UNCHANGED cyc
        BY <3>2 DEF TypeOK, CyclesOK
    <3> QED
        BY <2>1, <3>1, <3>2 DEF Call, Begin, TakeOver, Skipped
  <2>3. CountersOK'
      BY <2>1, ConstantsAssumption DEF Call, Begin, TakeOver, Skipped, TakeLock, Fault, TypeOK, CountersOK
  <2> QED
      BY <2>1, <2>2, <2>3 DEF Call, storeVars, TypeOK, SessionsOK, StoreOK
<1>2. CASE Stop
    BY <1>2 DEF Stop, storeVars, histVars, TypeOK, CyclesOK, CountersOK, SessionsOK, StoreOK
<1>3. CASE \E s \in Sessions : Work(s)
  <2>1. sess' \in Views
    <3>1. PICK s \in Sessions : Work(s)
        BY <1>3
    <3>2. sess[s] \in Tasks /\ sess[s].turn \in 0..MaxTurn
        BY DEF TypeOK, SessionsOK, Views, Tasks
    <3>3. CASE \E st \in States : sess' = [sess EXCEPT ![s].state = st]
        BY <3>2, <3>3 DEF TypeOK, SessionsOK, Views, Tasks
    <3>4. CASE /\ sess[s].turn < MaxTurn
               /\ sess' = [sess EXCEPT ![s] = [state |-> "RUNNING", turn |-> @.turn + 1]]
      <4>1. [state |-> "RUNNING", turn |-> sess[s].turn + 1] \in Tasks
          BY <3>2, <3>4, ConstantsAssumption DEF Tasks, States
      <4> QED
          BY <3>4, <4>1 DEF TypeOK, SessionsOK, Views
    <3> QED
        BY <3>1, <3>3, <3>4 DEF Work
  <2> QED
      BY <1>3, <2>1 DEF Work, lockVars, storeVars, histVars, TypeOK, CyclesOK, CountersOK, SessionsOK,
         StoreOK
<1>4. CASE \E e \in Endpoints : Subscribe(e)
  <2>1. StoreOK'
      BY <1>4 DEF Subscribe, Save, TypeOK, StoreOK
  <2> QED
      BY <1>4, <2>1 DEF Subscribe, lockVars, TypeOK, CyclesOK, CountersOK, SessionsOK
<1>5. CASE TimePasses
  <2>1. ASSUME NEW x \in 0..Forgotten PROVE AgeBy1(x, Forgotten) \in 0..Forgotten
      BY Bounds DEF AgeBy1
  <2>2. held' \in 0..Budget
      BY <1>5, Bounds DEF TimePasses, AgeBy1, TypeOK, CountersOK
  <2>3. ASSUME NEW c \in Live PROVE WellFormed([cyc[c] EXCEPT !.age = @ + 1])
    <3>1. c \in Cycles /\ cyc[c] \in Activations /\ WellFormed(cyc[c])
        BY DEF Live, TypeOK, CyclesOK, WellFormed
    <3>2. cyc[c].age + 1 \in 0..AgeCap
        BY <1>5, <3>1, ConstantsAssumption DEF TimePasses, Activations
    <3> QED
        BY <3>1, <3>2 DEF WellFormed, Activations
  <2>4. CyclesOK'
      BY <1>5, <2>3 DEF TimePasses, TypeOK, CyclesOK, WellFormed
  <2> QED
      BY <1>5, <2>1, <2>2, <2>4 DEF TimePasses, storeVars, TypeOK, CountersOK, SessionsOK, StoreOK
<1>6. CASE WeekPasses
  <2>1. StoreOK'
      BY <1>6 DEF WeekPasses, TypeOK, StoreOK
  <2> QED
      BY <1>6, <2>1, Bounds, ConstantsAssumption DEF WeekPasses, Fault, lockVars, TypeOK, CyclesOK, CountersOK, SessionsOK
<1>7. CASE Crash
  <2>1. CyclesOK'
      BY <1>7, IdleFits DEF Crash, CyclesOK, WellFormed
  <2>2. StoreOK'
      BY <1>7 DEF Crash, TypeOK, StoreOK
  <2> QED
      BY <1>7, <2>1, <2>2, Bounds, ConstantsAssumption DEF Crash, Fault, TypeOK, CountersOK, SessionsOK
<1> QED
    BY <1>1, <1>2, <1>3, <1>4, <1>5, <1>6, <1>7

(* Every reachable state is well typed.                                    *)
THEOREM TypeCorrect == Spec => []TypeOK
<1>1. Init => FlagsOK
    BY Zenon DEF Init, FlagsOK
<1>2. Init => CyclesOK /\ CountersOK /\ SessionsOK /\ StoreOK
  <2> SUFFICES ASSUME Init PROVE CyclesOK /\ CountersOK /\ SessionsOK /\ StoreOK
      OBVIOUS
  <2>1. CyclesOK
      BY IdleFits DEF Init, CyclesOK, WellFormed
  <2>2. CountersOK
      BY Bounds DEF Init, CountersOK
  <2>3. SessionsOK
      BY Bounds DEF Init, SessionsOK, Views, Tasks, States
  <2>4. StoreOK
      BY DEF Init, StoreOK
  <2> QED
      BY <2>1, <2>2, <2>3, <2>4
<1>3. TypeOK /\ [Next]_vars => FlagsOK'
  <2> SUFFICES ASSUME TypeOK, FlagsOK, [Next]_vars PROVE FlagsOK'
      BY DEF TypeOK
  <2>1. CASE \E c \in Cycles : Step(c)
    <3>1. PICK c \in Cycles : \E o : MovesTo(c, o)
        BY <2>1, CycleMoves
    <3>2. PICK o : MovesTo(c, o)
        BY <3>1
    <3> QED
        BY <3>2, Zenon DEF MovesTo, Finish, lockVars, FlagsOK
  <2>2. CASE Tick \/ Start \/ Stop
      BY <2>2, Zenon DEF Tick, Start, Stop, Call, Begin, TakeOver, TakeLock, Skipped, FlagsOK
  <2>3. CASE UNCHANGED vars \/ (\E s \in Sessions : Work(s)) \/ (\E e \in Endpoints : Subscribe(e))
             \/ TimePasses \/ WeekPasses \/ Crash
      BY <2>3, Zenon DEF vars, Work, Subscribe, TimePasses, WeekPasses, Crash, lockVars, FlagsOK
  <2> QED
      BY <2>1, <2>2, <2>3 DEF Next
<1>4. TypeOK /\ [Next]_vars => CyclesOK' /\ CountersOK' /\ SessionsOK' /\ StoreOK'
  <2>1. CASE UNCHANGED vars
      BY <2>1 DEF vars, lockVars, storeVars, histVars, TypeOK, CyclesOK, CountersOK, SessionsOK, StoreOK
  <2> QED
      BY <2>1, CycleTypes, WorldTypes DEF Next
<1> QED
    BY <1>1, <1>2, <1>3, <1>4, PTL DEF Spec, TypeOK

-----------------------------------------------------------------------------
(* What a step does to the lock, in the words of TickLock.                 *)
LEMMA LockStep == TypeOK /\ [Next]_vars => [Lock!Next]_(Lock!vars)
<1> SUFFICES ASSUME TypeOK, [Next]_vars PROVE [Lock!Next]_(Lock!vars)
    OBVIOUS
<1>1. CASE UNCHANGED <<lockVars, cyc>>
    BY <1>1 DEF lockVars, Live, Lock!vars
<1>2. CASE Tick \/ Start
  <2>1. Lock!Fresh \/ Lock!Skipped
    <3>1. ASSUME NEW c \in Cycles, TakeLock(c) PROVE Lock!TakeLock(c)
      <4>1. c \notin Live
          BY <3>1 DEF TakeLock, Live
      <4>2. Live' = Live \cup {c}
          BY <3>1, SMT DEF TakeLock, Live, Idle, TypeOK, CyclesOK
      <4> QED
          BY <3>1, <4>1, <4>2 DEF TakeLock, Lock!TakeLock
    <3>2. CASE \E c \in Cycles : Begin(c) \/ TakeOver(c)
        BY <3>1, <3>2 DEF Begin, TakeOver, Lock!Fresh, Lock!Begin, Lock!TakeOver, Lock!PastBudget
    <3>3. CASE Skipped
      <4>1. held # Budget
          BY <3>3, ConstantsAssumption DEF Skipped
      <4> QED
          BY <3>3, <4>1, Zenon DEF Skipped, Live, Lock!Skipped, Lock!PastBudget
    <3> QED
        BY <1>2, <3>2, <3>3 DEF Tick, Start, Call
  <2> QED
      BY <1>2, <2>1, Zenon DEF Tick, Start, Lock!Tick, Lock!Start, Lock!Next
<1>3. CASE Stop
    BY <1>3 DEF Stop, Live, Lock!Stop, Lock!Next
<1>4. ASSUME NEW c \in Cycles, Step(c) PROVE [Lock!Next]_(Lock!vars)
  <2>1. cyc[c].pc # "idle"
      BY <1>4, CycleMoves
  <2>2. PICK o : MovesTo(c, o)
      BY <1>4, CycleMoves
  <2>3. cyc'[c] = o /\ \A d \in Cycles : d # c => cyc'[d] = cyc[d]
      BY <2>2, Replaced DEF MovesTo, TypeOK
  <2>4. CASE Finish(c) /\ o = Idle
    <3>1. Live' = Live \ {c} /\ c \in Live
        BY <2>1, <2>3, <2>4 DEF Live, Idle
    <3> QED
        BY <2>4, <3>1 DEF Finish, Lock!End, Lock!Next
  <2>5. CASE o.pc # "idle" /\ UNCHANGED lockVars
    <3>1. Live' = Live
        BY <2>1, <2>3, <2>5 DEF Live
    <3> QED
        BY <2>5, <3>1 DEF lockVars, Lock!vars
  <2> QED
      BY <2>2, <2>4, <2>5 DEF MovesTo
<1>5. CASE TimePasses
  <2>1. Live' = Live
      BY <1>5, SMT DEF TimePasses, Live, TypeOK, CyclesOK, Activations
  <2> QED
      BY <1>5, <2>1 DEF TimePasses, AgeBy1, Lock!TimePasses, Lock!PastBudget, Lock!Next, Lock!vars, TypeOK, CountersOK
<1>6. CASE Crash
    BY <1>6 DEF Crash, Live, Idle, Lock!Crash, Lock!Next
<1> QED
    BY <1>1, <1>2, <1>3, <1>4, <1>5, <1>6 DEF Next, vars, Work, Subscribe, WeekPasses, lockVars

(* The dispatcher's cycles take and release their lock as TickLock says,   *)
(* whatever a cycle does and wherever it ends (controller.js 121-137,      *)
(* 242-248).                                                               *)
THEOREM LockIsTickLock == Spec => LockImplemented
<1>1. Init => Lock!Init
    BY DEF Init, Lock!Init, Live, Idle
<1> QED
    BY <1>1, LockStep, TypeCorrect, PTL DEF Spec, LockImplemented, Lock!Spec

-----------------------------------------------------------------------------
(***************************************************************************)
(* Who may still post event k to endpoint e.  A cycle owes the endpoint    *)
(* until its copy of the subscriptions is past it, and holds it while it   *)
(* is next to post.                                                        *)
(***************************************************************************)
Sends(o)        == o.pc \in {"send", "answer"}
Holds(o, k, e)  == Sends(o) /\ o.at = k /\ e \in o.left
Owes(o, k, e)   == o.pc # "idle" /\ ~(Sends(o) /\ o.at = k /\ e \notin o.left)

Owing(k, e)   == {c \in Cycles : Owes(cyc[c], k, e)}
Holding(k, e) == {c \in Cycles : Holds(cyc[c], k, e)}

(* The event may be taken by a cycle, now or after its week.               *)
Open(k) == k \notin pushed \/ k \in stale

One(b) == IF b THEN 1 ELSE 0

(* Every notification of an open event, and every cycle that may send one  *)
(* more, is paid for by a fault or by the lock; once the event is closed   *)
(* only cycles amid its endpoints count.                                   *)
PaidFor(k, e) ==
    /\ Open(k) => accepted[<<k, e>>] + Cardinality(Owing(k, e)) <= faults + One(running)
    /\ accepted[<<k, e>>] + Cardinality(Holding(k, e)) <= 1 + faults

Paid == \A k \in Keys, e \in Endpoints : PaidFor(k, e)

LEMMA Counting ==
    ASSUME NEW S \in SUBSET Cycles, NEW T \in SUBSET Cycles
    PROVE  /\ Cardinality(S) \in Nat
           /\ S \subseteq T => Cardinality(S) <= Cardinality(T)
           /\ \A c \in T : S = T \ {c} => Cardinality(S) = Cardinality(T) - 1
<1>1. IsFiniteSet(S) /\ IsFiniteSet(T)
    BY ConstantsAssumption, FS_Subset
<1>2. Cardinality(S) \in Nat /\ Cardinality(T) \in Nat
    BY <1>1, FS_CardinalityType
<1> QED
    BY <1>1, <1>2, FS_Subset, FS_RemoveElement

(* One cycle changes, and the counts with it.                              *)
LEMMA OneMoves ==
    ASSUME NEW c \in Cycles, \A d \in Cycles : d # c => cyc'[d] = cyc[d], NEW k, NEW e
    PROVE  /\ Cardinality(Owing(k, e))' = Cardinality(Owing(k, e))
                - One(Owes(cyc[c], k, e)) + One(Owes(cyc'[c], k, e))
           /\ Cardinality(Holding(k, e))' = Cardinality(Holding(k, e))
                - One(Holds(cyc[c], k, e)) + One(Holds(cyc'[c], k, e))
<1> DEFINE D == Owing(k, e)
           H == Holding(k, e)
<1>1. D \subseteq Cycles /\ D' \subseteq Cycles /\ H \subseteq Cycles /\ H' \subseteq Cycles
    BY DEF Owing, Holding
<1>2. /\ c \in D <=> Owes(cyc[c], k, e)
      /\ c \in D' <=> Owes(cyc'[c], k, e)
      /\ c \in H <=> Holds(cyc[c], k, e)
      /\ c \in H' <=> Holds(cyc'[c], k, e)
    BY DEF Owing, Holding
<1>3. D' \ {c} = D \ {c} /\ H' \ {c} = H \ {c}
    BY DEF Owing, Holding
<1> HIDE DEF D, H
<1>4. ASSUME NEW S \in SUBSET Cycles, NEW T \in SUBSET Cycles, T \ {c} = S \ {c}
      PROVE  Cardinality(T) = Cardinality(S) - One(c \in S) + One(c \in T)
  <2>1. CASE (c \in S) <=> (c \in T)
    <3>1. S = T
        BY <1>4, <2>1
    <3> QED
        BY <3>1, Counting DEF One
  <2>2. CASE c \in S /\ c \notin T
    <3>1. T = S \ {c}
        BY <1>4, <2>2
    <3>2. Cardinality(T) = Cardinality(S) - 1
        BY <2>2, <3>1, Counting
    <3> QED
        BY <2>2, <3>2, Counting DEF One
  <2>3. CASE c \notin S /\ c \in T
    <3>1. S = T \ {c}
        BY <1>4, <2>3
    <3>2. Cardinality(S) = Cardinality(T) - 1
        BY <2>3, <3>1, Counting
    <3> QED
        BY <2>3, <3>2, Counting DEF One
  <2> QED
      BY <2>1, <2>2, <2>3
<1>5. Cardinality(D') = Cardinality(D) - One(c \in D) + One(c \in D')
    BY <1>1, <1>3, <1>4
<1>6. Cardinality(H') = Cardinality(H) - One(c \in H) + One(c \in H')
    BY <1>1, <1>3, <1>4
<1> QED
    BY <1>2, <1>5, <1>6 DEF D, H, One

(* What is counted is a number, and who holds an endpoint owes it.         *)
CountsOK(k, e) ==
    /\ accepted[<<k, e>>] \in Nat /\ faults \in Nat
    /\ Cardinality(Owing(k, e)) \in Nat /\ Cardinality(Holding(k, e)) \in Nat
    /\ Cardinality(Holding(k, e)) <= Cardinality(Owing(k, e))
    /\ One(running) \in {0, 1}

LEMMA Counts ==
    ASSUME NEW k \in Keys, NEW e \in Endpoints
    PROVE  (TypeOK => CountsOK(k, e)) /\ (TypeOK' => CountsOK(k, e)')
<1>1. /\ TypeOK => accepted[<<k, e>>] \in Nat /\ faults \in Nat
      /\ TypeOK' => accepted'[<<k, e>>] \in Nat /\ faults' \in Nat
    BY DEF TypeOK, StoreOK, CountersOK
<1>2. /\ Holding(k, e) \subseteq Owing(k, e) /\ Owing(k, e) \subseteq Cycles
      /\ Holding(k, e)' \subseteq Owing(k, e)' /\ Owing(k, e)' \subseteq Cycles
    BY DEF Owing, Holding, Owes, Holds, Sends
<1>3. /\ Cardinality(Owing(k, e)) \in Nat /\ Cardinality(Holding(k, e)) \in Nat
      /\ Cardinality(Holding(k, e)) <= Cardinality(Owing(k, e))
      /\ Cardinality(Owing(k, e)') \in Nat /\ Cardinality(Holding(k, e)') \in Nat
      /\ Cardinality(Holding(k, e)') <= Cardinality(Owing(k, e)')
    BY <1>2, Counting
<1>4. One(running) \in {0, 1} /\ One(running') \in {0, 1}
    BY DEF One
<1> QED
    BY <1>1, <1>3, <1>4 DEF CountsOK

(* A step of a cycle is paid for.                                          *)
LEMMA CyclePays ==
    ASSUME TypeOK, TypeOK', Paid, NEW c \in Cycles, Step(c)
    PROVE  Paid'
<1> SUFFICES ASSUME NEW k \in Keys, NEW e \in Endpoints PROVE PaidFor(k, e)'
    BY DEF Paid
<1>1. PaidFor(k, e)
    BY DEF Paid
<1>2. cyc[c].pc # "idle" /\ cyc \in [Cycles -> Activations]
    BY CycleMoves DEF TypeOK, CyclesOK
<1>3. \A d \in Cycles : d # c => cyc'[d] = cyc[d]
    BY CycleMoves, Replaced DEF MovesTo, TypeOK
<1> DEFINE n  == Cardinality(Owing(k, e))
           m  == Cardinality(Holding(k, e))
           owed == Owes(cyc[c], k, e)
           held0 == Holds(cyc[c], k, e)
           owes == Owes(cyc'[c], k, e)
           holds == Holds(cyc'[c], k, e)
<1>4. n' = n - One(owed) + One(owes) /\ m' = m - One(held0) + One(holds)
    BY <1>3, OneMoves
<1>5. /\ accepted[<<k, e>>] \in Nat /\ faults \in Nat /\ n \in Nat /\ m \in Nat /\ m <= n
      /\ One(running) \in {0, 1}
    BY Counts DEF CountsOK
<1>6. /\ accepted'[<<k, e>>] \in Nat /\ faults' \in Nat /\ n' \in Nat /\ m' \in Nat /\ m' <= n'
      /\ One(running') \in {0, 1}
    BY Counts DEF CountsOK
<1> HIDE DEF n, m
(* Work that leaves what is owed, and to whom, as it is.                   *)
<1>7. CASE /\ owes <=> owed
           /\ holds <=> held0
           /\ UNCHANGED <<running, pushed, stale, accepted, faults>>
    BY <1>1, <1>4, <1>5, <1>6, <1>7 DEF PaidFor, Open, One, n, m
<1>8. CASE Scan(c) \/ TasksOk(c) \/ LoadSubs(c) \/ (\E j \in Keys : Skip(c, j)) \/ Answered(c)
  <2>1. UNCHANGED <<running, pushed, stale, accepted, faults>>
      BY <1>8 DEF Scan, TasksOk, LoadSubs, Skip, Answered, ApplyAnswer, storeVars, histVars, lockVars
  <2>2. cyc'[c].pc # "idle" /\ cyc'[c].at = cyc[c].at /\ cyc'[c].left = cyc[c].left
        /\ (Sends(cyc'[c]) <=> Sends(cyc[c]))
    <3>1. CASE Scan(c)
        BY <1>2, <3>1 DEF Scan, Sends, Activations
    <3>2. CASE TasksOk(c)
        BY <1>2, <3>2 DEF TasksOk, Sends, Activations
    <3>3. CASE LoadSubs(c)
        BY <1>2, <3>3 DEF LoadSubs, Sends, Activations
    <3>4. CASE \E j \in Keys : Skip(c, j)
        BY <1>2, <3>4 DEF Skip, Sends, Activations
    <3>5. CASE Answered(c)
        BY <1>2, <3>5 DEF Answered, ApplyAnswer, Sends, Activations
    <3> QED
        BY <1>8, <3>1, <3>2, <3>3, <3>4, <3>5
  <2> QED
      BY <1>2, <1>7, <2>1, <2>2 DEF Owes, Holds
(* A cycle that ends for a fault.                                          *)
<1>9. CASE LoadFails(c) \/ PostThrows(c) \/ AnsweredUnsaved(c) \/ MarkUnsaved(c)
  <2>1. ~owes /\ ~holds
      BY <1>2, <1>9 DEF LoadFails, PostThrows, AnsweredUnsaved, MarkUnsaved, Finish, Idle, Owes, Holds, Sends
  <2>2. faults' = faults + 1 /\ accepted' = accepted
      BY <1>9 DEF LoadFails, PostThrows, AnsweredUnsaved, MarkUnsaved, ApplyAnswer, MarkInMemory, Fault
  <2>3. Open(k)' => Open(k)
      BY <1>9 DEF LoadFails, PostThrows, AnsweredUnsaved, MarkUnsaved, ApplyAnswer, MarkInMemory, storeVars, Open
  <2>4. n' <= n /\ m' <= m
      BY <1>4, <1>5, <2>1 DEF One
  <2> QED
      BY <1>1, <1>5, <1>6, <2>2, <2>3, <2>4 DEF PaidFor, n, m
(* A cycle that ends with nothing in hand gives the lock back.             *)
<1>10. CASE TasksError(c) \/ Complete(c)
  <2>1. owed /\ ~held0 /\ ~owes /\ ~holds
      BY <1>2, <1>10 DEF TasksError, Complete, Finish, Idle, Owes, Holds, Sends
  <2>2. UNCHANGED <<pushed, stale, accepted, faults>>
      BY <1>10 DEF TasksError, Complete, storeVars, histVars
  <2>3. n' = n - 1 /\ m' = m
      BY <1>4, <1>5, <2>1 DEF One
  <2> QED
      BY <1>1, <1>5, <1>6, <2>2, <2>3 DEF PaidFor, Open, n, m
(* Taking an open event turns what is owed into what is held.              *)
<1>11. CASE \E j \in Keys : Take(c, j)
  <2>1. PICK j \in Keys : Take(c, j)
      BY <1>11
  <2>2. owed /\ ~held0 /\ UNCHANGED <<running, pushed, stale, accepted, faults>>
      BY <2>1 DEF Take, Owes, Holds, Sends, lockVars, storeVars, histVars
  <2>3. One(running') = One(running)
      BY <2>2
  <2>4. CASE j # k
      BY <1>2, <1>7, <2>1, <2>2, <2>4 DEF Take, Owes, Holds, Sends
  <2>5. CASE j = k
    <3>1. Open(k)
        BY <2>1, <2>5 DEF Take, Suppressed, Open
    <3>2. n' <= n
        BY <1>4, <1>5, <2>2 DEF One
    <3> QED
        BY <1>1, <1>5, <1>6, <2>2, <2>3, <3>1, <3>2 DEF PaidFor, Open, n, m
  <2> QED
      BY <2>4, <2>5
(* A post moves an endpoint from those held to those notified.             *)
<1>12. CASE \E f \in Endpoints : \E a \in {"sent", "gone", "failed"} : Post(c, f, a)
  <2>1. PICK f \in Endpoints, a \in {"sent", "gone", "failed"} : Post(c, f, a)
      BY <1>12
  <2>2. UNCHANGED <<running, pushed, stale, faults>> /\ accepted \in [Keys \X Endpoints -> Nat]
      BY <2>1 DEF Post, lockVars, storeVars, TypeOK, StoreOK
  <2>3. One(running') = One(running)
      BY <2>2
  <2>4. /\ cyc'[c].pc = "answer" /\ cyc'[c].at = cyc[c].at /\ cyc'[c].left = cyc[c].left \ {f}
        /\ cyc[c].pc = "send" /\ f \in cyc[c].left
      BY <1>2, <2>1 DEF Post
  <2>5. CASE cyc[c].at = k /\ f = e
    <3>1. owed /\ held0 /\ ~owes /\ ~holds
        BY <2>4, <2>5 DEF Owes, Holds, Sends
    <3>2. n' = n - 1 /\ m' = m - 1
        BY <1>4, <1>5, <3>1 DEF One
    <3>3. accepted'[<<k, e>>] <= accepted[<<k, e>>] + 1
        BY <1>5, <2>1, <2>2, <2>5 DEF Post
    <3> QED
        BY <1>1, <1>5, <1>6, <2>2, <2>3, <3>2, <3>3 DEF PaidFor, Open, n, m
  <2>6. CASE cyc[c].at # k \/ f # e
    <3>1. accepted'[<<k, e>>] = accepted[<<k, e>>]
        BY <2>1, <2>2, <2>6 DEF Post
    <3>2. (owes <=> owed) /\ (holds <=> held0)
        BY <2>4, <2>6 DEF Owes, Holds, Sends
    <3> QED
        BY <1>1, <1>4, <1>5, <1>6, <2>2, <2>3, <3>1, <3>2 DEF PaidFor, Open, One, n, m
  <2> QED
      BY <2>5, <2>6
(* Marking closes the event: nothing more is owed to anyone.               *)
<1>13. CASE Mark(c)
  <2>1. /\ cyc[c].pc = "send" /\ cyc[c].left = {} /\ cyc'[c].pc = "next"
        /\ UNCHANGED <<running, accepted, faults>>
      BY <1>2, <1>13 DEF Mark, MarkInMemory, lockVars
  <2>2. One(running') = One(running)
      BY <2>1
  <2>3. ~held0 /\ ~holds /\ owes
      BY <2>1 DEF Holds, Owes, Sends
  <2>4. m' = m
      BY <1>4, <1>5, <2>3 DEF One
  <2>5. CASE cyc[c].at = k
    <3>1. ~Open(k)'
        BY <1>13, <2>5 DEF Mark, MarkInMemory, Open
    <3> QED
        BY <1>1, <2>1, <2>4, <3>1 DEF PaidFor, m
  <2>6. CASE cyc[c].at # k
    <3>1. Open(k)' => Open(k)
        BY <1>13 DEF Mark, MarkInMemory, Open
    <3>2. owed
        BY <2>1, <2>6 DEF Owes, Sends
    <3>3. n' = n
        BY <1>4, <1>5, <2>3, <3>2 DEF One
    <3> QED
        BY <1>1, <2>1, <2>2, <2>4, <3>1, <3>3 DEF PaidFor, n, m
  <2> QED
      BY <2>5, <2>6
<1> QED
    BY <1>8, <1>9, <1>10, <1>11, <1>12, <1>13 DEF Step

(* So is every other step.                                                 *)
LEMMA WorldPays ==
    ASSUME TypeOK, TypeOK', Paid,
           \/ Tick \/ Start \/ Stop
           \/ \E s \in Sessions : Work(s)
           \/ \E e \in Endpoints : Subscribe(e)
           \/ TimePasses \/ WeekPasses \/ Crash \/ UNCHANGED vars
    PROVE  Paid'
<1> SUFFICES ASSUME NEW k \in Keys, NEW e \in Endpoints PROVE PaidFor(k, e)'
    BY DEF Paid
<1>1. PaidFor(k, e) /\ CountsOK(k, e) /\ CountsOK(k, e)'
    BY Counts DEF Paid
<1>2. CASE UNCHANGED <<cyc, running, pushed, stale, accepted, faults>>
    BY <1>1, <1>2 DEF PaidFor, Open, Owing, Holding
<1>3. CASE Tick \/ Start
  <2>1. Call /\ UNCHANGED <<pushed, stale, accepted>>
      BY <1>3 DEF Tick, Start, Call, storeVars
  <2>2. CASE \E c \in Cycles : Begin(c) \/ TakeOver(c)
    <3>1. PICK c \in Cycles : Begin(c) \/ TakeOver(c)
        BY <2>2
    <3>2. TakeLock(c)
        BY <3>1 DEF Begin, TakeOver
    <3>3. cyc'[c].pc = "tasks" /\ cyc[c].pc = "idle" /\ \A d \in Cycles : d # c => cyc'[d] = cyc[d]
        BY <3>2 DEF TakeLock, Idle, TypeOK, CyclesOK
    <3>4. /\ ~Owes(cyc[c], k, e) /\ Owes(cyc'[c], k, e)
          /\ ~Holds(cyc[c], k, e) /\ ~Holds(cyc'[c], k, e)
        BY <3>3 DEF Owes, Holds, Sends
    <3>5. /\ Cardinality(Owing(k, e))' = Cardinality(Owing(k, e)) + 1
          /\ Cardinality(Holding(k, e))' = Cardinality(Holding(k, e))
        BY <1>1, <3>3, <3>4, OneMoves DEF One, CountsOK
    <3>6. faults' + One(running') = faults + One(running) + 1 /\ faults' >= faults
      <4>1. CASE Begin(c)
          BY <1>1, <4>1 DEF Begin, TakeLock, One, CountsOK
      <4>2. CASE TakeOver(c)
          BY <1>1, <4>2 DEF TakeOver, TakeLock, Fault, One, CountsOK
      <4> QED
          BY <3>1, <4>1, <4>2
    <3> QED
        BY <1>1, <2>1, <3>5, <3>6 DEF PaidFor, Open, CountsOK
  <2>3. CASE Skipped
      BY <1>2, <2>1, <2>3 DEF Skipped
  <2> QED
      BY <2>1, <2>2, <2>3 DEF Call
<1>4. CASE TimePasses
  <2>1. UNCHANGED <<running, pushed, stale, accepted, faults>>
      BY <1>4 DEF TimePasses, storeVars
  <2>2. ASSUME NEW c \in Cycles
        PROVE  (Owes(cyc'[c], k, e) <=> Owes(cyc[c], k, e)) /\ (Holds(cyc'[c], k, e) <=> Holds(cyc[c], k, e))
    <3>1. cyc'[c].pc = cyc[c].pc /\ cyc'[c].at = cyc[c].at /\ cyc'[c].left = cyc[c].left
        BY <1>4 DEF TimePasses, TypeOK, CyclesOK, Activations
    <3> QED
        BY <3>1 DEF Owes, Holds, Sends
  <2>3. Owing(k, e)' = Owing(k, e) /\ Holding(k, e)' = Holding(k, e)
      BY <2>2 DEF Owing, Holding
  <2> QED
      BY <1>1, <2>1, <2>3 DEF PaidFor, Open
(* Nothing is in flight after a crash or in a quiet week: what was accepted *)
(* so far stays within the faults so far, this one not counted.            *)
<1>5. CASE WeekPasses \/ Crash
  <2>1. faults' = faults + 1 /\ accepted' = accepted
      BY <1>5 DEF WeekPasses, Crash, Fault
  <2>2. Owing(k, e)' = {} /\ Holding(k, e)' = {}
    <3>1. \A c \in Cycles : cyc'[c].pc = "idle"
        BY <1>5 DEF WeekPasses, Crash, Live, Idle
    <3> QED
        BY <3>1 DEF Owing, Holding, Owes, Holds, Sends
  <2>3. Cardinality(Owing(k, e)') = 0 /\ Cardinality(Holding(k, e)') = 0
      BY <2>2, FS_EmptySet
  <2>4. accepted[<<k, e>>] <= 1 + faults
      BY <1>1 DEF PaidFor, CountsOK
  <2> QED
      BY <1>1, <2>1, <2>3, <2>4 DEF PaidFor, CountsOK
<1> QED
    BY <1>2, <1>3, <1>4, <1>5 DEF Stop, Work, Subscribe, vars, lockVars, storeVars, histVars

LEMMA AllPaid == Spec => []Paid
<1>1. Init => Paid
  <2> SUFFICES ASSUME Init, NEW k \in Keys, NEW e \in Endpoints PROVE PaidFor(k, e)
      BY DEF Paid
  <2>1. Owing(k, e) = {} /\ Holding(k, e) = {}
      BY DEF Init, Idle, Owing, Holding, Owes, Holds, Sends
  <2>2. Cardinality(Owing(k, e)) = 0 /\ Cardinality(Holding(k, e)) = 0
      BY <2>1, FS_EmptySet
  <2>3. accepted[<<k, e>>] = 0 /\ faults = 0 /\ One(running) = 0
      BY DEF Init, One
  <2> QED
      BY <2>2, <2>3 DEF PaidFor
<1>2. TypeOK /\ TypeOK' /\ Paid /\ [Next]_vars => Paid'
    BY CyclePays, WorldPays DEF Next
<1> QED
    BY <1>1, <1>2, TypeCorrect, PTL DEF Spec

LEMMA PaidBounds == TypeOK /\ Paid => DuplicateBound /\ (faults = 0 => NoRepeat)
<1> SUFFICES ASSUME TypeOK, Paid, NEW ke \in Keys \X Endpoints PROVE accepted[ke] <= 1 + faults
    BY DEF DuplicateBound, NoRepeat
<1>1. PICK k \in Keys, e \in Endpoints : ke = <<k, e>>
    OBVIOUS
<1> QED
    BY <1>1, Counts DEF Paid, PaidFor, CountsOK

(* Whatever the cycles, phones and faults, an endpoint is notified of an   *)
(* event at most once more than there were faults.                         *)
THEOREM DuplicatesArePaid == Spec => []DuplicateBound
    BY AllPaid, TypeCorrect, PaidBounds, PTL

(* Until a first fault nobody is notified twice of one event.              *)
THEOREM NeverTwice == Spec => [](faults = 0 => NoRepeat)
    BY AllPaid, TypeCorrect, PaidBounds, PTL

-----------------------------------------------------------------------------
(* Until a first fault the file holds what the store holds; until a second *)
(* one, no endpoint the push service disowned is in either.                *)
GoneInv ==
    /\ faults = 0 => disk.subs = subs
    /\ faults <= 1 => gone \cap subs = {}

LEMMA GoneStep == TypeOK /\ TypeOK' /\ GoneInv /\ [Next]_vars => GoneInv'
<1> SUFFICES ASSUME TypeOK, TypeOK', GoneInv, [Next]_vars PROVE GoneInv'
    OBVIOUS
<1>1. faults \in Nat /\ faults' \in Nat
    BY DEF TypeOK, CountersOK
<1>2. CASE UNCHANGED <<subs, disk, gone>> /\ faults' \in {faults, faults + 1}
    BY <1>1, <1>2 DEF GoneInv
<1>3. CASE (\E c \in Cycles : Answered(c) \/ AnsweredUnsaved(c))
  <2>1. PICK c \in Cycles : Answered(c) \/ AnsweredUnsaved(c)
      BY <1>3
  <2>2. gone' \cap subs' = {} \/ faults > 1
      BY <1>1, <2>1 DEF GoneInv, Answered, AnsweredUnsaved, ApplyAnswer
  <2>3. CASE Answered(c)
    <3>1. faults' = faults
        BY <2>3 DEF Answered
    <3>2. faults = 0 => disk'.subs = subs'
        BY <2>3 DEF GoneInv, Answered, ApplyAnswer, Save
    <3> QED
        BY <1>1, <2>2, <3>1, <3>2 DEF GoneInv
  <2>4. CASE AnsweredUnsaved(c)
    <3>1. faults' = faults + 1
        BY <2>4 DEF AnsweredUnsaved, Fault
    <3> QED
        BY <1>1, <2>2, <3>1 DEF GoneInv
  <2> QED
      BY <2>1, <2>3, <2>4
<1>4. CASE \E c \in Cycles : Mark(c) \/ Complete(c)
    BY <1>1, <1>4 DEF Mark, MarkInMemory, Complete, Save, histVars, GoneInv
<1>5. CASE \E e \in Endpoints : Subscribe(e)
    BY <1>1, <1>5 DEF Subscribe, Save, GoneInv
<1>6. CASE WeekPasses
    BY <1>1, <1>6 DEF WeekPasses, Fault, GoneInv, TypeOK, StoreOK
<1>7. CASE Crash
    BY <1>1, <1>7 DEF Crash, Fault, GoneInv
<1>8. CASE \E c \in Cycles : MarkUnsaved(c)
    BY <1>2, <1>8 DEF MarkUnsaved, MarkInMemory, Fault
<1>9. ASSUME NEW c \in Cycles,
             \/ Scan(c) \/ TasksOk(c) \/ TasksError(c) \/ LoadSubs(c) \/ LoadFails(c)
             \/ \E k \in Keys : Skip(c, k) \/ Take(c, k)
             \/ PostThrows(c)
             \/ \E e \in Endpoints : \E a \in {"sent", "gone", "failed"} : Post(c, e, a)
      PROVE  GoneInv'
  <2>1. UNCHANGED <<subs, disk, gone>>
      BY <1>9 DEF Scan, TasksOk, TasksError, LoadSubs, LoadFails, Skip, Take, PostThrows, Post,
         storeVars, histVars
  <2>2. UNCHANGED faults \/ \E kind : Fault(kind)
      BY <1>9, Zenon DEF Scan, TasksOk, TasksError, LoadSubs, LoadFails, Skip, Take, PostThrows, Post,
         histVars
  <2> QED
      BY <1>2, <2>1, <2>2 DEF Fault
<1>10. CASE Tick \/ Start \/ Stop
  <2>1. UNCHANGED <<subs, disk, gone>>
      BY <1>10 DEF Tick, Start, Stop, Call, storeVars, histVars
  <2>2. UNCHANGED faults \/ Fault("overrun")
      BY <1>10, Zenon DEF Tick, Start, Stop, Call, Begin, TakeOver, Skipped, histVars
  <2> QED
      BY <1>2, <2>1, <2>2 DEF Fault
<1>11. CASE (\E s \in Sessions : Work(s)) \/ TimePasses \/ UNCHANGED vars
    BY <1>2, <1>11 DEF Work, TimePasses, vars, storeVars, histVars
<1> QED
    BY <1>3, <1>4, <1>5, <1>6, <1>7, <1>8, <1>9, <1>10, <1>11 DEF Next, Step

(* An endpoint answered 404/410 stays out of the store until it subscribes *)
(* again, through one crash, failed save, overlap or throw anywhere.       *)
THEOREM GoneStaysDropped == Spec => []GoneIsDropped
<1>1. Init => GoneInv
    BY DEF Init, GoneInv
<1>2. GoneInv => GoneIsDropped
    BY DEF GoneInv, GoneIsDropped
<1> QED
    BY <1>1, <1>2, GoneStep, TypeCorrect, PTL DEF Spec

-----------------------------------------------------------------------------
(***************************************************************************)
(* Until a first fault one cycle is in flight at most, and the last send   *)
(* of a session is no older than its last push, nor, while the session is  *)
(* notified, than the cycle that notifies it.                              *)
(***************************************************************************)
Notifies(c, s) == Sends(cyc[c]) /\ cyc[c].at.session = s

Alone    == (\A c, d \in Live : c = d) /\ (Live # {} => running)
SentBy   == \A c \in Live, s \in Sessions : Notifies(c, s) => sinceSent[s] >= cyc[c].age
SentPush == \A s \in Sessions : (\A c \in Cycles : ~Notifies(c, s)) => sinceSent[s] >= sincePush[s]

CoolInv == faults = 0 => Alone /\ SentBy /\ SentPush

LEMMA Ages ==
    ASSUME TypeOK
    PROVE  /\ \A s \in Sessions : sinceSent[s] \in 0..Forgotten /\ sincePush[s] \in 0..Forgotten
           /\ \A c \in Cycles : cyc[c].age \in 0..AgeCap
           /\ AgeCap \in Nat /\ Cooldown \in Nat /\ Forgotten = AgeCap + Cooldown
  BY ConstantsAssumption DEF TypeOK, SessionsOK, CyclesOK, Activations, Forgotten

(* The cycle in flight works on; its sends and their age may change.       *)
LEMMA CycleCools ==
    ASSUME TypeOK, CoolInv, faults' = 0, NEW c \in Cycles, Step(c)
    PROVE  CoolInv'
<1>1. faults = 0
  <2>1. UNCHANGED faults \/ \E kind : Fault(kind)
      BY Zenon DEF Step, Scan, TasksOk, TasksError, LoadSubs, LoadFails, Skip, Take, PostThrows, Post,
         Answered, AnsweredUnsaved, Mark, MarkUnsaved, Complete, histVars
  <2> QED
      BY <2>1 DEF Fault, TypeOK, CountersOK
<1>2. Alone /\ SentBy /\ SentPush /\ c \in Live
    BY <1>1, CycleMoves DEF CoolInv, Live
<1>3. \A d \in Cycles : d # c => cyc'[d] = cyc[d] /\ cyc[d].pc = "idle" /\ ~Sends(cyc[d])
  <2>1. \A d \in Cycles : d # c => cyc[d].pc = "idle"
      BY <1>2 DEF Alone, Live
  <2>2. \A d \in Cycles : d # c => cyc'[d] = cyc[d]
      BY CycleMoves, Replaced DEF MovesTo, TypeOK
  <2> QED
      BY <2>1, <2>2 DEF Sends
<1>4. Alone'
  <2>1. PICK o : MovesTo(c, o)
      BY CycleMoves
  <2>2. cyc'[c] = o
      BY <2>1, Replaced DEF MovesTo, TypeOK
  <2>3. Live' \subseteq {c}
      BY <1>3 DEF Live
  <2>4. Live' # {} => running'
    <3>1. CASE Finish(c) /\ o = Idle
      <4>1. cyc'[c].pc = "idle"
          BY <2>2, <3>1 DEF Idle
      <4>2. Live' = {}
          BY <2>3, <4>1 DEF Live
      <4> QED
          BY <4>2
    <3>2. CASE UNCHANGED lockVars
        BY <1>2, <3>2, Zenon DEF Alone, lockVars
    <3> QED
        BY <2>1, <3>1, <3>2 DEF MovesTo
  <2> QED
      BY <2>3, <2>4 DEF Alone
<1> DEFINE inHand  == Sends(cyc[c])
           inHand1 == Sends(cyc'[c])
(* With one cycle in flight, its sends are all the sends there are.        *)
<1>5. ASSUME \A s \in Sessions : (inHand1 /\ cyc'[c].at.session = s) => sinceSent'[s] >= cyc'[c].age,
             \A s \in Sessions : ~(inHand1 /\ cyc'[c].at.session = s) => sinceSent'[s] >= sincePush'[s]
      PROVE  CoolInv'
  <2>1. SentBy'
      BY <1>3, <1>5 DEF SentBy, Notifies, Live, Sends
  <2>2. SentPush'
      BY <1>5 DEF SentPush, Notifies
  <2> QED
      BY <1>4, <2>1, <2>2 DEF CoolInv
<1>6. ASSUME NEW s \in Sessions
      PROVE  /\ inHand /\ cyc[c].at.session = s => sinceSent[s] >= cyc[c].age
             /\ ~(inHand /\ cyc[c].at.session = s) => sinceSent[s] >= sincePush[s]
    BY <1>2, <1>3 DEF SentBy, SentPush, Notifies
<1>7. cyc[c].pc # "idle" /\ cyc \in [Cycles -> Activations]
    BY CycleMoves DEF TypeOK, CyclesOK
<1>8. CASE UNCHANGED <<sincePush, sinceSent>> /\ ~inHand /\ ~inHand1
    BY <1>5, <1>6, <1>8
<1>9. CASE TasksError(c) \/ Complete(c)
    BY <1>7, <1>8, <1>9 DEF TasksError, Complete, Finish, Idle, Sends, histVars
<1>10. CASE Scan(c)
    BY <1>7, <1>8, <1>10 DEF Scan, Sends, histVars, Activations
<1>11. CASE TasksOk(c)
    BY <1>7, <1>8, <1>11 DEF TasksOk, Sends, histVars, Activations
<1>12. CASE LoadSubs(c)
    BY <1>7, <1>8, <1>12 DEF LoadSubs, Sends, histVars, Activations
<1>13. CASE \E k \in Keys : Skip(c, k)
    BY <1>7, <1>8, <1>13 DEF Skip, Sends, histVars, Activations
<1>14. CASE \E k \in Keys : Take(c, k)
  <2>1. PICK k \in Keys : Take(c, k)
      BY <1>14
  <2>2. k.session \in Sessions /\ cyc'[c].at = k /\ cyc'[c].age = cyc[c].age /\ inHand1 /\ ~inHand
        /\ UNCHANGED <<sincePush, sinceSent>>
      BY <1>7, <2>1 DEF Take, Sends, histVars, Activations, Keys
  <2>3. sincePush[k.session] - cyc[c].age >= Cooldown
    <3>1. ~(sincePush[k.session] - cyc[c].age < Cooldown)
        BY <2>1 DEF Take, Suppressed, Cooling
    <3> QED
        BY <2>2, <3>1, Ages
  <2>4. sinceSent[k.session] >= cyc[c].age
    <3>1. sinceSent[k.session] >= sincePush[k.session]
        BY <1>6, <2>2
    <3> QED
        BY <2>2, <2>3, <3>1, Ages
  <2> QED
      BY <1>5, <1>6, <2>2, <2>4
<1>15. CASE \E e \in Endpoints : \E a \in {"sent", "gone", "failed"} : Post(c, e, a)
  <2>1. PICK e \in Endpoints, a \in {"sent", "gone", "failed"} : Post(c, e, a)
      BY <1>15
  <2>2. /\ cyc'[c].at = cyc[c].at /\ cyc'[c].age = cyc[c].age /\ inHand1 /\ inHand
        /\ UNCHANGED sincePush /\ cyc[c].at.session \in Sessions
        /\ sinceSent \in [Sessions -> 0..Forgotten]
    <3>1. cyc[c].at.session \in Sessions
        BY <2>1 DEF Post, TypeOK, CyclesOK, Keys
    <3> QED
        BY <1>7, <2>1, <3>1 DEF Post, Sends, Activations, TypeOK, SessionsOK
  <2>3. \A s \in Sessions : s # cyc[c].at.session => sinceSent'[s] = sinceSent[s]
      BY <2>1, <2>2 DEF Post
  <2>4. sinceSent'[cyc[c].at.session] \in {cyc[c].age, sinceSent[cyc[c].at.session]}
      BY <2>1, <2>2 DEF Post
  <2>5. cyc[c].age >= cyc[c].age
      BY Ages
  <2> QED
      BY <1>5, <1>6, <2>2, <2>3, <2>4, <2>5
<1>16. CASE Answered(c)
  <2>1. /\ cyc'[c].at = cyc[c].at /\ cyc'[c].age = cyc[c].age /\ inHand1 /\ inHand
        /\ UNCHANGED <<sincePush, sinceSent>>
      BY <1>7, <1>16 DEF Answered, ApplyAnswer, Sends, Activations
  <2> QED
      BY <1>5, <1>6, <2>1
<1>17. CASE Mark(c)
  <2>1. /\ ~inHand1 /\ inHand /\ UNCHANGED sinceSent /\ cyc[c].at.session \in Sessions
        /\ sincePush' = [sincePush EXCEPT ![cyc[c].at.session] = cyc[c].age]
        /\ sincePush \in [Sessions -> 0..Forgotten]
    <3>1. cyc[c].at.session \in Sessions
        BY <1>17 DEF Mark, MarkInMemory, TypeOK, CyclesOK, Keys
    <3> QED
        BY <1>7, <1>17, <3>1 DEF Mark, MarkInMemory, Sends, Activations, TypeOK, SessionsOK
  <2>2. ASSUME NEW s \in Sessions PROVE sinceSent'[s] >= sincePush'[s]
      BY <1>6, <2>1
  <2> QED
      BY <1>5, <2>1, <2>2
<1>18. CASE LoadFails(c) \/ PostThrows(c) \/ AnsweredUnsaved(c) \/ MarkUnsaved(c)
    BY <1>1, <1>18 DEF LoadFails, PostThrows, AnsweredUnsaved, MarkUnsaved, Fault
<1> QED
    BY <1>9, <1>10, <1>11, <1>12, <1>13, <1>14, <1>15, <1>16, <1>17, <1>18 DEF Step

(* Cycles begin, time passes and the world changes.                        *)
LEMMA WorldCools ==
    ASSUME TypeOK, TypeOK', CoolInv, faults' = 0,
           \/ Tick \/ Start \/ Stop
           \/ \E s \in Sessions : Work(s)
           \/ \E e \in Endpoints : Subscribe(e)
           \/ TimePasses \/ WeekPasses \/ Crash \/ UNCHANGED vars
    PROVE  CoolInv'
<1>1. faults \in Nat /\ faults' # faults + 1
    BY DEF TypeOK, CountersOK
<1>2. CASE UNCHANGED <<cyc, running, sincePush, sinceSent, faults>>
    BY <1>2 DEF CoolInv, Alone, SentBy, SentPush, Notifies, Live
<1>3. CASE Tick \/ Start
  <2>1. Call /\ UNCHANGED <<sincePush, sinceSent>>
      BY <1>3 DEF Tick, Start, Call
  <2>2. CASE \E c \in Cycles : Begin(c)
    <3>1. PICK c \in Cycles : Begin(c)
        BY <2>2
    <3>2. faults = 0 /\ ~running /\ running' = TRUE
        BY <3>1 DEF Begin, TakeLock
    <3>3. Live = {} /\ SentPush
        BY <3>2 DEF CoolInv, Alone
    <3>4. cyc'[c].pc = "tasks" /\ \A d \in Cycles : d # c => cyc'[d] = cyc[d]
        BY <3>1 DEF Begin, TakeLock, Idle, TypeOK, CyclesOK
    <3>5. Live' = {c} /\ \A d \in Cycles : ~Sends(cyc[d]) /\ ~Sends(cyc'[d])
        BY <3>3, <3>4 DEF Live, Sends
    <3>6. Alone'
        BY <3>2, <3>5, Zenon DEF Alone
    <3>7. SentBy' /\ SentPush'
        BY <2>1, <3>3, <3>5 DEF SentBy, SentPush, Notifies, Live
    <3> QED
        BY <3>6, <3>7 DEF CoolInv
  <2>3. CASE \E c \in Cycles : TakeOver(c)
      BY <1>1, <2>3 DEF TakeOver, Fault
  <2>4. CASE Skipped
      BY <1>2, <2>1, <2>4 DEF Skipped
  <2> QED
      BY <2>1, <2>2, <2>3, <2>4 DEF Call
<1>4. CASE TimePasses
  <2>1. Alone /\ SentBy /\ SentPush /\ UNCHANGED running
      BY <1>4 DEF TimePasses, CoolInv
  <2>2. /\ \A c \in Cycles : cyc'[c].pc = cyc[c].pc /\ cyc'[c].at = cyc[c].at
        /\ \A c \in Live : cyc'[c].age = cyc[c].age + 1
      BY <1>4, SMT DEF TimePasses, Live, TypeOK, CyclesOK, Activations
  <2>3. Live' = Live /\ \A c \in Cycles, s \in Sessions : Notifies(c, s)' <=> Notifies(c, s)
      BY <2>2 DEF Live, Notifies, Sends
  <2>4. \A s \in Sessions : /\ sinceSent'[s] = AgeBy1(sinceSent[s], Forgotten)
                            /\ sincePush'[s] = AgeBy1(sincePush[s], Forgotten)
      BY <1>4 DEF TimePasses
  <2>5. SentPush'
    <3> SUFFICES ASSUME NEW s \in Sessions, \A c \in Cycles : ~Notifies(c, s)'
                 PROVE  sinceSent'[s] >= sincePush'[s]
        BY DEF SentPush
    <3>1. sinceSent[s] >= sincePush[s]
        BY <2>1, <2>3 DEF SentPush
    <3> QED
        BY <2>4, <3>1, Ages, Bounds DEF AgeBy1
  <2>6. SentBy'
    <3> SUFFICES ASSUME NEW c \in Live', NEW s \in Sessions, Notifies(c, s)'
                 PROVE  sinceSent'[s] >= cyc'[c].age
        BY DEF SentBy
    <3>1. c \in Live /\ c \in Cycles /\ sinceSent[s] >= cyc[c].age /\ cyc'[c].age = cyc[c].age + 1
        BY <2>1, <2>2, <2>3 DEF SentBy, Live
    <3>2. cyc'[c].age \in 0..AgeCap
        BY <3>1 DEF TypeOK, CyclesOK, Activations
    <3> QED
        BY <2>4, <3>1, <3>2, Ages, Bounds DEF AgeBy1
  <2>7. Alone'
      BY <2>1, <2>3, Zenon DEF Alone
  <2> QED
      BY <2>5, <2>6, <2>7 DEF CoolInv
<1>5. CASE WeekPasses \/ Crash
    BY <1>1, <1>5 DEF WeekPasses, Crash, Fault
<1> QED
    BY <1>2, <1>3, <1>4, <1>5 DEF Stop, Work, Subscribe, vars, lockVars, storeVars, histVars

LEMMA Cools == Spec => []CoolInv
<1>1. Init => CoolInv
  <2> SUFFICES ASSUME Init PROVE CoolInv
      OBVIOUS
  <2>1. Live = {} /\ \A s \in Sessions : sinceSent[s] = sincePush[s]
      BY DEF Init, Idle, Live
  <2>2. \A s \in Sessions : sinceSent[s] = Forgotten
      BY DEF Init
  <2> QED
      BY <2>1, <2>2, Bounds DEF CoolInv, Alone, SentBy, SentPush
<1>2. TypeOK /\ TypeOK' /\ CoolInv /\ [Next]_vars => CoolInv'
  <2> SUFFICES ASSUME TypeOK, TypeOK', CoolInv, [Next]_vars PROVE CoolInv'
      OBVIOUS
  <2>1. CASE faults' = 0
      BY <2>1, CycleCools, WorldCools DEF Next
  <2> QED
      BY <2>1 DEF CoolInv
<1> QED
    BY <1>1, <1>2, TypeCorrect, PTL DEF Spec

(* Until a first fault, two cycles that notify one session began at least  *)
(* the cooldown apart, whatever the session's states and turns.            *)
THEOREM CooldownHolds == Spec => CooldownKept
<1> DEFINE Kept == \A c \in Cycles, k \in Keys :
                      Take(c, k) /\ faults = 0 => sinceSent[k.session] - cyc[c].age >= Cooldown
<1>1. TypeOK /\ CoolInv => Kept
  <2> SUFFICES ASSUME TypeOK, CoolInv, NEW c \in Cycles, NEW k \in Keys, Take(c, k), faults = 0
               PROVE  sinceSent[k.session] - cyc[c].age >= Cooldown
      OBVIOUS
  <2>1. k.session \in Sessions /\ c \in Live /\ ~Sends(cyc[c])
      BY DEF Keys, Take, Live, Sends
  <2>2. \A d \in Cycles : ~Notifies(d, k.session)
      BY <2>1 DEF CoolInv, Alone, Live, Sends, Notifies
  <2>3. sinceSent[k.session] >= sincePush[k.session]
      BY <2>1, <2>2 DEF CoolInv, SentPush
  <2>4. ~(sincePush[k.session] - cyc[c].age < Cooldown)
      BY DEF Take, Suppressed, Cooling
  <2> QED
      BY <2>1, <2>3, <2>4, Ages
<1>2. TypeOK /\ CoolInv /\ [Next]_vars => [Kept]_vars
    BY <1>1
<1> HIDE DEF Kept
<1>3. Spec => [][Kept]_vars
    BY <1>2, Cools, TypeCorrect, PTL DEF Spec
<1> QED
    BY <1>3 DEF Kept, CooldownKept
=============================================================================
