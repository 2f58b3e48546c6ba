-------------------------- MODULE Presence_proofs ---------------------------
(***************************************************************************)
(* Theorems about the presence engine, for any sessions, callers, times to *)
(* live and lengths of logs.                                               *)
(*                                                                         *)
(* The inductive invariant says of a call that it has at most one log in   *)
(* hand, and that the engine was seen alive no earlier than the call's own *)
(* time: so nothing but a lost loop makes a session DISCONNECTED.          *)
(***************************************************************************)
EXTENDS Presence, FiniteSetTheorems, TLAPS

USE BoundsAssumption

LEMMA BoundsAre == Ttl \in Nat /\ StaleAfter \in Nat /\ MaxClock \in Nat /\ MaxLog \in Nat /\ MaxFaults \in Nat
BY DEF BoundsAssumption

(* The progress of a log has a last event.                                 *)
LEMMA HasLast ==
    ASSUME NEW n \in Nat, NEW S, S \subseteq 1..n, S # {}
    PROVE  \E i \in S : \A j \in S : j <= i
<1> DEFINE From(i) == {j \in S : j >= i}
           T == {From(i) : i \in S}
<1>0. \A j \in S : j \in Int
    OBVIOUS
<1>1. IsFiniteSet(S)
  <2>1. IsFiniteSet(1..n)
      BY FS_Interval
  <2> QED
      BY <2>1, FS_Subset
<1>2. T \subseteq FiniteSubsetsOf(S) /\ T # {}
  <2>1. \A i \in S : From(i) \subseteq S
      OBVIOUS
  <2> HIDE DEF From
  <2>2. \A i \in S : IsFiniteSet(From(i))
      BY <1>1, <2>1, FS_Subset
  <2> QED
      BY <2>1, <2>2 DEF FiniteSubsetsOf
<1>3. IsWellFoundedOn(StrictSubsetOrdering(S), FiniteSubsetsOf(S))
    BY FS_StrictSubsetOrderingWellFounded
<1> HIDE DEF T
<1>4. PICK x \in T : \A y \in T : ~(<<y, x>> \in StrictSubsetOrdering(S))
    BY <1>2, <1>3, WFMin
<1>5. PICK i \in S : x = From(i)
    BY DEF T
<1>6. ASSUME NEW j \in S PROVE j <= i
  <2> SUFFICES ASSUME ~(j <= i) PROVE FALSE
      OBVIOUS
  <2>1. From(j) \in T
      BY DEF T
  <2>2. i \in Int /\ j \in Int /\ j > i
      BY <1>6
  <2>3. From(j) \subseteq From(i) /\ i \in From(i) /\ i \notin From(j)
    <3>1. \A k \in S : k >= j => k >= i
        BY <1>0, <2>2
    <3>2. i >= i /\ ~(i >= j)
        BY <2>2
    <3> QED
        BY <3>1, <3>2
  <2>4. From(j) \in SUBSET S /\ From(i) \in SUBSET S
      OBVIOUS
  <2> HIDE DEF From
  <2>5. <<From(j), From(i)>> \in StrictSubsetOrdering(S)
      BY <2>3, <2>4 DEF StrictSubsetOrdering
  <2> QED
      BY <1>4, <1>5, <2>1, <2>5
<1> QED
    BY <1>6

-----------------------------------------------------------------------------
(***************************************************************************)
(* Types.                                                                  *)
(***************************************************************************)
Events == [type : Types, at : 1..MaxClock]

LEMMA LogsAre ==
    ASSUME NEW s \in Logs
    PROVE  /\ Len(s) \in Nat /\ DOMAIN s = 1..Len(s)
           /\ \A i \in 1..Len(s) : s[i] \in Events /\ s[i].type \in Types /\ s[i].at \in 1..MaxClock
<1>1. s \in Seq(Events)
    BY DEF Logs, Events
<1>2. /\ Len(s) \in Nat /\ DOMAIN s = 1..Len(s)
      /\ \A i \in 1..Len(s) : s[i] \in Events
    BY <1>1
<1> QED
    BY <1>2 DEF Events

(* A call that reads is not past the last time the engine was seen alive,  *)
(* and it holds a session's log only until it has folded it.               *)
CallOK(c) ==
    /\ call[c].pc # "idle" => 1 <= call[c].now /\ call[c].now <= aliveAt
    /\ call[c].at # {} <=> call[c].pc = "fold"
    /\ call[c].pc = "fold" => \E s \in call[c].todo : call[c].at = {s}
    /\ \A s \in Sessions : call[c].pc \in {"read", "fold"} =>
          call[c].got[s] \in (IF s \in call[c].todo THEN {"none"} ELSE States)

IInv == TypeOK /\ \A c \in Callers : CallOK(c)

LEMMA IdleIs == Idle \in CallRecords /\ Idle.pc = "idle" /\ Idle.now = 0 /\ Idle.at = {}
BY BoundsAre DEF Idle, CallRecords, PCs, Recorded, Logs

LEMMA InitKeeps == Init => IInv
<1> SUFFICES ASSUME Init PROVE IInv
    OBVIOUS
<1>1. \A c \in Callers : call[c] = Idle
    BY DEF Init
<1>2. call \in [Callers -> CallRecords]
    BY IdleIs DEF Init
<1>3. \A c \in Callers : CallOK(c) /\ call[c].now <= clock
    BY <1>1, IdleIs DEF CallOK, Init
<1>4. log \in [Sessions -> Logs] /\ \A s \in Sessions : log[s] = <<>>
    BY DEF Init, Logs
<1> QED
    BY <1>2, <1>3, <1>4, BoundsAre DEF Init, IInv, TypeOK, CallOK, Recorded

(* A call that does not move stays as good as it was.                      *)
LEMMA RestingOK ==
    ASSUME NEW c \in Callers, CallOK(c), call'[c] = call[c],
           call[c].now \in Int, aliveAt \in Int, aliveAt' \in Int, aliveAt <= aliveAt'
    PROVE  CallOK(c)'
BY DEF CallOK

(* What the steps leave of the parts that are not the calls.               *)
RestOK ==
    /\ clock \in 1..MaxClock
    /\ log \in [Sessions -> Logs]
    /\ \A s \in Sessions : /\ Len(log[s]) <= MaxLog
                           /\ \A i \in DOMAIN log[s] : log[s][i].at <= clock
    /\ live \subseteq Sessions
    /\ seen \in [Sessions -> SUBSET Results]
    /\ aliveAt \in 0..clock
    /\ lastStates \in Recorded
    /\ faults \in 0..MaxFaults

LEMMA IInvIs ==
    /\ IInv <=> /\ RestOK /\ call \in [Callers -> CallRecords]
                /\ \A c \in Callers : call[c].now <= clock /\ CallOK(c)
    /\ IInv' <=> /\ RestOK' /\ call' \in [Callers -> CallRecords]
                 /\ \A c \in Callers : call'[c].now <= clock' /\ CallOK(c)'
BY DEF IInv, TypeOK, RestOK, CallOK

(* Of a step that moves one call, only that call is left to look at.       *)
LEMMA OneCallKeeps ==
    ASSUME IInv, NEW c \in Callers, NEW r \in CallRecords, call' = [call EXCEPT ![c] = r],
           RestOK', clock' = clock, aliveAt <= aliveAt', r.now <= clock, CallOK(c)'
    PROVE  IInv'
<1>1. call' \in [Callers -> CallRecords] /\ call'[c] = r
      /\ \A d \in Callers \ {c} : call'[d] = call[d]
    BY IInvIs
<1>2. \A d \in Callers : call[d].now \in Int /\ call[d].now <= clock /\ CallOK(d)
    BY IInvIs DEF CallRecords
<1>3. aliveAt \in Int /\ aliveAt' \in Int
    BY IInvIs DEF RestOK
<1>4. \A d \in Callers \ {c} : CallOK(d)'
    BY <1>1, <1>2, <1>3, RestingOK
<1> QED
    BY <1>1, <1>2, <1>4, IInvIs

LEMMA ListKeeps ==
    ASSUME IInv, NEW c \in Callers, List(c)
    PROVE  IInv'
<1> DEFINE r == [Idle EXCEPT !.pc = "read", !.now = clock, !.live = live,
                             !.prev = lastStates, !.todo = Sessions]
<1>1. /\ aliveAt' = clock /\ call' = [call EXCEPT ![c] = r]
      /\ UNCHANGED <<clock, log, live, seen, lastStates, faults>>
    BY DEF List
<1>2. RestOK /\ call \in [Callers -> CallRecords]
    BY IInvIs
<1>3. /\ r \in CallRecords /\ r.pc = "read" /\ r.now = clock /\ r.at = {} /\ r.todo = Sessions
      /\ \A s \in Sessions : r.got[s] = "none"
  <2>1. Idle \in CallRecords /\ Idle.at = {} /\ \A s \in Sessions : Idle.got[s] = "none"
      BY IdleIs DEF Idle
  <2>2. clock \in 0..MaxClock /\ live \in SUBSET Sessions /\ lastStates \in Recorded
        /\ Sessions \in SUBSET Sessions /\ "read" \in PCs
      BY <1>2, BoundsAre DEF RestOK, PCs
  <2> QED
      BY <2>1, <2>2 DEF CallRecords
<1> HIDE DEF r
<1>4. call'[c] = r
    BY <1>1, <1>2
<1>5. 1 <= clock /\ clock \in Int
    BY <1>2 DEF RestOK
<1>6. CallOK(c)'
    BY <1>1, <1>3, <1>4, <1>5 DEF CallOK
<1>7. RestOK' /\ aliveAt <= aliveAt'
    BY <1>1, <1>2 DEF RestOK
<1>8. r.now <= clock
    BY <1>3, <1>5
<1> QED
    BY <1>1, <1>3, <1>6, <1>7, <1>8, OneCallKeeps

LEMMA ReadKeeps ==
    ASSUME IInv, NEW c \in Callers, Read(c)
    PROVE  IInv'
<1>1. RestOK /\ call \in [Callers -> CallRecords] /\ call[c] \in CallRecords /\ CallOK(c)
      /\ call[c].now <= clock
    BY IInvIs
<1>2. PICK s \in call[c].todo :
          \/ /\ call' = [call EXCEPT ![c].pc = "fold", ![c].at = {s}, ![c].read = log[s]]
             /\ UNCHANGED faults
          \/ /\ call' = [call EXCEPT ![c].pc = "fold", ![c].at = {s}]
             /\ Fault
    BY DEF Read
<1>3. s \in Sessions
    BY <1>1, <1>2 DEF CallRecords
<1>4. log[s] \in Logs /\ call[c].read \in Logs
    BY <1>1, <1>3 DEF RestOK, CallRecords
<1>5. PICK text \in Logs :
          call' = [call EXCEPT ![c] = [call[c] EXCEPT !.pc = "fold", !.at = {s}, !.read = text]]
  <2>1. CASE call' = [call EXCEPT ![c].pc = "fold", ![c].at = {s}, ![c].read = log[s]]
      BY <1>1, <1>4, <2>1
  <2>2. CASE call' = [call EXCEPT ![c].pc = "fold", ![c].at = {s}]
    <3>1. [call[c] EXCEPT !.pc = "fold", !.at = {s}] =
              [call[c] EXCEPT !.pc = "fold", !.at = {s}, !.read = call[c].read]
        BY <1>1 DEF CallRecords
    <3>2. call' = [call EXCEPT ![c] = [call[c] EXCEPT !.pc = "fold", !.at = {s}]]
        BY <1>1, <2>2
    <3> QED
        BY <1>4, <3>1, <3>2
  <2> QED
      BY <1>2, <2>1, <2>2
<1> DEFINE r == [call[c] EXCEPT !.pc = "fold", !.at = {s}, !.read = text]
<1>6. /\ r \in CallRecords /\ r.pc = "fold" /\ r.now = call[c].now /\ r.at = {s}
      /\ r.todo = call[c].todo /\ r.got = call[c].got
  <2>1. "fold" \in PCs
      BY DEF PCs
  <2> QED
      BY <1>1, <1>3, <2>1 DEF CallRecords
<1>7. call' = [call EXCEPT ![c] = r]
    BY <1>5
<1> HIDE DEF r
<1>8. call'[c] = r
    BY <1>1, <1>7
<1>9. /\ UNCHANGED <<clock, log, live, seen, aliveAt, lastStates>>
      /\ (faults' = faults \/ Fault)
    BY <1>2 DEF Read
<1>10. call[c].pc = "read"
    BY DEF Read
<1>11. CallOK(c)'
    BY <1>1, <1>2, <1>6, <1>8, <1>9, <1>10 DEF CallOK
<1>12. RestOK' /\ aliveAt <= aliveAt'
    BY <1>1, <1>9, BoundsAre DEF RestOK, Fault
<1> QED
    BY <1>1, <1>6, <1>7, <1>9, <1>11, <1>12, OneCallKeeps

(* A fold reports one of the states.                                       *)
LEMMA ReportIn ==
    ASSUME NEW c \in Callers, NEW s \in Sessions, call[c].prev[s] \in {"DONE", "FAILED", "none"}
    PROVE  /\ Resolve(c, s) \in States /\ Report(c, s) \in States
           /\ Resolve(c, s) # "RUNNING" => Report(c, s) = Resolve(c, s)
           /\ Report(c, s) \in {Resolve(c, s), "DONE", "FAILED"}
<1>1. Resolve(c, s) \in States
    BY DEF Resolve, States
<1> QED
    BY <1>1 DEF Report, Transition, States

LEMMA FoldKeeps ==
    ASSUME IInv, NEW c \in Callers, NEW s \in Sessions, Fold(c, s)
    PROVE  IInv'
<1>1. RestOK /\ call \in [Callers -> CallRecords] /\ call[c] \in CallRecords /\ CallOK(c)
      /\ call[c].now <= clock
    BY IInvIs
<1>2. PICK x : x = Report(c, s)
    OBVIOUS
<1>3. x \in States
  <2>1. call[c].prev[s] \in {"DONE", "FAILED", "none"}
      BY <1>1 DEF CallRecords, Recorded
  <2> QED
      BY <1>2, <2>1, ReportIn
<1> DEFINE r == [call[c] EXCEPT !.pc = "read", !.at = {}, !.read = <<>>,
                                !.todo = call[c].todo \ {s}, !.got[s] = Report(c, s)]
<1>4. call' = [call EXCEPT ![c] = r]
    BY DEF Fold
<1>5. /\ r \in CallRecords /\ r.pc = "read" /\ r.now = call[c].now /\ r.at = {}
      /\ r.todo = call[c].todo \ {s} /\ r.got = [call[c].got EXCEPT ![s] = x]
  <2>0. r = [call[c] EXCEPT !.pc = "read", !.at = {}, !.read = <<>>, !.todo = call[c].todo \ {s},
                            !.got = [call[c].got EXCEPT ![s] = x]]
      BY <1>1, <1>2 DEF CallRecords
  <2> HIDE DEF r
  <2>1. "read" \in PCs /\ <<>> \in Logs
      BY DEF PCs, Logs
  <2>2. [call[c].got EXCEPT ![s] = x] \in [Sessions -> States \cup {"none"}]
      BY <1>1, <1>3 DEF CallRecords
  <2>3. call[c].todo \ {s} \in SUBSET Sessions
      BY <1>1 DEF CallRecords
  <2> QED
      BY <1>1, <2>0, <2>1, <2>2, <2>3 DEF CallRecords
<1> HIDE DEF r
<1>6. call'[c] = r
    BY <1>1, <1>4
<1>7. call[c].pc = "fold" /\ call[c].got \in [Sessions -> States \cup {"none"}]
    BY <1>1 DEF Fold, CallRecords
<1>8. UNCHANGED <<clock, log, live, aliveAt, lastStates, faults>>
      /\ seen' = [seen EXCEPT ![s] = @ \cup Fingerprints(call[c].read)]
    BY DEF Fold
<1>9. ASSUME NEW t \in Sessions PROVE r.got[t] \in (IF t \in r.todo THEN {"none"} ELSE States)
  <2>1. t = s => r.got[t] = x /\ t \notin r.todo
      BY <1>5, <1>7
  <2>2. t # s => r.got[t] = call[c].got[t] /\ (t \in r.todo <=> t \in call[c].todo)
      BY <1>5, <1>7
  <2>3. call[c].got[t] \in (IF t \in call[c].todo THEN {"none"} ELSE States)
      BY <1>1, <1>7 DEF CallOK
  <2> QED
      BY <1>3, <2>1, <2>2, <2>3
<1>10. CallOK(c)'
    BY <1>1, <1>5, <1>6, <1>7, <1>8, <1>9 DEF CallOK
<1>11. RestOK' /\ aliveAt <= aliveAt'
    BY <1>1, <1>8 DEF RestOK, Fingerprints
<1> QED
    BY <1>1, <1>4, <1>5, <1>8, <1>10, <1>11, OneCallKeeps

LEMMA AnswerKeeps ==
    ASSUME IInv, NEW c \in Callers, Answer(c)
    PROVE  IInv'
<1>1. RestOK /\ call \in [Callers -> CallRecords]
    BY IInvIs
<1>2. call' = [call EXCEPT ![c] = Idle] /\ lastStates' \in Recorded
      /\ UNCHANGED <<clock, log, live, seen, aliveAt, faults>>
    BY DEF Answer, Recorded
<1>3. call'[c] = Idle
    BY <1>1, <1>2
<1>4. CallOK(c)'
    BY <1>3, IdleIs DEF CallOK
<1>5. RestOK' /\ aliveAt <= aliveAt' /\ Idle.now <= clock
    BY <1>1, <1>2, IdleIs DEF RestOK
<1> QED
    BY <1>2, <1>4, <1>5, IdleIs, OneCallKeeps

(* Steps that move no call.                                                *)
LEMMA NoCallKeeps ==
    ASSUME IInv, call' = call, RestOK', clock <= clock', aliveAt <= aliveAt'
    PROVE  IInv'
<1>1. clock \in Int /\ clock' \in Int /\ aliveAt \in Int /\ aliveAt' \in Int
    BY IInvIs DEF RestOK
<1>2. \A c \in Callers : call[c].now \in Int /\ call[c].now <= clock /\ CallOK(c)
    BY IInvIs DEF CallRecords
<1>3. \A c \in Callers : CallOK(c)' /\ call'[c].now <= clock'
    BY <1>1, <1>2, RestingOK
<1> QED
    BY <1>3, IInvIs

LEMMA LogKeeps ==
    ASSUME IInv, NEW s \in Sessions, NEW type \in Logged, Log(s, type)
    PROVE  IInv'
<1>1. RestOK
    BY IInvIs
<1> DEFINE e == [type |-> type, at |-> clock]
           new == Append(log[s], e)
<1>2. log' = [log EXCEPT ![s] = new] /\ Len(log[s]) < MaxLog
      /\ UNCHANGED <<clock, live, seen, aliveAt, lastStates, call, faults>>
    BY DEF Log, engineVars
<1>3. e \in Events /\ e.at = clock
    BY <1>1, LoggedAssumption DEF RestOK, Events
<1>4. log[s] \in Seq(Events)
    BY <1>1 DEF RestOK, Logs, Events
<1>5. /\ new \in Seq(Events) /\ Len(new) = Len(log[s]) + 1 /\ DOMAIN new = 1..Len(new)
      /\ \A i \in DOMAIN new : new[i] = IF i <= Len(log[s]) THEN log[s][i] ELSE e
    BY <1>3, <1>4
<1> HIDE DEF e, new
<1>6. new \in Logs /\ Len(new) <= MaxLog
    BY <1>1, <1>2, <1>4, <1>5, BoundsAre DEF Logs, Events
<1>7. \A i \in DOMAIN new : new[i].at <= clock
  <2>1. DOMAIN log[s] = 1..Len(log[s]) /\ Len(log[s]) \in Nat
      BY <1>4
  <2>2. clock \in Int
      BY <1>1 DEF RestOK
  <2> QED
      BY <1>1, <1>3, <1>5, <2>1, <2>2 DEF RestOK
<1>8. log' \in [Sessions -> Logs] /\ log'[s] = new /\ \A t \in Sessions \ {s} : log'[t] = log[t]
    BY <1>1, <1>2, <1>6 DEF RestOK
<1>9. \A t \in Sessions : Len(log'[t]) <= MaxLog /\ \A i \in DOMAIN log'[t] : log'[t][i].at <= clock
    BY <1>1, <1>6, <1>7, <1>8 DEF RestOK
<1>10. RestOK' /\ clock <= clock' /\ aliveAt <= aliveAt'
    BY <1>1, <1>2, <1>8, <1>9 DEF RestOK
<1> QED
    BY <1>2, <1>10, NoCallKeeps

LEMMA WorldKeeps ==
    ASSUME IInv, Status \/ TimePasses \/ Restart \/ \E s \in Sessions : Open(s)
    PROVE  IInv'
<1>1. RestOK /\ call \in [Callers -> CallRecords]
    BY IInvIs
<1>2. CASE Status
  <2>1. aliveAt' = clock /\ UNCHANGED <<clock, log, live, seen, lastStates, call, faults>>
      BY <1>2 DEF Status
  <2>2. RestOK' /\ clock <= clock' /\ aliveAt <= aliveAt'
      BY <1>1, <2>1 DEF RestOK
  <2> QED
      BY <2>1, <2>2, NoCallKeeps
<1>3. CASE TimePasses
  <2>1. clock < MaxClock /\ clock' = clock + 1
        /\ UNCHANGED <<log, live, seen, aliveAt, lastStates, call, faults>>
      BY <1>3 DEF TimePasses, engineVars
  <2>2. clock' \in 1..MaxClock /\ clock <= clock' /\ aliveAt' \in 0..clock' /\ aliveAt <= aliveAt'
      BY <1>1, <2>1, BoundsAre DEF RestOK
  <2>3. \A s \in Sessions : \A i \in DOMAIN log[s] : log[s][i].at <= clock'
    <3> SUFFICES ASSUME NEW s \in Sessions, NEW i \in DOMAIN log[s] PROVE log[s][i].at <= clock'
        OBVIOUS
    <3>1. log[s] \in Logs /\ log[s][i].at <= clock
        BY <1>1 DEF RestOK
    <3>2. log[s][i].at \in Int
        BY <3>1, LogsAre
    <3> QED
        BY <1>1, <2>1, <3>1, <3>2 DEF RestOK
  <2>4. RestOK'
      BY <1>1, <2>1, <2>2, <2>3 DEF RestOK
  <2> QED
      BY <2>1, <2>2, <2>4, NoCallKeeps
<1>4. CASE Restart
  <2>1. /\ call' = [c \in Callers |-> Idle] /\ UNCHANGED <<clock, log>> /\ Fault
        /\ live' = {} /\ seen' = [s \in Sessions |-> {}] /\ aliveAt' = 0
        /\ lastStates' = [s \in Sessions |-> "none"]
      BY <1>4 DEF Restart
  <2>2. RestOK'
      BY <1>1, <2>1, BoundsAre DEF RestOK, Recorded, Fault
  <2>3. call' \in [Callers -> CallRecords] /\ \A c \in Callers : call'[c] = Idle
      BY <2>1, IdleIs
  <2>4. \A c \in Callers : CallOK(c)' /\ call'[c].now <= clock'
      BY <1>1, <2>1, <2>3, IdleIs DEF CallOK, RestOK
  <2> QED
      BY <2>2, <2>3, <2>4, IInvIs
<1>5. ASSUME NEW s \in Sessions, Open(s) PROVE IInv'
  <2>1. live' \subseteq Sessions /\ UNCHANGED <<clock, log, seen, aliveAt, lastStates, call, faults>>
      BY <1>1, <1>5 DEF Open, engineVars, RestOK
  <2>2. RestOK' /\ clock <= clock' /\ aliveAt <= aliveAt'
      BY <1>1, <2>1 DEF RestOK
  <2> QED
      BY <2>1, <2>2, NoCallKeeps
<1> QED
    BY <1>2, <1>3, <1>4, <1>5

LEMMA NextKeeps == IInv /\ [Next]_vars => IInv'
<1> SUFFICES ASSUME IInv, [Next]_vars PROVE IInv'
    OBVIOUS
<1>1. CASE UNCHANGED vars
  <2>1. RestOK' <=> RestOK
      BY <1>1 DEF vars, engineVars, RestOK
  <2>2. call' = call /\ clock' = clock /\ aliveAt' = aliveAt
      BY <1>1 DEF vars, engineVars
  <2>3. RestOK /\ clock <= clock' /\ aliveAt <= aliveAt'
      BY <2>2, IInvIs DEF RestOK
  <2> QED
      BY <2>1, <2>2, <2>3, NoCallKeeps
<1>2. CASE \E c \in Callers : List(c) \/ Step(c)
    BY <1>2, ListKeeps, ReadKeeps, FoldKeeps, AnswerKeeps DEF Step
<1> QED
    BY <1>1, <1>2, LogKeeps, WorldKeeps DEF Next

LEMMA Always == Spec => []IInv
BY InitKeeps, NextKeeps, PTL DEF Spec

(* Whatever overlaps, every session a call has folded has one of the       *)
(* states, and what is recorded of it is DONE, FAILED or nothing.          *)
THEOREM TypeCorrect == Spec => []TypeOK
BY Always, PTL DEF IInv

-----------------------------------------------------------------------------
(***************************************************************************)
(* What a fold reports.                                                    *)
(***************************************************************************)
(* A step that folds is Fold, of a log read by a call whose time is not    *)
(* after the last time the engine was seen alive.                          *)
LEMMA FoldsIs ==
    ASSUME IInv, [Next]_vars, NEW c \in Callers, NEW s \in Sessions, Folds(c, s)
    PROVE  /\ call'[c].got[s] = Report(c, s)
           /\ call[c].prev[s] \in {"DONE", "FAILED", "none"}
           /\ call[c].read \in Logs
           /\ call[c].now \in Nat /\ aliveAt \in Nat /\ 1 <= call[c].now /\ call[c].now <= aliveAt
<1>1. RestOK /\ call \in [Callers -> CallRecords] /\ call[c] \in CallRecords /\ CallOK(c)
    BY IInvIs
<1>2. call[c].at = {s} /\ call'[c].pc = "read" /\ call[c].pc = "fold"
    BY <1>1 DEF Folds, CallOK
<1>3. /\ call[c].prev[s] \in {"DONE", "FAILED", "none"}
      /\ call[c].read \in Logs
      /\ call[c].now \in Nat /\ aliveAt \in Nat /\ 1 <= call[c].now /\ call[c].now <= aliveAt
    BY <1>1, <1>2 DEF CallRecords, Recorded, CallOK, RestOK
<1>4. PICK t \in Sessions : Fold(c, t)
  <2>1. call' # call
      BY <1>2
  <2>2. ~(UNCHANGED vars \/ Status \/ (\E t \in Sessions : Open(t) \/ \E type \in Logged : Log(t, type))
          \/ TimePasses)
      BY <2>1, Zenon DEF vars, engineVars, Status, Open, Log, TimePasses
  <2>3. ~Restart
      BY <1>2, IdleIs DEF Restart
  <2>4. ASSUME NEW d \in Callers, List(d) \/ Read(d) \/ Answer(d) PROVE FALSE
    <3>1. CASE List(d)
        BY <1>1, <1>2, <3>1 DEF List
    <3>2. CASE Read(d)
        BY <1>1, <1>2, <3>2 DEF Read
    <3>3. CASE Answer(d)
        BY <1>1, <1>2, <3>3 DEF Answer
    <3> QED
        BY <2>4, <3>1, <3>2, <3>3
  <2>5. PICK d \in Callers, t \in Sessions : Fold(d, t)
      BY <2>2, <2>3, <2>4 DEF Next, Step
  <2>6. d = c
      BY <1>1, <1>2, <2>5 DEF Fold
  <2> QED
      BY <2>5, <2>6
<1>5. t = s
    BY <1>2, <1>4 DEF Fold
<1>6. call'[c].got[s] = Report(c, s)
    BY <1>1, <1>4, <1>5 DEF Fold, CallRecords
<1> QED
    BY <1>3, <1>6

(* A call takes the engine for gone only over a turn its loop left open;   *)
(* otherwise what the log says decides.                                    *)
LEMMA AliveIs ==
    ASSUME NEW c \in Callers, NEW s \in Sessions, call[c].now \in Nat, aliveAt \in Nat,
           1 <= call[c].now, call[c].now <= aliveAt,
           ~(HasOpenTurn(call[c].read) /\ s \notin call[c].live)
    PROVE  /\ Resolve(c, s) # "DISCONNECTED"
           /\ HasPendingApproval(call[c].read) => Resolve(c, s) = "NEEDS_USER"
           /\ ~HasPendingApproval(call[c].read) /\ TerminalFailure(call[c].read) =>
                 Resolve(c, s) = "FAILED"
           /\ ~HasPendingApproval(call[c].read) /\ ~TerminalFailure(call[c].read)
              /\ Completed(call[c].read) => Resolve(c, s) = "DONE"
<1>1. SystemAliveAt(c, s) = aliveAt
    BY DEF SystemAliveAt
<1>2. ~(aliveAt = 0 \/ call[c].now - aliveAt > Ttl)
    BY BoundsAre
<1>3. ~(SystemAliveAt(c, s) = 0 \/ call[c].now - SystemAliveAt(c, s) > Ttl)
    BY <1>1, <1>2
<1>4. Resolve(c, s) # "DISCONNECTED"
    BY <1>3 DEF Resolve
<1>5. HasPendingApproval(call[c].read) => Resolve(c, s) = "NEEDS_USER"
    BY <1>3 DEF Resolve
<1>6. ~HasPendingApproval(call[c].read) /\ TerminalFailure(call[c].read) =>
         Resolve(c, s) = "FAILED"
    BY <1>3 DEF Resolve
<1>7. ~HasPendingApproval(call[c].read) /\ ~TerminalFailure(call[c].read)
      /\ Completed(call[c].read) => Resolve(c, s) = "DONE"
    BY <1>3 DEF Resolve
<1> QED
    BY <1>4, <1>5, <1>6, <1>7

(* However long a session is silent, it is DISCONNECTED only if a turn was *)
(* left open by a loop that is gone.                                       *)
THEOREM SilenceIsNoDeath == Spec => QuietIsConnected
<1> DEFINE Body ==
        \A c \in Callers, s \in Sessions :
           Folds(c, s) /\ call'[c].got[s] = "DISCONNECTED" =>
              HasOpenTurn(call[c].read) /\ s \notin call[c].live
<1>1. IInv /\ [Next]_vars => [Body]_vars
  <2> SUFFICES ASSUME IInv, [Next]_vars, NEW c \in Callers, NEW s \in Sessions,
                      Folds(c, s), call'[c].got[s] = "DISCONNECTED",
                      ~(HasOpenTurn(call[c].read) /\ s \notin call[c].live)
               PROVE  FALSE
      OBVIOUS
  <2>1. /\ Report(c, s) = "DISCONNECTED" /\ call[c].prev[s] \in {"DONE", "FAILED", "none"}
        /\ call[c].now \in Nat /\ aliveAt \in Nat /\ 1 <= call[c].now /\ call[c].now <= aliveAt
      BY FoldsIs
  <2>2. Resolve(c, s) # "DISCONNECTED"
      BY <2>1, AliveIs
  <2> QED
      BY <2>1, <2>2, ReportIn
<1> HIDE DEF Body
<1>2. Spec => [][Body]_vars
    BY <1>1, Always, PTL DEF Spec
<1> QED
    BY <1>2 DEF Body, QuietIsConnected

(* The last progress of a log.                                             *)
LEMMA ProgressAtIs ==
    ASSUME NEW events \in Logs, NEW known, ProgressAt(events, known) # 0
    PROVE  \E i \in DOMAIN events :
              /\ events[i].at = ProgressAt(events, known)
              /\ \/ events[i].type \in Advances
                 \/ /\ events[i].type \in Results
                    /\ \A j \in 1..(i - 1) : events[j].type # events[i].type
<1> DEFINE p == Progress(events, known)
           i == CHOOSE k \in p : \A j \in p : j <= k
<1>1. DOMAIN events = 1..Len(events) /\ Len(events) \in Nat
    BY LogsAre
<1>2. p \subseteq 1..Len(events)
    BY <1>1 DEF Progress
<1>3. p # {} /\ ProgressAt(events, known) = events[i].at
    BY DEF ProgressAt
<1>4. \E k \in p : \A j \in p : j <= k
  <2> HIDE DEF p
  <2> QED
      BY <1>1, <1>2, <1>3, HasLast
<1>5. i \in p
  <2> HIDE DEF p
  <2> QED
      BY <1>4
<1> HIDE DEF i
<1>6. /\ i \in DOMAIN events
      /\ \/ events[i].type \in Advances
         \/ /\ events[i].type \in Results
            /\ \A j \in 1..(i - 1) : events[j].type # events[i].type
    BY <1>5 DEF Progress
<1> QED
    BY <1>3, <1>6

(* RUNNING is earned by something new in the log within the threshold.     *)
THEOREM RunningEarned == Spec => RunningIsEarned
<1> DEFINE Body ==
        \A c \in Callers, s \in Sessions :
           Folds(c, s) /\ call'[c].got[s] = "RUNNING" =>
              NewSince(call[c].read, call[c].now - StaleAfter)
<1>1. IInv /\ [Next]_vars => [Body]_vars
  <2> SUFFICES ASSUME IInv, [Next]_vars, NEW c \in Callers, NEW s \in Sessions,
                      Folds(c, s), call'[c].got[s] = "RUNNING"
               PROVE  NewSince(call[c].read, call[c].now - StaleAfter)
      OBVIOUS
  <2>1. /\ Report(c, s) = "RUNNING" /\ call[c].prev[s] \in {"DONE", "FAILED", "none"}
        /\ call[c].read \in Logs /\ call[c].now \in Nat
      BY FoldsIs
  <2>2. Resolve(c, s) = "RUNNING"
      BY <2>1, ReportIn
  <2> DEFINE last == ProgressAt(call[c].read, seen[s])
  <2>3. ~(last = 0 \/ call[c].now - last > StaleAfter)
      BY <2>2 DEF Resolve
  <2> HIDE DEF last
  <2>4. PICK i \in DOMAIN call[c].read :
            /\ call[c].read[i].at = last
            /\ \/ call[c].read[i].type \in Advances
               \/ /\ call[c].read[i].type \in Results
                  /\ \A j \in 1..(i - 1) : call[c].read[j].type # call[c].read[i].type
      BY <2>1, <2>3, ProgressAtIs DEF last
  <2>5. call[c].read[i].at \in Int
      BY <2>1, LogsAre, SMTT(30)
  <2>6. call[c].read[i].at >= call[c].now - StaleAfter
      BY <2>1, <2>3, <2>4, <2>5, BoundsAre
  <2> QED
      BY <2>4, <2>6, Zenon DEF NewSince
<1> HIDE DEF Body
<1>2. Spec => [][Body]_vars
    BY <1>1, Always, PTL DEF Spec
<1> QED
    BY <1>2 DEF Body, RunningIsEarned

(* A log that ends with the end of a turn has no turn open.                *)
LEMMA EndedIs ==
    ASSUME NEW events \in Logs, NEW kind \in Ends, EndsWith(events, kind)
    PROVE  /\ ~HasOpenTurn(events) /\ ~HasPendingApproval(events)
           /\ \A e \in DOMAIN events : IsLastEnd(events, e) => e = Len(events)
           /\ LastTurnEndKind(events, kind)
           /\ \A other : LastTurnEndKind(events, other) => other = kind
<1> DEFINE n == Len(events)
<1>1. DOMAIN events = 1..n /\ n \in Nat
    BY LogsAre
<1>2. n \in DOMAIN events /\ events[n].type = kind /\ kind # "start" /\ ~HasPendingApproval(events)
  <2>1. events # <<>> /\ events[n].type = kind /\ ~HasPendingApproval(events)
      BY DEF EndsWith
  <2>2. n # 0
      BY <2>1 DEF Logs
  <2> QED
      BY <1>1, <2>1, <2>2 DEF Ends
<1> HIDE DEF n
<1>3. ~HasOpenTurn(events)
  <2> SUFFICES ASSUME NEW i \in DOMAIN events, events[i].type = "start",
                      \A j \in DOMAIN events : j > i => events[j].type \notin Ends
               PROVE  FALSE
      BY Zenon DEF HasOpenTurn
  <2>1. i # n
      BY <1>2
  <2>2. n > i
      BY <1>1, <2>1
  <2> QED
      BY <1>2, <2>2
<1>4. \A e \in DOMAIN events : IsLastEnd(events, e) => e = n
  <2> SUFFICES ASSUME NEW e \in DOMAIN events, IsLastEnd(events, e), e # n PROVE FALSE
      OBVIOUS
  <2>1. n > e
      BY <1>1
  <2> QED
      BY <1>2, <2>1 DEF IsLastEnd
<1>5. IsLastEnd(events, n)
  <2>1. \A j \in DOMAIN events : ~(j > n)
      BY <1>1
  <2> QED
      BY <1>2, <2>1 DEF IsLastEnd
<1> QED
    BY <1>2, <1>3, <1>4, <1>5 DEF LastTurnEndKind, n

(* A question, a failure and an end are reported by every call that reads  *)
(* them, whatever was recorded before and whichever calls overlap.         *)
THEOREM EndReported == Spec => EndIsReported
<1> DEFINE Said(c, s) ==
        LET read == call[c].read IN
        /\ EndsWith(read, "error") => call'[c].got[s] = "FAILED"
        /\ EndsWith(read, "completed") /\ "fail" \notin Fingerprints(read) => call'[c].got[s] = "DONE"
        /\ HasPendingApproval(read) /\ s \in call[c].live => call'[c].got[s] = "NEEDS_USER"
           Body == \A c \in Callers, s \in Sessions : Folds(c, s) => Said(c, s)
<1>1. IInv /\ [Next]_vars => [Body]_vars
  <2> SUFFICES ASSUME IInv, [Next]_vars, NEW c \in Callers, NEW s \in Sessions, Folds(c, s)
               PROVE  Said(c, s)
      OBVIOUS
  <2>1. /\ call'[c].got[s] = Report(c, s) /\ call[c].prev[s] \in {"DONE", "FAILED", "none"}
        /\ call[c].read \in Logs
        /\ call[c].now \in Nat /\ aliveAt \in Nat /\ 1 <= call[c].now /\ call[c].now <= aliveAt
      BY FoldsIs
  <2>2. Resolve(c, s) # "RUNNING" => call'[c].got[s] = Resolve(c, s)
      BY <2>1, ReportIn
  <2>3. ASSUME EndsWith(call[c].read, "error") PROVE call'[c].got[s] = "FAILED"
    <3>1. /\ ~HasOpenTurn(call[c].read) /\ ~HasPendingApproval(call[c].read)
          /\ LastTurnEndKind(call[c].read, "error")
        BY <2>1, <2>3, EndedIs DEF Ends
    <3>2. TerminalFailure(call[c].read)
        BY <3>1 DEF TerminalFailure
    <3> QED
        BY <2>1, <2>2, <3>1, <3>2, AliveIs
  <2>4. ASSUME EndsWith(call[c].read, "completed"), "fail" \notin Fingerprints(call[c].read)
        PROVE  call'[c].got[s] = "DONE"
    <3>1. /\ ~HasOpenTurn(call[c].read) /\ ~HasPendingApproval(call[c].read)
          /\ LastTurnEndKind(call[c].read, "completed") /\ ~LastTurnEndKind(call[c].read, "error")
        BY <2>1, <2>4, EndedIs DEF Ends
    <3>2. ~HasToolErrorInLastTurn(call[c].read)
      <4>1. DOMAIN call[c].read = 1..Len(call[c].read) /\ Len(call[c].read) \in Nat
          BY <2>1, LogsAre
      <4>2. \A e \in DOMAIN call[c].read : \A i \in 1..(e - 1) : i \in DOMAIN call[c].read
          BY <4>1
      <4>3. \A i \in DOMAIN call[c].read : call[c].read[i].type # "fail"
          BY <2>4 DEF Fingerprints, Results
      <4> QED
          BY <4>2, <4>3, Zenon DEF HasToolErrorInLastTurn
    <3>3. ~TerminalFailure(call[c].read) /\ Completed(call[c].read)
        BY <3>1, <3>2 DEF TerminalFailure, Completed
    <3> QED
        BY <2>1, <2>2, <3>1, <3>3, AliveIs
  <2>5. ASSUME HasPendingApproval(call[c].read), s \in call[c].live
        PROVE  call'[c].got[s] = "NEEDS_USER"
      BY <2>1, <2>2, <2>5, AliveIs
  <2> QED
      BY <2>3, <2>4, <2>5, Zenon
<1> HIDE DEF Body
<1>2. Spec => [][Body]_vars
    BY <1>1, Always, PTL DEF Spec
<1> QED
    BY <1>2 DEF Body, EndIsReported
=============================================================================
