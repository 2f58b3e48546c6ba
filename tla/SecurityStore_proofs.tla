------------------------- MODULE SecurityStore_proofs -------------------------
(***************************************************************************)
(* Theorems about the device store, for any number of phones, polls,       *)
(* devices, codes, failures and crashes.                                   *)
(*                                                                         *)
(* The inductive invariant says what the lock is for: between its load and *)
(* its save a call is the holder, and the copy it loaded is still what the *)
(* file holds.                                                             *)
(***************************************************************************)
EXTENDS SecurityStore, TLAPS

Working == {"check", "save"}

(* Past its load, a call holds the lock.                                   *)
LockInv == \A r \in Calls : op[r].pc \in Working \cup {"txt"} => Turn(r)

(* No call outlives the process.                                           *)
DownInv == ~up => \A r \in Calls : op[r].pc = "idle"

(* The holder's copy is the file, and what it checked of it still holds.   *)
CopyInv ==
    \A r \in Calls : op[r].pc \in Working =>
        /\ op[r].copy = disk
        /\ op[r].kind = "pair" => disk.code # NoCode
        /\ op[r].kind = "revoke" => op[r].arg \in disk.paired

(* The live code was minted and paired nobody yet.                         *)
CodeInv ==
    /\ disk.code # NoCode => disk.code \in minted
    /\ \A d \in Devices : granted[d] # NoCode =>
          granted[d] \in minted /\ granted[d] # disk.code

IInv == StoreOK /\ LockInv /\ DownInv /\ CopyInv

storeVars == <<disk, minted, granted, revoked>>

-----------------------------------------------------------------------------
(* Init establishes the types and the lock's invariants.                   *)
LEMMA InitOK == Init => IInv
<1> SUFFICES ASSUME Init PROVE IInv
    OBVIOUS
<1>1. Idle \in Ops
    BY SMT DEF Idle, Ops, Empty, Stores, Kinds, Args
<1>2. Idle.pc = "idle"
    BY DEF Idle
<1>3. StoreOK
  <2>1. disk \in Stores
      BY DEF Init, Empty, Stores
  <2>2. queue \in Seq(Calls) /\ op \in [Calls -> Ops]
      BY <1>1, SMT DEF Init
  <2> QED
      BY <2>1, <2>2 DEF Init, StoreOK
<1>4. \A r \in Calls : op[r].pc = "idle"
    BY <1>2 DEF Init
<1> QED
    BY <1>3, <1>4, SMT DEF IInv, LockInv, DownInv, CopyInv, Working

(* What chaining a call on the lock does to the queue and the calls.       *)
LEMMA EnqueueOK ==
    ASSUME StoreOK, LockInv,
           NEW r \in Calls, NEW kind \in Kinds, NEW arg \in Args,
           Enqueue(r, kind, arg)
    PROVE  /\ queue' \in Seq(Calls) /\ op' \in [Calls -> Ops]
           /\ LockInv'
           /\ \A s \in Calls : op'[s].pc \in Working => op'[s] = op[s]
<1> DEFINE new == [pc |-> "queued", kind |-> kind, arg |-> arg,
                   copy |-> Empty, line |-> NoCode]
<1>1. new \in Ops /\ new.pc = "queued"
  <2>1. Empty \in Stores
      BY DEF Empty, Stores
  <2> QED
      BY <2>1 DEF Ops
<1> HIDE DEF new
<1>2. op' = [op EXCEPT ![r] = new] /\ queue' = Append(queue, r)
    BY DEF Enqueue, new
<1>3. queue' \in Seq(Calls) /\ op' \in [Calls -> Ops]
    BY <1>1, <1>2, SMT DEF StoreOK
<1>4. \A s \in Calls : op'[s].pc \in Working \cup {"txt"} => s # r /\ op'[s] = op[s]
    BY <1>1, <1>2, SMT DEF StoreOK, Working
<1>5. \A s \in Calls : Turn(s) => Turn(s)'
  <2>1. \A q \in Seq(Calls) : q # <<>> => Append(q, r) # <<>> /\ Head(Append(q, r)) = Head(q)
      OBVIOUS
  <2> QED
      BY <1>2, <2>1, Zenon DEF StoreOK, Turn
<1> QED
    BY <1>3, <1>4, <1>5 DEF LockInv, Working

(* What letting go of the lock does.                                       *)
LEMMA FinishOK ==
    ASSUME StoreOK, LockInv, NEW r \in Calls, Turn(r), Finish(r)
    PROVE  /\ queue' \in Seq(Calls) /\ op' \in [Calls -> Ops]
           /\ LockInv'
           /\ \A s \in Calls : op'[s].pc \notin Working \cup {"txt"}
<1>1. Idle \in Ops /\ Idle.pc = "idle"
    BY SMT DEF Idle, Ops, Empty, Stores, Kinds, Args
<1>2. op' = [op EXCEPT ![r] = Idle]
    BY DEF Finish
<1>3. queue' \in Seq(Calls) /\ op' \in [Calls -> Ops]
  <2>1. queue' \in Seq(Calls)
      BY SMT DEF StoreOK, Finish, Turn
  <2>2. op' \in [Calls -> Ops]
      BY <1>1, <1>2 DEF StoreOK
  <2> QED
      BY <2>1, <2>2
<1>4. \A s \in Calls : op'[s].pc \notin Working \cup {"txt"}
  <2> SUFFICES ASSUME NEW s \in Calls PROVE op'[s].pc \notin Working \cup {"txt"}
      OBVIOUS
  <2>1. CASE s = r
      BY <2>1, <1>1, <1>2, SMT DEF StoreOK, Working
  <2>2. CASE s # r
    <3>1. ~Turn(s)
        BY <2>2 DEF Turn
    <3>2. op'[s] = op[s]
        BY <2>2, <1>2 DEF StoreOK
    <3> QED
        BY <3>1, <3>2 DEF LockInv
  <2> QED
      BY <2>1, <2>2
<1> QED
    BY <1>3, <1>4 DEF LockInv

(* What moving on while holding the lock does.                             *)
LEMMA AdvanceOK ==
    ASSUME StoreOK, LockInv, NEW r \in Calls, Turn(r), UNCHANGED queue,
           NEW o \in Ops, op' = [op EXCEPT ![r] = o]
    PROVE  /\ queue' \in Seq(Calls) /\ op' \in [Calls -> Ops]
           /\ LockInv'
           /\ \A s \in Calls : op'[s].pc \in Working => s = r
<1>1. queue' \in Seq(Calls) /\ op' \in [Calls -> Ops]
    BY DEF StoreOK
<1>2. \A s \in Calls : s # r => ~Turn(s) /\ op'[s] = op[s]
    BY DEF StoreOK, Turn
<1>3. Turn(r)' /\ \A s \in Calls : Turn(s)' <=> Turn(s)
    BY DEF Turn
<1> QED
    BY <1>1, <1>2, <1>3 DEF LockInv, Working

-----------------------------------------------------------------------------
(* A call that is chained on the lock touches no file.                     *)
LEMMA CallStep ==
    ASSUME IInv,
           StartUp \/ (\E r \in Phones : PhoneCalls(r)) \/ (\E r \in Pollers : Poll(r))
    PROVE  IInv' /\ UNCHANGED storeVars
<1>1. \E r \in Calls, kind \in Kinds, arg \in Args : Enqueue(r, kind, arg)
  <2>1. CASE StartUp
      BY <2>1 DEF StartUp, Calls, Kinds, Args
  <2>2. CASE \E r \in Phones : PhoneCalls(r)
    <3>1. PICK r \in Phones : PhoneCalls(r)
        BY <2>2
    <3>2. r \in Calls /\ minted \subseteq Args /\ Devices \subseteq Args /\ NoCode \in Args
        BY DEF Calls, IInv, StoreOK, Args
    <3>3. {"pair", "verify", "revoke", "list", "revokeAll"} \subseteq Kinds
        BY DEF Kinds
    <3> QED
        BY <3>1, <3>2, <3>3 DEF PhoneCalls, Call
  <2>3. CASE \E r \in Pollers : Poll(r)
      BY <2>3 DEF Poll, Calls, Kinds, Args
  <2> QED
      BY <2>1, <2>2, <2>3
<1>2. /\ queue' \in Seq(Calls) /\ op' \in [Calls -> Ops]
      /\ LockInv'
      /\ \A s \in Calls : op'[s].pc \in Working => op'[s] = op[s]
    BY <1>1, EnqueueOK DEF IInv
<1>3. UNCHANGED <<disk, txt, lapsed, minted, granted, revoked>>
    BY DEF StartUp, PhoneCalls, Call, Poll, fileVars, histVars
<1>4. up'
    BY DEF StartUp, PhoneCalls, Call, Poll
<1>5. StoreOK'
    BY <1>2, <1>3 DEF IInv, StoreOK
<1>6. CopyInv'
    BY <1>2, <1>3 DEF IInv, CopyInv
<1> QED
    BY <1>2, <1>3, <1>4, <1>5, <1>6 DEF IInv, DownInv, storeVars

(* No step of a call is taken while the process is down.                   *)
LEMMA StepsUp ==
    ASSUME IInv, NEW r \in Calls, op[r].pc # "idle"
    PROVE  up
BY DEF IInv, DownInv

(* The holder's steps that leave the store alone.                          *)
LEMMA HolderStep ==
    ASSUME IInv, NEW r \in Calls,
           Load(r) \/ LoadFails(r) \/ CheckTxt(r) \/ SaveFails(r) \/ WriteTxt(r)
    PROVE  IInv' /\ UNCHANGED storeVars
<1>1. UNCHANGED <<disk, lapsed, minted, granted, revoked, up>>
    BY DEF Load, LoadFails, CheckTxt, SaveFails, WriteTxt, fileVars, histVars
<1>2. txt' \in Codes \cup {NoCode, Consumed}
  <2>1. op[r].line \in Codes \cup {NoCode, Consumed}
      BY DEF IInv, StoreOK, Ops
  <2> QED
      BY <2>1 DEF Load, LoadFails, CheckTxt, SaveFails, WriteTxt, fileVars, IInv, StoreOK
<1>3. Turn(r) /\ op[r].pc # "idle"
    BY DEF Load, LoadFails, CheckTxt, SaveFails, WriteTxt
<1>4. up'
    BY <1>1, <1>3, StepsUp
<1>5. CASE Finish(r)
  <2>1. /\ queue' \in Seq(Calls) /\ op' \in [Calls -> Ops]
        /\ LockInv'
        /\ \A s \in Calls : op'[s].pc \notin Working \cup {"txt"}
      BY <1>3, <1>5, FinishOK DEF IInv
  <2> QED
      BY <1>1, <1>2, <1>4, <2>1 DEF IInv, StoreOK, DownInv, CopyInv, storeVars
<1>6. CASE Load(r) /\ ~Finish(r)
  <2>1. PICK pc \in Working : op' = [op EXCEPT ![r].copy = disk, ![r].pc = pc]
      BY <1>6 DEF Load, Working
  <2>2. ~Refused(op[r], disk) /\ UNCHANGED queue
      BY <1>6 DEF Load
  <2> DEFINE o == [op[r] EXCEPT !.copy = disk, !.pc = pc]
  <2>3. o \in Ops /\ o.copy = disk /\ o.kind = op[r].kind /\ o.arg = op[r].arg
    <3>1. op[r] \in Ops /\ disk \in Stores
        BY DEF IInv, StoreOK
    <3>2. pc \in {"check", "save"}
        BY DEF Working
    <3> QED
        BY <3>1, <3>2 DEF Ops
  <2>4. op' = [op EXCEPT ![r] = o]
      BY <2>1
  <2> HIDE DEF o
  <2>5. /\ queue' \in Seq(Calls) /\ op' \in [Calls -> Ops]
        /\ LockInv'
        /\ \A s \in Calls : op'[s].pc \in Working => s = r
      BY <1>3, <2>2, <2>3, <2>4, AdvanceOK DEF IInv
  <2>6. op'[r] = o
      BY <2>4 DEF IInv, StoreOK
  <2>7. /\ o.kind = "pair" => disk.code # NoCode
        /\ o.kind = "revoke" => o.arg \in disk.paired
      BY <2>2, <2>3 DEF Refused
  <2>8. CopyInv'
      BY <1>1, <2>3, <2>5, <2>6, <2>7 DEF CopyInv
  <2> QED
      BY <1>1, <1>2, <1>4, <2>5, <2>8 DEF IInv, StoreOK, DownInv, storeVars
<1>7. CASE CheckTxt(r) /\ ~Finish(r)
  <2>1. op' = [op EXCEPT ![r].pc = "save"] /\ UNCHANGED queue /\ op[r].pc = "check"
      BY <1>7 DEF CheckTxt
  <2> DEFINE o == [op[r] EXCEPT !.pc = "save"]
  <2>2. o \in Ops /\ o.copy = op[r].copy /\ o.kind = op[r].kind /\ o.arg = op[r].arg
      BY SMTT(30) DEF IInv, StoreOK, Ops
  <2>3. op' = [op EXCEPT ![r] = o]
      BY <2>1
  <2> HIDE DEF o
  <2>4. /\ queue' \in Seq(Calls) /\ op' \in [Calls -> Ops]
        /\ LockInv'
        /\ \A s \in Calls : op'[s].pc \in Working => s = r
      BY <1>3, <2>1, <2>2, <2>3, AdvanceOK DEF IInv
  <2>5. op'[r] = o
      BY <2>3 DEF IInv, StoreOK
  <2>6. CopyInv'
      BY <1>1, <2>1, <2>2, <2>4, <2>5 DEF IInv, CopyInv, Working
  <2> QED
      BY <1>1, <1>2, <1>4, <2>4, <2>6 DEF IInv, StoreOK, DownInv, storeVars
<1> QED
    BY <1>5, <1>6, <1>7 DEF Load, LoadFails, CheckTxt, SaveFails, WriteTxt

(* What happens around the store.                                          *)
World ==
    Lapse \/ Crash \/ ShutDown \/ AskRotation \/ LoseTxt \/ Damage \/ Repair

LEMMA WorldStep == ASSUME IInv, World PROVE IInv' /\ UNCHANGED storeVars
<1>1. UNCHANGED storeVars
    BY DEF World, Lapse, Crash, ShutDown, AskRotation, LoseTxt, Damage, Repair,
           fileVars, histVars, storeVars
<1>2. disk.code # NoCode => disk.code \in Codes
    BY DEF IInv, StoreOK, Stores
<1>3. lapsed' \subseteq Codes
    BY <1>2 DEF IInv, StoreOK, World, Lapse, Crash, ShutDown, AskRotation, LoseTxt, Damage, Repair
<1>4. txt' \in Codes \cup {NoCode, Consumed}
    BY DEF IInv, StoreOK, World, Lapse, Crash, ShutDown, AskRotation, LoseTxt, Damage, Repair,
           fileVars
<1>5. CASE Crash \/ ShutDown
  <2>1. \A r \in Calls : op'[r].pc = "idle"
      BY <1>5 DEF Crash, ShutDown, Idle
  <2>2. queue' \in Seq(Calls) /\ op' \in [Calls -> Ops]
    <3>1. Idle \in Ops
        BY SMT DEF Idle, Ops, Empty, Stores, Kinds, Args
    <3>2. CASE Crash
        BY <3>1, <3>2 DEF Crash
    <3>3. CASE ShutDown
        BY <3>3 DEF ShutDown, IInv, StoreOK
    <3> QED
        BY <1>5, <3>2, <3>3
  <2> QED
      BY <1>1, <1>3, <1>4, <2>1, <2>2 DEF IInv, StoreOK, LockInv, DownInv, CopyInv, Working, storeVars
<1>6. CASE ~Crash /\ ~ShutDown
  <2>1. UNCHANGED <<queue, op, up>>
      BY <1>6 DEF World, Lapse, AskRotation, LoseTxt, Damage, Repair
  <2> QED
      BY <1>1, <1>3, <1>4, <2>1 DEF IInv, StoreOK, LockInv, DownInv, CopyInv, Turn, storeVars
<1> QED
    BY <1>5, <1>6

(* The user's edit happens while no call is in flight.                     *)
LEMMA EditStep == ASSUME IInv, Edit PROVE IInv' /\ Service!SetAdmin(disk'.admin)
<1>1. PICK admins \in SUBSET disk.paired : disk' = [disk EXCEPT !.admin = admins]
    BY DEF Edit
<1>2. \A r \in Calls : op[r].pc = "idle"
    BY DEF Edit, IInv, DownInv
<1>3. disk' \in Stores /\ disk'.admin = admins
    BY <1>1, SMTT(30) DEF IInv, StoreOK, Stores
<1>4. UNCHANGED <<up, txt, lapsed, queue, op, minted, granted, revoked>>
    BY DEF Edit, histVars
<1>5. IInv'
    BY <1>2, <1>3, <1>4 DEF IInv, StoreOK, LockInv, DownInv, CopyInv, Working
<1> QED
    BY <1>1, <1>3, <1>4, <1>5 DEF Service!SetAdmin

(* What a save leaves of the calls, whichever operation it ends.           *)
LEMMA AfterSave ==
    ASSUME IInv, NEW r \in Calls, Turn(r),
           Finish(r) \/ \E line \in Codes \cup {Consumed} : ThenTxt(r, line)
    PROVE  /\ queue' \in Seq(Calls) /\ op' \in [Calls -> Ops]
           /\ LockInv'
           /\ \A s \in Calls : op'[s].pc \notin Working
<1>1. CASE Finish(r)
    BY <1>1, FinishOK DEF IInv
<1>2. CASE \E line \in Codes \cup {Consumed} : ThenTxt(r, line)
  <2>1. PICK line \in Codes \cup {Consumed} : ThenTxt(r, line)
      BY <1>2
  <2> DEFINE o == [op[r] EXCEPT !.pc = "txt", !.line = line]
  <2>2. o \in Ops /\ o.pc = "txt"
    <3>1. op[r] \in Ops
        BY DEF IInv, StoreOK
    <3> QED
        BY <3>1 DEF Ops
  <2>3. op' = [op EXCEPT ![r] = o] /\ UNCHANGED queue
      BY <2>1 DEF ThenTxt
  <2> HIDE DEF o
  <2>4. /\ queue' \in Seq(Calls) /\ op' \in [Calls -> Ops]
        /\ LockInv'
        /\ \A s \in Calls : op'[s].pc \in Working => s = r
      BY <2>2, <2>3, AdvanceOK DEF IInv
  <2>5. op'[r] = o
      BY <2>3 DEF IInv, StoreOK
  <2> QED
      BY <2>2, <2>4, <2>5 DEF Working
<1> QED
    BY <1>1, <1>2

(* A save is one of the service's operations, done on the store as it is.  *)
LEMMA SaveStep ==
    ASSUME IInv, NEW r \in Calls, Save(r)
    PROVE  IInv' /\ (Service!Next \/ UNCHANGED storeVars)
<1>1. /\ op[r].copy = disk /\ Turn(r)
      /\ op[r].kind = "pair" => disk.code # NoCode
      /\ op[r].kind = "revoke" => op[r].arg \in disk.paired
    BY DEF IInv, CopyInv, Save, Working
<1>2. disk \in Stores /\ granted \in [Devices -> Codes \cup {NoCode}]
    BY DEF IInv, StoreOK
<1>3. /\ Finish(r) \/ \E line \in Codes \cup {Consumed} : ThenTxt(r, line)
      /\ UNCHANGED <<up, txt, lapsed>>
    BY DEF Save, SaveCode, SaveDevice, SaveSeen, SaveRevoked, SaveNone
<1>4. /\ disk' \in Stores /\ minted' \subseteq Codes /\ revoked' \subseteq Devices
      /\ granted' \in [Devices -> Codes \cup {NoCode}]
      /\ Service!Next \/ UNCHANGED storeVars
  <2>1. CASE \E c \in Codes : SaveCode(r, c)
    <3>1. PICK c \in Codes : SaveCode(r, c)
        BY <2>1
    <3>2. disk' = [disk EXCEPT !.code = c] /\ disk' \in Stores
        BY <1>1, <1>2, <3>1, SMT DEF SaveCode, Replace, Stores
    <3>3. Service!Mint(c)
        BY <3>1, <3>2 DEF SaveCode, Service!Mint
    <3> QED
        BY <3>1, <3>2, <3>3 DEF SaveCode, Service!Next, IInv, StoreOK
  <2>2. CASE \E d \in Devices : SaveDevice(r, d)
    <3>1. PICK d \in Devices : SaveDevice(r, d)
        BY <2>2
    <3>2. /\ disk' = [disk EXCEPT !.paired = @ \cup {d}, !.code = NoCode]
          /\ disk' \in Stores
        BY <1>1, <1>2, <3>1 DEF SaveDevice, Replace, Stores
    <3>3. disk.code # NoCode /\ disk.code \in Codes
        BY <1>1, <1>2, <3>1 DEF SaveDevice, Stores
    <3>4. Service!Grant(d)
        BY <1>1, <3>1, <3>2, <3>3 DEF SaveDevice, Service!Grant
    <3> QED
        BY <1>2, <3>1, <3>2, <3>3, <3>4 DEF Service!Grant, Service!Next, IInv, StoreOK
  <2>3. CASE SaveSeen(r)
      BY <1>1, <1>2, <2>3 DEF SaveSeen, Replace, histVars, storeVars, IInv, StoreOK
  <2>4. CASE SaveRevoked(r)
    <3>1. op[r].arg \in disk.paired /\ op[r].arg \in Devices
        BY <1>1, <1>2, <2>4 DEF SaveRevoked, Stores
    <3>2. /\ disk' = [disk EXCEPT !.paired = @ \ {op[r].arg}, !.admin = @ \ {op[r].arg}]
          /\ disk' \in Stores
        BY <1>1, <1>2, <2>4 DEF SaveRevoked, Replace, Stores
    <3>3. Service!Revoke(op[r].arg)
        BY <2>4, <3>1, <3>2 DEF SaveRevoked, Service!Revoke
    <3> QED
        BY <2>4, <3>1, <3>2, <3>3 DEF SaveRevoked, Service!Next, IInv, StoreOK
  <2>5. CASE SaveNone(r)
    <3>1. disk' = Empty /\ disk' \in Stores
        BY <2>5, SMT DEF SaveNone, Replace, Empty, Stores
    <3>2. disk.paired \subseteq Devices
        BY <1>2 DEF Stores
    <3>3. Service!RevokeAll
        BY <1>1, <2>5, <3>1 DEF SaveNone, Service!RevokeAll, Empty
    <3> QED
        BY <1>1, <2>5, <3>1, <3>2, <3>3 DEF SaveNone, Service!Next, IInv, StoreOK
  <2> QED
      BY <2>1, <2>2, <2>3, <2>4, <2>5 DEF Save
<1>5. /\ queue' \in Seq(Calls) /\ op' \in [Calls -> Ops]
      /\ LockInv'
      /\ \A s \in Calls : op'[s].pc \notin Working
    BY <1>1, <1>3, AfterSave
<1>6. up'
  <2>1. op[r].pc # "idle"
      BY DEF Save
  <2> QED
      BY <1>3, <2>1, StepsUp
<1>7. StoreOK'
    BY <1>3, <1>4, <1>5 DEF IInv, StoreOK
<1> QED
    BY <1>4, <1>5, <1>6, <1>7 DEF IInv, DownInv, CopyInv

-----------------------------------------------------------------------------
(* Every step keeps the invariant and is a step of the service.            *)
LEMMA NextStep ==
    ASSUME IInv, [Next]_vars
    PROVE  IInv' /\ [Service!Next]_storeVars
<1>1. CASE UNCHANGED vars
    BY <1>1 DEF vars, fileVars, histVars, storeVars, IInv, StoreOK, LockInv, DownInv, CopyInv, Turn
<1>2. CASE StartUp \/ (\E r \in Phones : PhoneCalls(r)) \/ (\E r \in Pollers : Poll(r))
    BY <1>2, CallStep
<1>3. CASE \E r \in Calls : Step(r)
    BY <1>3, HolderStep, SaveStep DEF Step
<1>4. CASE World
    BY <1>4, WorldStep
<1>5. CASE Edit
  <2>1. disk'.admin \in SUBSET Devices
    <3>1. IInv'
        BY <1>5, EditStep
    <3> QED
        BY <3>1 DEF IInv, StoreOK, Stores
  <2> QED
      BY <1>5, <2>1, EditStep DEF Service!Next
<1> QED
    BY <1>1, <1>2, <1>3, <1>4, <1>5 DEF Next, World

(* The lock's invariant holds for every instance.                          *)
THEOREM LockHolds == Spec => []IInv
<1>1. IInv /\ [Next]_vars => IInv'
    BY NextStep
<1> QED
    BY <1>1, InitOK, PTL DEF Spec

(* Type correctness.                                                       *)
THEOREM TypeCorrect == Spec => []TypeOK
<1>1. Init => FlagsOK /\ CountersOK
  <2>1. Init => FlagsOK
      BY Zenon DEF Init, FlagsOK
  <2>2. Init => CountersOK
      BY DEF Init, CountersOK
  <2> QED
      BY <2>1, <2>2
<1>2. FlagsOK /\ [Next]_vars => FlagsOK'
  <2> SUFFICES ASSUME FlagsOK, [Next]_vars PROVE FlagsOK'
      OBVIOUS
  <2>1. CASE UNCHANGED vars
      BY <2>1 DEF vars, fileVars, FlagsOK
  <2>2. CASE StartUp \/ (\E r \in Phones : PhoneCalls(r)) \/ (\E r \in Pollers : Poll(r))
      BY <2>2, Zenon DEF StartUp, PhoneCalls, Call, Poll, fileVars, FlagsOK
  <2>3. CASE \E r \in Calls : Step(r)
      BY <2>3, Zenon DEF Step, Load, LoadFails, CheckTxt, Save, SaveCode, SaveDevice, SaveSeen,
         SaveRevoked, SaveNone, Replace, SaveFails, WriteTxt, fileVars, FlagsOK
  <2>4. CASE World \/ Edit
      BY <2>4, Zenon DEF World, Lapse, Crash, ShutDown, AskRotation, LoseTxt, Damage, Repair,
         Edit, fileVars, FlagsOK
  <2> QED
      BY <2>1, <2>2, <2>3, <2>4 DEF Next, World
<1>3. CountersOK /\ [Next]_vars => CountersOK'
  <2> SUFFICES ASSUME CountersOK, [Next]_vars PROVE CountersOK'
      OBVIOUS
  <2>1. UNCHANGED faults \/ faults' = faults + 1
      BY DEF vars, Next, StartUp, PhoneCalls, Call, Poll, Step, Load, LoadFails, CheckTxt, Save,
         SaveFails, WriteTxt, Lapse, Crash, ShutDown, AskRotation, Edit, LoseTxt, Damage,
         Repair, Fault
  <2>2. UNCHANGED rotations \/ rotations' = rotations + 1
      BY DEF vars, Next, StartUp, PhoneCalls, Call, Poll, Step, Load, LoadFails, CheckTxt, Save,
         SaveFails, WriteTxt, Lapse, Crash, ShutDown, AskRotation, Edit, LoseTxt, Damage,
         Repair
  <2> QED
      BY <2>1, <2>2 DEF CountersOK
<1>4. FlagsOK /\ CountersOK /\ IInv => TypeOK
    BY DEF IInv, TypeOK
<1> QED
    BY <1>1, <1>2, <1>3, <1>4, LockHolds, PTL DEF Spec

(* The store of security.js, with its lock, its two files and its crashes, *)
(* implements the atomic pairing service.                                  *)
THEOREM StoreImplementsService == Spec => ServiceImplemented
<1>1. Init => Service!Init
    BY DEF Init, Service!Init, Empty
<1>2. IInv /\ [Next]_vars => [Service!Next]_(Service!vars)
    BY NextStep DEF storeVars, Service!vars
<1> QED
    BY <1>1, <1>2, LockHolds, PTL DEF Spec, ServiceImplemented, Service!Spec

-----------------------------------------------------------------------------
(* What the service keeps: the live code paired nobody yet, a code pairs   *)
(* one device, the store holds who was paired and not revoked.             *)
Promise ==
    /\ CodeInv
    /\ SingleUse
    /\ StoreExact
    /\ \A d \in revoked : granted[d] # NoCode

LEMMA PromiseStep ==
    ASSUME IInv, Promise, [Service!Next]_storeVars
    PROVE  Promise'
<1>1. /\ disk \in Stores /\ granted \in [Devices -> Codes \cup {NoCode}]
      /\ minted \subseteq Codes /\ revoked \subseteq Devices
    BY DEF IInv, StoreOK
<1>2. CASE UNCHANGED storeVars
    BY <1>2 DEF storeVars, Promise, CodeInv, SingleUse, StoreExact
<1>3. ASSUME NEW c \in Codes, Service!Mint(c) PROVE Promise'
  <2>1. /\ c \notin minted /\ minted' = minted \cup {c}
        /\ disk'.code = c /\ disk'.paired = disk.paired
        /\ UNCHANGED <<granted, revoked>>
      BY <1>1, <1>3 DEF Service!Mint, Stores
  <2> QED
      BY <2>1, CodesAssumption DEF Promise, CodeInv, SingleUse, StoreExact
<1>4. ASSUME NEW d \in Devices, Service!Grant(d) PROVE Promise'
  <2>1. /\ disk.code # NoCode /\ granted[d] = NoCode
        /\ granted' = [granted EXCEPT ![d] = disk.code]
        /\ disk'.code = NoCode /\ disk'.paired = disk.paired \cup {d}
        /\ UNCHANGED <<minted, revoked>>
      BY <1>1, <1>4 DEF Service!Grant, Stores
  <2>2. /\ granted'[d] = disk.code
        /\ \A e \in Devices : e # d => granted'[e] = granted[e]
      BY <1>1, <2>1
  <2>3. d \notin revoked
      BY <2>1 DEF Promise
  <2>4. CodeInv' /\ SingleUse'
      BY <2>1, <2>2 DEF Promise, CodeInv, SingleUse
  <2>5. StoreExact'
      BY <1>1, <2>1, <2>2, <2>3 DEF Promise, StoreExact
  <2>6. \A e \in revoked' : granted'[e] # NoCode
      BY <1>1, <2>1, <2>2 DEF Promise
  <2> QED
      BY <2>4, <2>5, <2>6 DEF Promise
<1>5. ASSUME NEW d \in Devices, Service!Revoke(d) PROVE Promise'
  <2>1. /\ d \in disk.paired /\ disk'.paired = disk.paired \ {d}
        /\ disk'.code = disk.code /\ revoked' = revoked \cup {d}
        /\ UNCHANGED <<minted, granted>>
      BY <1>1, <1>5 DEF Service!Revoke, Stores
  <2> QED
      BY <1>1, <2>1 DEF Promise, CodeInv, SingleUse, StoreExact
<1>6. ASSUME Service!RevokeAll PROVE Promise'
  <2>1. /\ disk'.paired = {} /\ disk'.code = NoCode
        /\ revoked' = revoked \cup disk.paired
        /\ UNCHANGED <<minted, granted>>
      BY <1>6 DEF Service!RevokeAll
  <2> QED
      BY <1>1, <2>1 DEF Promise, CodeInv, SingleUse, StoreExact
<1>7. ASSUME NEW admins \in SUBSET Devices, Service!SetAdmin(admins) PROVE Promise'
  <2>1. /\ disk'.paired = disk.paired /\ disk'.code = disk.code
        /\ UNCHANGED <<minted, granted, revoked>>
      BY <1>1, <1>7 DEF Service!SetAdmin, Stores
  <2> QED
      BY <2>1 DEF Promise, CodeInv, SingleUse, StoreExact
<1> QED
    BY <1>2, <1>3, <1>4, <1>5, <1>6, <1>7 DEF Service!Next

THEOREM PromiseKept == Spec => []Promise
<1>1. Init => Promise
    BY DEF Init, Empty, Promise, CodeInv, SingleUse, StoreExact
<1>2. IInv /\ Promise /\ [Next]_vars => Promise'
    BY NextStep, PromiseStep
<1> QED
    BY <1>1, <1>2, LockHolds, PTL DEF Spec

(* A pairing code pairs at most one device, in every instance.             *)
THEOREM CodesAreSingleUse == Spec => []SingleUse
<1>1. Promise => SingleUse
    BY DEF Promise
<1> QED
    BY <1>1, PromiseKept, PTL

(* No pairing and no revocation is ever lost or undone.                    *)
THEOREM NoLostUpdate == Spec => []StoreExact
<1>1. Promise => StoreExact
    BY DEF Promise
<1> QED
    BY <1>1, PromiseKept, PTL

-----------------------------------------------------------------------------
(***************************************************************************)
(* The pairing text.  Whoever is about to write it holds the lock, and a   *)
(* code it will write is the live one; while nothing failed and nobody is  *)
(* about to write it, a code it shows is the live one.                     *)
(***************************************************************************)
LineOK(o) ==
    o.pc = "txt" => IF o.kind \in {"ensure", "rotate"}
                    THEN o.line = disk.code /\ o.line \in Codes \ lapsed
                    ELSE o.line = Consumed

CheckOK(o) == o.pc = "check" => o.kind = "ensure" /\ o.copy.code \in Codes \ lapsed

ShownInv ==
    faults = 0 /\ (\A r \in Calls : op[r].pc # "txt") /\ txt \in Codes => txt = disk.code

TextInv ==
    /\ \A r \in Calls : LineOK(op[r]) /\ CheckOK(op[r])
    /\ op[Boot].pc # "idle" => op[Boot].kind = "ensure"
    /\ lapsed \subseteq minted
    /\ ShownInv

(* The lock's holder is alone past its load.                               *)
LEMMA HolderMoves ==
    ASSUME IInv, NEW r \in Calls, Turn(r), NEW o, op' = [op EXCEPT ![r] = o]
    PROVE  /\ op'[r] = o
           /\ \A s \in Calls : s # r => op'[s] = op[s] /\ op[s].pc \notin Working \cup {"txt"}
<1>1. op'[r] = o /\ \A s \in Calls : s # r => op'[s] = op[s]
    BY DEF IInv, StoreOK
<1>2. \A s \in Calls : s # r => ~Turn(s)
    BY DEF Turn
<1> QED
    BY <1>1, <1>2 DEF IInv, LockInv

(* A holder's step is judged by what becomes of the holder.                *)
LEMMA HolderKeepsText ==
    ASSUME IInv, TextInv, NEW r \in Calls, Turn(r), NEW o, op' = [op EXCEPT ![r] = o],
           LineOK(o)', CheckOK(o)', o.pc # "idle" => o.kind = op[r].kind /\ op[r].pc # "idle",
           lapsed' \subseteq minted', ShownInv'
    PROVE  TextInv'
<1>1. /\ op'[r] = o
      /\ \A s \in Calls : s # r => op'[s] = op[s] /\ op[s].pc \notin Working \cup {"txt"}
    BY HolderMoves
<1>2. \A s \in Calls : LineOK(op[s])' /\ CheckOK(op[s])'
    BY <1>1 DEF LineOK, CheckOK, Working
<1>3. op'[Boot].pc # "idle" => op'[Boot].kind = "ensure"
    BY <1>1 DEF TextInv, Calls
<1> QED
    BY <1>2, <1>3 DEF TextInv

LEMMA CallKeepsText ==
    ASSUME IInv, TypeOK, TypeOK', TextInv,
           StartUp \/ (\E r \in Phones : PhoneCalls(r)) \/ (\E r \in Pollers : Poll(r))
    PROVE  TextInv'
<1>1. UNCHANGED <<disk, txt, lapsed, minted>> /\ faults' \in {faults, faults + 1}
    BY DEF StartUp, PhoneCalls, Call, Poll, Fault, fileVars, histVars
<1>2. \E r \in Calls : \E kind, arg : Enqueue(r, kind, arg) /\ (r = Boot => kind = "ensure")
  <2>1. CASE StartUp
      BY <2>1 DEF StartUp, Calls
  <2>2. CASE \E r \in Phones : PhoneCalls(r)
      BY <2>2, CallsAssumption, Zenon DEF PhoneCalls, Call, Calls
  <2>3. CASE \E r \in Pollers : Poll(r)
      BY <2>3, CallsAssumption DEF Poll, Calls
  <2> QED
      BY <2>1, <2>2, <2>3
<1>3. PICK r \in Calls : \E kind, arg : Enqueue(r, kind, arg) /\ (r = Boot => kind = "ensure")
    BY <1>2
<1>4. PICK kind, arg : Enqueue(r, kind, arg) /\ (r = Boot => kind = "ensure")
    BY <1>3
<1>5. /\ op'[r].pc = "queued" /\ op'[r].kind = kind /\ op[r].pc = "idle"
      /\ \A s \in Calls : s # r => op'[s] = op[s]
    BY <1>4 DEF Enqueue, IInv, StoreOK
<1>6. \A s \in Calls : LineOK(op[s])' /\ CheckOK(op[s])'
    BY <1>1, <1>5 DEF TextInv, LineOK, CheckOK
<1>7. op'[Boot].pc # "idle" => op'[Boot].kind = "ensure"
    BY <1>4, <1>5 DEF TextInv, Calls
<1>8. ShownInv'
  <2>1. faults' = 0 => faults = 0
      BY <1>1 DEF TypeOK, CountersOK
  <2>2. \A s \in Calls : op'[s].pc # "txt" => op[s].pc # "txt"
      BY <1>5
  <2> QED
      BY <1>1, <2>1, <2>2 DEF TextInv, ShownInv
<1> QED
    BY <1>1, <1>6, <1>7, <1>8 DEF TextInv

LEMMA StepKeepsText ==
    ASSUME IInv, CodeInv, TypeOK, TypeOK', TextInv, NEW r \in Calls, Step(r)
    PROVE  TextInv'
<1>1. Turn(r) /\ op[r].pc # "idle"
    BY DEF Step, Load, LoadFails, CheckTxt, Save, SaveFails, WriteTxt
<1>2. LineOK(op[r]) /\ CheckOK(op[r]) /\ op[r] \in Ops /\ disk \in Stores /\ lapsed \subseteq minted
      /\ ShownInv /\ op \in [Calls -> Ops] /\ (op[r].pc \in Working => op[r].copy = disk)
    BY DEF TextInv, IInv, StoreOK, CopyInv
<1>3. faults \in Nat
    BY DEF TypeOK, CountersOK
<1>4. Idle.pc = "idle"
    BY DEF Idle
<1>5. ASSUME Finish(r), lapsed' \subseteq minted', faults' = 0 /\ txt' \in Codes => txt' = disk'.code
      PROVE  TextInv'
    BY <1>1, <1>4, <1>5, HolderKeepsText DEF Finish, LineOK, CheckOK, ShownInv
(* Nobody was about to write the text while r was at work.                 *)
<1>6. ASSUME op[r].pc # "txt", faults = 0, txt \in Codes PROVE txt = disk.code
  <2>1. \A s \in Calls : op[s].pc # "txt"
      BY <1>1, <1>6, Zenon DEF IInv, LockInv, Turn
  <2> QED
      BY <1>2, <1>6, <2>1 DEF ShownInv
<1>7. CASE Load(r)
  <2>1. UNCHANGED <<disk, txt, lapsed, minted, faults>> /\ op[r].pc = "queued"
      BY <1>7 DEF Load, fileVars, histVars
  <2>2. CASE Finish(r)
      BY <1>2, <1>5, <1>6, <2>1, <2>2
  <2>3. CASE ~Finish(r)
    <3> DEFINE pc == IF op[r].kind = "ensure" /\ disk.code # NoCode /\ disk.code \notin lapsed
                     THEN "check" ELSE "save"
    <3> PICK o : o = [op[r] EXCEPT !.copy = disk, !.pc = pc]
        OBVIOUS
    <3>1. op' = [op EXCEPT ![r] = o]
        BY <2>3, <1>7 DEF Load
    <3>2. o.pc = pc /\ o.kind = op[r].kind /\ o.copy = disk
        BY <1>2 DEF Ops
    <3>3. disk.code # NoCode => disk.code \in Codes
        BY <1>2 DEF Stores
    <3>4. LineOK(o)' /\ CheckOK(o)'
        BY <2>1, <3>2, <3>3 DEF LineOK, CheckOK
    <3>5. ShownInv'
        BY <1>6, <2>1 DEF ShownInv
    <3> QED
        BY <1>1, <1>2, <2>1, <3>1, <3>2, <3>4, <3>5, HolderKeepsText
  <2> QED
      BY <2>2, <2>3
<1>8. CASE LoadFails(r)
    BY <1>2, <1>5, <1>6, <1>8 DEF LoadFails, fileVars, histVars
<1>9. CASE CheckTxt(r)
  <2>1. UNCHANGED <<disk, txt, lapsed, minted, faults>> /\ op[r].pc = "check"
      BY <1>9 DEF CheckTxt, fileVars, histVars
  <2>2. CASE Finish(r)
      BY <1>2, <1>5, <1>6, <2>1, <2>2
  <2>3. CASE ~Finish(r)
    <3> DEFINE o == [op[r] EXCEPT !.pc = "save"]
    <3>1. op' = [op EXCEPT ![r] = o]
        BY <2>3, <1>9 DEF CheckTxt
    <3>2. o.pc = "save" /\ o.kind = op[r].kind
        BY <1>2 DEF Ops
    <3> HIDE DEF o
    <3>3. ShownInv'
        BY <1>6, <2>1 DEF ShownInv
    <3> QED
        BY <1>1, <1>2, <2>1, <3>1, <3>2, <3>3, HolderKeepsText DEF LineOK, CheckOK
  <2> QED
      BY <2>2, <2>3
<1>10. CASE SaveFails(r)
    BY <1>2, <1>3, <1>5, <1>10 DEF SaveFails, Fault, fileVars, histVars
<1>11. CASE WriteTxt(r)
  <2>1. UNCHANGED <<disk, lapsed, minted>> /\ Finish(r) /\ op[r].pc = "txt"
      BY <1>11 DEF WriteTxt, histVars
  <2>2. txt' = op[r].line \/ faults' = faults + 1
      BY <1>11 DEF WriteTxt, Fault
  <2>3. op[r].line \in Codes => op[r].line = disk.code
      BY <1>2, <2>1, CodesAssumption DEF LineOK
  <2> QED
      BY <1>2, <1>3, <1>5, <2>1, <2>2, <2>3
<1>12. CASE Save(r)
  <2>1. UNCHANGED <<txt, lapsed, faults>> /\ op[r].pc = "save" /\ op[r].copy = disk
      BY <1>2, <1>12 DEF Save, Working
  <2>2. lapsed' \subseteq minted'
      BY <1>2, <1>12, <2>1 DEF Save, SaveCode, SaveDevice, SaveSeen, SaveRevoked, SaveNone, histVars
  <2>3. ASSUME NEW line, ThenTxt(r, line),
               IF op[r].kind \in {"ensure", "rotate"}
               THEN line = disk'.code /\ line \in Codes \ lapsed ELSE line = Consumed
        PROVE  TextInv'
    <3> DEFINE o == [op[r] EXCEPT !.pc = "txt", !.line = line]
    <3>1. op' = [op EXCEPT ![r] = o]
        BY <2>3 DEF ThenTxt
    <3>2. o.pc = "txt" /\ o.kind = op[r].kind /\ o.line = line
        BY <1>2 DEF Ops
    <3> HIDE DEF o
    <3>3. op'[r].pc = "txt"
        BY <1>2, <3>1, <3>2
    <3> QED
        BY <1>1, <2>1, <2>2, <2>3, <3>1, <3>2, <3>3, HolderKeepsText DEF LineOK, CheckOK, ShownInv
  <2>4. CASE \E c \in Codes : SaveCode(r, c)
    <3>1. PICK c \in Codes : SaveCode(r, c)
        BY <2>4
    <3>2. disk'.code = c /\ c \notin lapsed
        BY <1>2, <2>1, <3>1, SMT DEF SaveCode, Replace, Stores
    <3> QED
        BY <2>3, <3>1, <3>2 DEF SaveCode
  <2>5. CASE (\E d \in Devices : SaveDevice(r, d)) \/ SaveNone(r)
      BY <2>3, <2>5 DEF SaveDevice, SaveNone
  <2>6. CASE SaveSeen(r) \/ SaveRevoked(r)
    <3>1. Finish(r) /\ disk'.code = disk.code
        BY <1>2, <2>1, <2>6 DEF SaveSeen, SaveRevoked, Replace, Stores
    <3> QED
        BY <1>5, <1>6, <2>1, <2>2, <3>1
  <2> QED
      BY <1>12, <2>4, <2>5, <2>6 DEF Save
<1> QED
    BY <1>7, <1>8, <1>9, <1>10, <1>11, <1>12 DEF Step

LEMMA WorldKeepsText ==
    ASSUME IInv, CodeInv, TypeOK, TypeOK', TextInv, World \/ Edit \/ UNCHANGED vars
    PROVE  TextInv'
<1>1. faults \in Nat /\ (faults' = faults \/ faults' = faults + 1)
    BY DEF World, Lapse, Crash, ShutDown, AskRotation, LoseTxt, Damage, Repair, Edit, vars, Fault,
           TypeOK, CountersOK
<1>2. CASE UNCHANGED <<op, txt, lapsed, minted>> /\ disk'.code = disk.code
    BY <1>1, <1>2 DEF TextInv, LineOK, CheckOK, ShownInv
<1>3. CASE AskRotation \/ Damage \/ Repair \/ UNCHANGED vars
    BY <1>2, <1>3 DEF AskRotation, Damage, Repair, vars, fileVars, histVars
<1>4. CASE Edit
  <2>1. disk'.code = disk.code
      BY <1>4 DEF Edit, IInv, StoreOK, Stores
  <2> QED
      BY <1>2, <1>4, <2>1 DEF Edit, histVars
<1>5. CASE LoseTxt
  <2>1. UNCHANGED <<op, lapsed, minted, disk>> /\ txt' \notin Codes
      BY <1>5, CodesAssumption DEF LoseTxt, histVars
  <2> QED
      BY <2>1 DEF TextInv, LineOK, CheckOK, ShownInv
<1>6. CASE Lapse
  <2>1. /\ UNCHANGED <<op, txt, minted, disk, faults>> /\ lapsed' = lapsed \cup {disk.code}
        /\ disk.code \in minted
        /\ \A r \in Calls : op[r].pc # "check" /\ (op[r].pc = "txt" => op[r].line # disk.code)
      BY <1>6 DEF Lapse, fileVars, histVars, CodeInv
  <2> QED
      BY <2>1 DEF TextInv, LineOK, CheckOK, ShownInv
<1>7. CASE Crash \/ ShutDown
  <2>1. \A r \in Calls : op'[r].pc = "idle"
      BY <1>7 DEF Crash, ShutDown, Idle
  <2>2. UNCHANGED <<txt, lapsed, minted, disk>>
      BY <1>7 DEF Crash, ShutDown, fileVars, histVars
  <2>3. ShownInv'
    <3>1. CASE Crash
        BY <1>1, <3>1 DEF Crash, Fault, ShownInv
    <3>2. CASE ShutDown
        BY <2>2, <3>2 DEF ShutDown, TextInv, ShownInv
    <3> QED
        BY <1>7, <3>1, <3>2
  <2> QED
      BY <2>1, <2>2, <2>3 DEF TextInv, LineOK, CheckOK, Calls
<1> QED
    BY <1>3, <1>4, <1>5, <1>6, <1>7 DEF World

LEMMA TextKept == Spec => []TextInv
<1>1. Init => TextInv
    BY DEF Init, Idle, Empty, TextInv, LineOK, CheckOK, ShownInv, Calls
<1>2. IInv /\ Promise /\ TypeOK /\ TypeOK' /\ TextInv /\ [Next]_vars => TextInv'
    BY CallKeepsText, StepKeepsText, WorldKeepsText DEF Next, World, Promise
<1> QED
    BY <1>1, <1>2, LockHolds, PromiseKept, TypeCorrect, PTL DEF Spec

(* As long as nothing failed, the text shows the live code or none once    *)
(* the lock is free, whatever phones, polls and startups came before.      *)
THEOREM TextIsHonest == Spec => []TxtHonest
<1>1. IInv /\ TextInv => TxtHonest
    BY DEF IInv, LockInv, Turn, TextInv, ShownInv, TxtHonest
<1> QED
    BY <1>1, LockHolds, TextKept, PTL

(* However it is interleaved with phones, polls and edits, a startup that  *)
(* meets no failure leaves a live code the user can read.                  *)
THEOREM StartupShows == Spec => StartupDelivers
<1> DEFINE Delivers == op[Boot].pc # "idle" /\ op'[Boot].pc = "idle" /\ ~corrupt /\ faults' = faults =>
                          txt' = disk'.code /\ txt' \in Codes \ lapsed
<1>1. IInv /\ TypeOK /\ TextInv /\ [Next]_vars => [Delivers]_vars
  <2> SUFFICES ASSUME IInv, TypeOK, TextInv, Next, op[Boot].pc # "idle", op'[Boot].pc = "idle",
                      ~corrupt, faults' = faults
               PROVE  txt' = disk'.code /\ txt' \in Codes \ lapsed
      OBVIOUS
  <2>1. /\ Boot \in Calls /\ op \in [Calls -> Ops] /\ op[Boot].kind = "ensure" /\ up
        /\ LineOK(op[Boot]) /\ CheckOK(op[Boot]) /\ faults # faults + 1
        /\ op[Boot].pc \in Working => op[Boot].copy = disk
      BY StepsUp DEF Calls, TextInv, IInv, StoreOK, CopyInv, TypeOK, CountersOK
  <2>2. op' # op
      BY <2>1
  <2>3. PICK r \in Calls : Step(r)
    <3>1. ~World /\ ~Edit
        BY <2>1, <2>2 DEF World, Lapse, Crash, ShutDown, AskRotation, LoseTxt, Damage, Repair, Fault, Edit
    <3>2. ASSUME NEW r \in Calls, NEW kind, NEW arg, Enqueue(r, kind, arg) PROVE FALSE
        BY <2>1, <3>2 DEF Enqueue
    <3>3. ~StartUp /\ (\A r \in Phones : ~PhoneCalls(r)) /\ (\A r \in Pollers : ~Poll(r))
        BY <3>2, Zenon DEF StartUp, PhoneCalls, Call, Poll, Calls
    <3> QED
        BY <3>1, <3>3 DEF Next, World
  <2>4. PICK o : op' = [op EXCEPT ![r] = o]
      BY <2>3, ZenonT(60) DEF Step, Load, LoadFails, CheckTxt, Save, SaveCode, SaveDevice, SaveSeen, SaveRevoked,
         SaveNone, SaveFails, WriteTxt, ThenTxt, Finish
  <2>5. r = Boot
      BY <2>1, <2>4
  <2>6. CASE Load(Boot)
    <3>1. ~Refused(op[Boot], disk) /\ ~NoWrite(op[Boot])
        BY <2>1 DEF Refused, NoWrite
    <3>2. \E pc \in Working : op' = [op EXCEPT ![Boot].copy = disk, ![Boot].pc = pc]
        BY <2>6, <3>1 DEF Load, Working
    <3>3. op'[Boot].pc \in Working
        BY <2>1, <3>2 DEF Ops
    <3> QED
        BY <3>3 DEF Working
  <2>7. CASE CheckTxt(Boot)
    <3>1. op'[Boot].pc = "save" \/ txt = op[Boot].copy.code
        BY <2>1, <2>7 DEF CheckTxt, Ops
    <3> QED
        BY <2>1, <2>7, <3>1 DEF CheckTxt, CheckOK, Working, fileVars
  <2>8. CASE Save(Boot)
    <3>1. \E c \in Codes : SaveCode(Boot, c)
        BY <2>1, <2>8 DEF Save, SaveDevice, SaveSeen, SaveRevoked, SaveNone
    <3>2. op'[Boot].pc = "txt"
        BY <2>1, <3>1 DEF SaveCode, ThenTxt, Ops
    <3> QED
        BY <3>2
  <2>9. CASE WriteTxt(Boot)
      BY <2>1, <2>9 DEF WriteTxt, Fault, LineOK
  <2>10. CASE LoadFails(Boot) \/ SaveFails(Boot)
      BY <2>1, <2>10 DEF LoadFails, SaveFails, Fault
  <2> QED
      BY <2>3, <2>5, <2>6, <2>7, <2>8, <2>9, <2>10 DEF Step
<1> HIDE DEF Delivers
<1>2. Spec => [][Delivers]_vars
    BY <1>1, LockHolds, TextKept, TypeCorrect, PTL DEF Spec
<1> QED
    BY <1>2 DEF Delivers, StartupDelivers
=============================================================================
