---------------------------- MODULE SecurityStore ----------------------------
(***************************************************************************)
(* The device store (lib/security.js) and who calls it: phones through the *)
(* dispatcher, the host at startup, the host's rotation watcher.           *)
(*                                                                         *)
(* Every operation runs under a per-file lock, a chain of promises: it     *)
(* loads remfs-security.json, decides, replaces the file (tmp + rename)    *)
(* and then rewrites remfs-pairing.txt, which may fail without notice.     *)
(* The process can die between any two of these steps.                     *)
(***************************************************************************)
EXTENDS Naturals, Sequences, FiniteSets

CONSTANTS
    Phones,       \* calls of paired or pairing phones in flight
    Pollers,      \* polls of the rotation watcher in flight
    Boot,         \* the call made by the host's apply()
    Devices, Codes, NoCode,
    Consumed,     \* a txt marked CONSUMED
    MaxFaults,    \* bound: failed writes, crashes and damage per behaviour
    MaxRotations  \* bound: runs of refresh_pairing.ps1

Calls == Phones \cup Pollers \cup {Boot}

ASSUME CallsAssumption ==
    /\ Boot \notin Phones \cup Pollers
    /\ Phones \cap Pollers = {}
ASSUME CodesAssumption ==
    /\ NoCode \notin Codes
    /\ Consumed \notin Codes \cup {NoCode}
ASSUME BoundsAssumption == MaxFaults \in Nat /\ MaxRotations \in Nat

VARIABLES
    up,        \* the host process runs
    disk,      \* remfs-security.json
    corrupt,   \* ... is unreadable
    txt,       \* the first line of remfs-pairing.txt; NoCode: no such file
    lapsed,    \* codes whose ten minutes are over
    flag,      \* remfs-pairing-rotate.flag exists
    queue,     \* the lock: the calls chained on it, its holder first
    op,        \* the calls
    minted, granted, revoked,  \* history: see PairingService
    faults, rotations          \* history: what happened so far

fileVars == <<disk, corrupt, txt>>
histVars == <<minted, granted, revoked>>
vars == <<up, fileVars, lapsed, flag, queue, op, histVars, faults, rotations>>

Stores == [paired : SUBSET Devices, admin : SUBSET Devices, code : Codes \cup {NoCode}]

Empty == [paired |-> {}, admin |-> {}, code |-> NoCode]

Kinds == {"ensure", "rotate", "pair", "verify", "list", "revoke", "revokeAll"}
Args  == Codes \cup Devices \cup {NoCode}

Ops == [pc : {"idle", "queued", "check", "save", "txt"}, kind : Kinds, arg : Args,
        copy : Stores,                              \* the store as it was loaded
        line : Codes \cup {NoCode, Consumed}]       \* what it will write to the txt

Idle == [pc |-> "idle", kind |-> "list", arg |-> NoCode, copy |-> Empty, line |-> NoCode]

FlagsOK == up \in BOOLEAN /\ corrupt \in BOOLEAN /\ flag \in BOOLEAN

StoreOK ==
    /\ disk \in Stores
    /\ txt \in Codes \cup {NoCode, Consumed}
    /\ lapsed \subseteq Codes
    /\ queue \in Seq(Calls)
    /\ op \in [Calls -> Ops]
    /\ minted \subseteq Codes
    /\ granted \in [Devices -> Codes \cup {NoCode}]
    /\ revoked \subseteq Devices

CountersOK == faults \in Nat /\ rotations \in Nat

TypeOK == FlagsOK /\ StoreOK /\ CountersOK

Init ==
    /\ up = FALSE /\ corrupt = FALSE /\ flag = FALSE
    /\ disk = Empty /\ txt = NoCode /\ lapsed = {}
    /\ queue = <<>> /\ op = [r \in Calls |-> Idle]
    /\ minted = {} /\ granted = [d \in Devices |-> NoCode] /\ revoked = {}
    /\ faults = 0 /\ rotations = 0

Fault == faults < MaxFaults /\ faults' = faults + 1

-----------------------------------------------------------------------------
(***************************************************************************)
(* The lock.                                                               *)
(***************************************************************************)
Minting(r) == op[r].pc # "idle" /\ op[r].kind \in {"ensure", "rotate"}
Pairing(r) == op[r].pc # "idle" /\ op[r].kind = "pair"

(* Bounds: a fresh code, a fresh device for every call that may need one.  *)
CodeLeft   == Cardinality(minted \cup {r \in Calls : Minting(r)}) < Cardinality(Codes)
DeviceLeft == Cardinality({d \in Devices : granted[d] # NoCode} \cup {r \in Calls : Pairing(r)})
                 < Cardinality(Devices)

Enqueue(r, kind, arg) ==
    /\ op[r].pc = "idle"
    /\ op' = [op EXCEPT ![r] = [pc |-> "queued", kind |-> kind, arg |-> arg,
                                copy |-> Empty, line |-> NoCode]]
    /\ queue' = Append(queue, r)

(* Mutant: no lock, every call runs at once.                               *)
TurnAnyone(r) == op[r].pc # "idle"

Turn(r) == queue # <<>> /\ Head(queue) = r

(* prev.then(fn, fn): the next call runs whatever became of this one.      *)
Finish(r) ==
    /\ queue' = Tail(queue)
    /\ op' = [op EXCEPT ![r] = Idle]

-----------------------------------------------------------------------------
(***************************************************************************)
(* The calls.                                                              *)
(***************************************************************************)
Call(r, kind, arg) ==
    /\ up /\ Enqueue(r, kind, arg)
    /\ UNCHANGED <<up, fileVars, lapsed, flag, histVars, faults, rotations>>

(* A phone pairs with a code that was ever shown, or acts on a device that *)
(* was ever paired.                                                        *)
PhoneCalls(r) ==
    \/ DeviceLeft /\ \E c \in minted : Call(r, "pair", c)
    \/ \E d \in {e \in Devices : granted[e] # NoCode} :
          Call(r, "verify", d) \/ Call(r, "revoke", d)
    \/ Call(r, "list", NoCode)
    \/ Call(r, "revokeAll", NoCode)

(* The watcher deletes the flag, or fails to, and asks for a rotation.     *)
Poll(r) ==
    /\ up /\ flag /\ CodeLeft
    /\ Enqueue(r, "rotate", NoCode)
    /\ \/ flag' = FALSE /\ UNCHANGED faults
       \/ UNCHANGED flag /\ Fault
    /\ UNCHANGED <<up, fileVars, lapsed, histVars, rotations>>

(* apply(): the host starts, and sees to it that there is a code to show.  *)
StartUp ==
    /\ ~up /\ CodeLeft
    /\ up' = TRUE
    /\ Enqueue(Boot, "ensure", NoCode)
    /\ UNCHANGED <<fileVars, lapsed, flag, histVars, faults, rotations>>

-----------------------------------------------------------------------------
(***************************************************************************)
(* An operation, once it is its turn.                                      *)
(***************************************************************************)
(* The early returns of the operations, on the store s.                    *)
Refused(o, s) ==
    \/ o.kind = "pair" /\ (s.code = NoCode \/ s.code \in lapsed \/ o.arg # s.code)
    \/ o.kind \in {"verify", "revoke"} /\ o.arg \notin s.paired

(* What needs no write: a list, a lastSeen less than a minute old.         *)
NoWrite(o) == o.kind \in {"list", "verify"}

Load(r) ==
    /\ op[r].pc = "queued" /\ Turn(r) /\ ~corrupt
    /\ \/ (Refused(op[r], disk) \/ NoWrite(op[r])) /\ Finish(r)
       \/ /\ ~Refused(op[r], disk) /\ op[r].kind # "list"
          /\ op' = [op EXCEPT ![r].copy = disk,
                       ![r].pc = IF op[r].kind = "ensure" /\ disk.code # NoCode
                                      /\ disk.code \notin lapsed
                                 THEN "check" ELSE "save"]
          /\ UNCHANGED queue
    /\ UNCHANGED <<up, fileVars, lapsed, flag, histVars, faults, rotations>>

(* An unreadable store is copied aside and the call refused.               *)
LoadFails(r) ==
    /\ op[r].pc = "queued" /\ Turn(r) /\ corrupt
    /\ Finish(r)
    /\ UNCHANGED <<up, fileVars, lapsed, flag, histVars, faults, rotations>>

(* Mutant: the text is taken to show the live code (audit item 7).         *)
CheckTxtBlind(r) ==
    /\ op[r].pc = "check" /\ Turn(r)
    /\ Finish(r)
    /\ UNCHANGED <<up, fileVars, lapsed, flag, histVars, faults, rotations>>

(* ensurePairingCode keeps a live code whose text can still be read.       *)
CheckTxt(r) ==
    /\ op[r].pc = "check" /\ Turn(r)
    /\ IF txt = op[r].copy.code
       THEN Finish(r)
       ELSE op' = [op EXCEPT ![r].pc = "save"] /\ UNCHANGED queue
    /\ UNCHANGED <<up, fileVars, lapsed, flag, histVars, faults, rotations>>

Replace(r, store) == disk' = store /\ corrupt' = FALSE

(* The pairing text follows the store; nothing is undone if it fails.      *)
ThenTxt(r, line) ==
    /\ op' = [op EXCEPT ![r].pc = "txt", ![r].line = line]
    /\ UNCHANGED queue

SaveCode(r, c) ==
    /\ op[r].kind \in {"ensure", "rotate"} /\ c \notin minted
    /\ Replace(r, [op[r].copy EXCEPT !.code = c])
    /\ minted' = minted \cup {c}
    /\ ThenTxt(r, c)
    /\ UNCHANGED <<granted, revoked>>

(* Mutants: the code stays live; the device gets device-admin; the wrong   *)
(* value goes to the text.                                                 *)
SaveDeviceKeepCode(r, d) ==
    /\ op[r].kind = "pair" /\ granted[d] = NoCode
    /\ Replace(r, [op[r].copy EXCEPT !.paired = @ \cup {d}])
    /\ granted' = [granted EXCEPT ![d] = op[r].copy.code]
    /\ ThenTxt(r, Consumed)
    /\ UNCHANGED <<minted, revoked>>

SaveDeviceAsAdmin(r, d) ==
    /\ op[r].kind = "pair" /\ granted[d] = NoCode
    /\ Replace(r, [op[r].copy EXCEPT !.paired = @ \cup {d}, !.admin = @ \cup {d}, !.code = NoCode])
    /\ granted' = [granted EXCEPT ![d] = op[r].copy.code]
    /\ ThenTxt(r, Consumed)
    /\ UNCHANGED <<minted, revoked>>

SaveDeviceWrongText(r, d) ==
    /\ op[r].kind = "pair" /\ granted[d] = NoCode
    /\ Replace(r, [op[r].copy EXCEPT !.paired = @ \cup {d}, !.code = NoCode])
    /\ granted' = [granted EXCEPT ![d] = op[r].copy.code]
    /\ ThenTxt(r, d)
    /\ UNCHANGED <<minted, revoked>>

SaveDevice(r, d) ==
    /\ op[r].kind = "pair" /\ granted[d] = NoCode
    /\ Replace(r, [op[r].copy EXCEPT !.paired = @ \cup {d}, !.code = NoCode])
    /\ granted' = [granted EXCEPT ![d] = op[r].copy.code]
    /\ ThenTxt(r, Consumed)
    /\ UNCHANGED <<minted, revoked>>

SaveSeen(r) ==
    /\ op[r].kind = "verify"
    /\ Replace(r, op[r].copy)
    /\ Finish(r)
    /\ UNCHANGED histVars

SaveRevoked(r) ==
    /\ op[r].kind = "revoke"
    /\ Replace(r, [op[r].copy EXCEPT !.paired = @ \ {op[r].arg}, !.admin = @ \ {op[r].arg}])
    /\ revoked' = revoked \cup {op[r].arg}
    /\ Finish(r)
    /\ UNCHANGED <<minted, granted>>

(* Mutant: the text keeps the code (audit item 7).                         *)
SaveNoneKeepText(r) ==
    /\ op[r].kind = "revokeAll"
    /\ Replace(r, Empty)
    /\ revoked' = revoked \cup op[r].copy.paired
    /\ Finish(r)
    /\ UNCHANGED <<minted, granted>>

SaveNone(r) ==
    /\ op[r].kind = "revokeAll"
    /\ Replace(r, Empty)
    /\ revoked' = revoked \cup op[r].copy.paired
    /\ ThenTxt(r, Consumed)
    /\ UNCHANGED <<minted, granted>>

Save(r) ==
    /\ op[r].pc = "save" /\ Turn(r)
    /\ \/ \E c \in Codes : SaveCode(r, c)
       \/ \E d \in Devices : SaveDevice(r, d)
       \/ SaveSeen(r) \/ SaveRevoked(r) \/ SaveNone(r)
    /\ UNCHANGED <<up, txt, lapsed, flag, faults, rotations>>

(* Mutant: prev.then(fn), without the second fn: a rejection ends the      *)
(* chain.                                                                  *)
SaveFailsStuck(r) ==
    /\ op[r].pc = "save" /\ Turn(r)
    /\ Fault
    /\ op' = [op EXCEPT ![r] = Idle]
    /\ UNCHANGED <<up, fileVars, lapsed, flag, queue, histVars, rotations>>

SaveFails(r) ==
    /\ op[r].pc = "save" /\ Turn(r)
    /\ Fault
    /\ Finish(r)
    /\ UNCHANGED <<up, fileVars, lapsed, flag, histVars, rotations>>

WriteTxt(r) ==
    /\ op[r].pc = "txt" /\ Turn(r)
    /\ \/ txt' = op[r].line /\ UNCHANGED faults
       \/ UNCHANGED txt /\ Fault
    /\ Finish(r)
    /\ UNCHANGED <<up, disk, corrupt, lapsed, flag, histVars, rotations>>

Step(r) ==
    \/ Load(r) \/ LoadFails(r) \/ CheckTxt(r)
    \/ Save(r) \/ SaveFails(r) \/ WriteTxt(r)

-----------------------------------------------------------------------------
(***************************************************************************)
(* The surroundings.                                                       *)
(***************************************************************************)
(* The live code's ten minutes are over.  Minting one takes less than      *)
(* that; one that runs out between ensurePairingCode's look at the clock   *)
(* and its look at the text runs out right after, which is the same.       *)
Lapse ==
    /\ disk.code # NoCode /\ disk.code \notin lapsed
    /\ \A r \in Calls :
          /\ op[r].pc # "check"
          /\ op[r].pc = "txt" => op[r].line # disk.code
    /\ lapsed' = lapsed \cup {disk.code}
    /\ UNCHANGED <<up, fileVars, flag, queue, op, histVars, faults, rotations>>

(* The process dies: the chain of promises is gone, the files stay.        *)
Crash ==
    /\ up /\ Fault
    /\ up' = FALSE
    /\ queue' = <<>> /\ op' = [r \in Calls |-> Idle]
    /\ UNCHANGED <<fileVars, lapsed, flag, histVars, rotations>>

(* stop_harness.ps1, with nothing in flight.                               *)
ShutDown ==
    /\ up /\ \A r \in Calls : op[r].pc = "idle"
    /\ up' = FALSE
    /\ UNCHANGED <<fileVars, lapsed, flag, queue, op, histVars, faults, rotations>>

(* refresh_pairing.ps1 drops the flag, whether or not a host runs.         *)
AskRotation ==
    /\ ~flag /\ rotations < MaxRotations
    /\ flag' = TRUE /\ rotations' = rotations + 1
    /\ UNCHANGED <<up, fileVars, lapsed, queue, op, histVars, faults>>

(* The PC's user edits capabilities while the harness is stopped.          *)
Edit ==
    /\ ~up /\ ~corrupt
    /\ \E admins \in SUBSET disk.paired : disk' = [disk EXCEPT !.admin = admins]
    /\ UNCHANGED <<up, corrupt, txt, lapsed, flag, queue, op, histVars, faults, rotations>>

(* The user deletes the pairing text.                                      *)
LoseTxt ==
    /\ txt # NoCode /\ Fault
    /\ txt' = NoCode
    /\ UNCHANGED <<up, disk, corrupt, lapsed, flag, queue, op, histVars, rotations>>

(* The store becomes unreadable; someone puts it right.                    *)
Damage ==
    /\ ~corrupt /\ Fault
    /\ corrupt' = TRUE
    /\ UNCHANGED <<up, disk, txt, lapsed, flag, queue, op, histVars, rotations>>

Repair ==
    /\ corrupt /\ corrupt' = FALSE
    /\ UNCHANGED <<up, disk, txt, lapsed, flag, queue, op, histVars, faults, rotations>>

Next ==
    \/ StartUp
    \/ \E r \in Phones : PhoneCalls(r)
    \/ \E r \in Pollers : Poll(r)
    \/ \E r \in Calls : Step(r)
    \/ Lapse \/ Crash \/ ShutDown \/ AskRotation
    \/ Edit \/ LoseTxt \/ Damage \/ Repair

Spec == Init /\ [][Next]_vars

(* File system calls settle.                                               *)
Fairness == \A r \in Calls : WF_vars(Step(r))

FairSpec == Spec /\ Fairness

-----------------------------------------------------------------------------
(* A pairing code pairs one device, whatever calls race, fail or are cut   *)
(* short (security.js 14-17, 461-489).                                     *)
SingleUse ==
    \A d, e \in Devices : granted[d] = granted[e] /\ granted[d] # NoCode => d = e

(* No update is lost and none comes back: the store holds the devices that *)
(* were paired and not revoked (security.js 14-17, 357-365).               *)
StoreExact == disk.paired = {d \in Devices : granted[d] # NoCode} \ revoked

(* As long as nothing failed, no text shows a code that is no longer the   *)
(* live one, once the lock is free (security.js 392-402, 555-558).         *)
TxtHonest == faults = 0 /\ queue = <<>> /\ txt \in Codes => txt = disk.code

(* Every call is answered: neither a failed write nor an unreadable store  *)
(* holds the lock for ever (security.js 358-365).                          *)
EveryCallReturns == \A r \in Calls : op[r].pc # "idle" ~> op[r].pc = "idle"

(* A startup that met no failure leaves a live code the user can read      *)
(* (host.js 358-361, security.js 414-432).                                 *)
StartupDelivers ==
    [][op[Boot].pc # "idle" /\ op'[Boot].pc = "idle" /\ ~corrupt /\ faults' = faults =>
          txt' = disk'.code /\ txt' \in Codes \ lapsed]_vars

Service == INSTANCE PairingService WITH store <- disk

(* The store implements its atomic specification.                          *)
ServiceImplemented == Service!Spec
=============================================================================
