------------------------------ MODULE PushStore ------------------------------
(***************************************************************************)
(* How the push store keeps its state (lib/push/store.js 123-289): one     *)
(* object in memory, read from the file at the first call, changed at once *)
(* and written whole after each change, under another name that is then    *)
(* renamed.  Calls do not wait for each other.                             *)
(*                                                                         *)
(* Of the state it keeps, an image has the VAPID key and the endpoints.    *)
(* What PushSubscriptions and PushDispatch say of the entries is said over *)
(* the object in memory.                                                   *)
(***************************************************************************)
EXTENDS Naturals, FiniteSets

CONSTANTS
    Callers,    \* calls the store serves at once
    Endpoints,  \* endpoints of subscriptions
    MaxKeys,    \* bound: key pairs generated
    MaxFaults,  \* bound: failed reads and writes, shared names and crashes
    Missing,    \* no file, or no object yet
    Garbled,    \* a file that does not parse
    None

NoKey == 0
Keys  == NoKey..MaxKeys

(* What an object, or a file, holds.                                       *)
Images  == [key : Keys, subs : SUBSET Endpoints]
Fresh   == [key |-> NoKey, subs |-> {}]
Files   == Images \cup {Missing, Garbled}

ASSUME PushStoreAssumption ==
    /\ MaxKeys \in Nat /\ MaxFaults \in Nat
    /\ {None, "disk", "lost"} \cap Callers = {}
    /\ Missing # Garbled /\ {Missing, Garbled} \cap Images = {}

VARIABLES
    data,     \* the object in memory, once it is loaded
    disk,     \* remfs-push.json
    call,     \* the calls under way
    tmp,      \* the files being written, by the caller that named them
    minted,   \* key pairs generated so far
    given,    \* history: public keys answered to phones
    tainted,  \* history: has a fault lost what was answered, or may it have?
    mixed,    \* history: has no write since the last overlap or failure run alone?
    faults    \* history: faults so far

storeVars == <<data, disk, call, tmp, minted, given, tainted, mixed, faults>>

(* A call: what it asks for; the key it will answer; the file as it was    *)
(* when its read began; the object it saves when another load has replaced *)
(* that one in memory; the image it writes, under whose name, and whether  *)
(* it writes alone.                                                        *)
Ops == {"vapid", "add", "remove", "prune"}

Idle == [pc |-> "idle", op |-> "vapid", ends |-> {}, key |-> NoKey, seen |-> Missing, own |-> Missing,
         image |-> Fresh, name |-> None, alone |-> FALSE]

Calls == [pc : {"idle", "loading", "mkdir", "writing", "renaming", "ok", "failed"},
          op : Ops, ends : SUBSET Endpoints, key : Keys, seen : Files, own : Images \cup {Missing},
          image : Images, name : Callers \cup {None, "disk", "lost"}, alone : BOOLEAN]

StoreTypeOK ==
    /\ data \in Images \cup {Missing}
    /\ disk \in Files
    /\ call \in [Callers -> Calls]
    /\ tmp \in [Callers -> Files]
    /\ minted \in Keys /\ given \subseteq 1..MaxKeys
    /\ tainted \in BOOLEAN /\ mixed \in BOOLEAN
    /\ faults \in 0..MaxFaults

StoreInit ==
    /\ data = Missing /\ disk = Missing
    /\ call = [c \in Callers |-> Idle]
    /\ tmp = [c \in Callers |-> Missing]
    /\ minted = NoKey /\ given = {}
    /\ tainted = FALSE /\ mixed = FALSE
    /\ faults = 0

Fault == faults < MaxFaults /\ faults' = faults + 1

Writing(c) == call[c].pc \in {"writing", "renaming"}
Saving(c)  == Writing(c) \/ call[c].pc = "mkdir"

-----------------------------------------------------------------------------
(***************************************************************************)
(* load, and what each call does once it has the object.                   *)
(***************************************************************************)
(* Mutant: removed entries are not written.                                *)
ChangesAddsOnly(op, ends, d) == (op = "add") \/ (op = "vapid" /\ d.key = NoKey)

(* Does the call have something to save?                                   *)
Changes(op, ends, d) ==
    CASE op = "vapid" -> d.key = NoKey
      [] op = "add" -> TRUE
      [] op \in {"remove", "prune"} -> ends \cap d.subs # {}

(* The object after the call.                                              *)
Changed(op, ends, d) ==
    CASE op = "vapid" /\ d.key = NoKey -> [d EXCEPT !.key = minted + 1]
      [] op = "vapid" /\ d.key # NoKey -> d
      [] op = "add" -> [d EXCEPT !.subs = @ \cup ends]
      [] op \in {"remove", "prune"} -> [d EXCEPT !.subs = @ \ ends]

(* Call c goes on with object d, which it leaves in memory: calls about to *)
(* save the object that was there before keep that one.                    *)
Proceed(c, op, ends, d, others) ==
    /\ op = "vapid" /\ d.key = NoKey => minted < MaxKeys
    /\ minted' = IF op = "vapid" /\ d.key = NoKey THEN minted + 1 ELSE minted
    /\ data' = Changed(op, ends, d)
    /\ given' = IF op = "vapid" /\ d.key # NoKey THEN given \cup {d.key} ELSE given
    /\ call' = [others EXCEPT ![c] =
                   [Idle EXCEPT !.pc = IF Changes(op, ends, d) THEN "mkdir" ELSE "ok",
                                !.op = op, !.ends = ends,
                                !.key = IF op = "vapid" THEN Changed(op, ends, d).key ELSE NoKey]]

Orphaned == [c \in Callers |->
    IF call[c].pc = "mkdir" /\ call[c].own = Missing
    THEN [call[c] EXCEPT !.own = data]
    ELSE [call[c] EXCEPT !.alone = FALSE]]

(* A call comes in.                                                        *)
StartCall(c, op, ends) ==
    /\ call[c].pc = "idle"
    /\ IF data # Missing
       THEN Proceed(c, op, ends, data, call)
       ELSE /\ call' = [call EXCEPT ![c] = [Idle EXCEPT !.pc = "loading", !.op = op, !.ends = ends, !.seen = disk]]
            /\ UNCHANGED <<data, minted, given>>
    /\ UNCHANGED <<disk, tmp, tainted, mixed, faults>>

(* The file was read, as it was when the read began or ended.  One         *)
(* that does not parse, or cannot be read, is put aside.                   *)
ReadFile(c) ==
    \E read \in {call[c].seen, disk, Garbled} :
        /\ call[c].pc = "loading"
        /\ IF read = Garbled /\ Garbled \notin {call[c].seen, disk} THEN Fault ELSE UNCHANGED faults
        /\ disk' = IF read = Garbled THEN Missing ELSE disk
        /\ Proceed(c, call[c].op, call[c].ends, IF read \in Images THEN read ELSE Fresh,
                   IF data # Missing THEN Orphaned ELSE call)
        /\ tainted' = (tainted \/ data # Missing \/ read = Garbled)
        /\ mixed' = (mixed \/ data # Missing \/ read = Garbled)
        /\ UNCHANGED tmp

-----------------------------------------------------------------------------
(***************************************************************************)
(* save.                                                                   *)
(***************************************************************************)
(* What is left of a call once it has its answer.                          *)
Ended(c, pc) ==
    [Idle EXCEPT !.pc = pc, !.op = call[c].op, !.ends = call[c].ends, !.key = call[c].key]

(* Mutant: a key is given out without being saved.                         *)
SnapshotUnsaved(c) ==
    /\ call[c].pc = "mkdir"
    /\ call' = [call EXCEPT ![c] = Ended(c, "ok")]
    /\ given' = IF call[c].op = "vapid" THEN given \cup {call[c].key} ELSE given
    /\ UNCHANGED <<data, disk, tmp, minted, tainted, mixed, faults>>

(* The object is turned into text and its file is begun.  The file's name  *)
(* is of the process and the millisecond: two may be the same.             *)
Snapshot(c) ==
    LET image == IF call[c].own # Missing THEN call[c].own ELSE data
        alone == call[c].own = Missing /\ \A b \in Callers : ~Writing(b) IN
    /\ call[c].pc = "mkdir"
    /\ \E name \in {c} \cup {call[b].name : b \in {b \in Callers : Writing(b)}} :
          /\ name \in Callers
          /\ IF name = c THEN UNCHANGED faults ELSE Fault
          /\ call' = [b \in Callers |->
                IF b = c
                THEN [call[c] EXCEPT !.pc = "writing", !.image = image, !.name = name, !.alone = alone]
                ELSE [call[b] EXCEPT !.alone = FALSE]]
          /\ tmp' = [tmp EXCEPT ![name] = Garbled]
    /\ mixed' = (mixed \/ ~alone)
    /\ UNCHANGED <<data, disk, minted, given, tainted>>

(* The file is written.  Where another call writes it too, either content  *)
(* or a mixture of both remains; if it was renamed meanwhile, it is the    *)
(* store's file that is written.                                           *)
Written(c) ==
    LET name   == call[c].name
        shared == \E b \in Callers \ {c} : Writing(b) /\ call[b].name = name IN
    /\ call[c].pc = "writing"
    /\ call' = [call EXCEPT ![c].pc = "renaming"]
    /\ \E content \in {call[c].image} \cup IF shared \/ name = "disk" THEN {Garbled} ELSE {} :
          /\ tmp' = IF name \in Callers THEN [tmp EXCEPT ![name] = content] ELSE tmp
          /\ disk' = IF name = "disk" THEN content ELSE disk
    /\ UNCHANGED <<data, minted, given, tainted, mixed, faults>>

(* Those still writing the file that is renamed now write the store's.     *)
Elsewhere(name) ==
    [b \in Callers |->
        IF Writing(b) /\ call[b].name = name THEN [call[b] EXCEPT !.name = "disk"]
        ELSE IF Writing(b) /\ call[b].name = "disk" THEN [call[b] EXCEPT !.name = "lost"]
        ELSE call[b]]

Rename(c) ==
    LET name == call[c].name IN
    /\ call[c].pc = "renaming" /\ name \in Callers
    /\ disk' = tmp[name]
    /\ tmp' = [tmp EXCEPT ![name] = Missing]
    /\ call' = [Elsewhere(name) EXCEPT ![c] = Ended(c, "ok")]
    /\ mixed' = (mixed /\ ~call[c].alone)
    /\ given' = IF call[c].op = "vapid" THEN given \cup {call[c].key} ELSE given
    /\ UNCHANGED <<data, minted, tainted, faults>>

(* A step of save throws: its file is gone, or the disk refuses.           *)
SaveFails(c) ==
    /\ Saving(c)
    /\ IF call[c].pc = "renaming" /\ call[c].name \notin Callers THEN UNCHANGED faults ELSE Fault
    /\ call' = [b \in Callers |-> IF b = c THEN Ended(c, "failed") ELSE [call[b] EXCEPT !.alone = FALSE]]
    /\ mixed' = TRUE
    /\ UNCHANGED <<data, disk, tmp, minted, given, tainted>>

(* The caller has its answer.                                              *)
EndCall(c) ==
    /\ call[c].pc \in {"ok", "failed"}
    /\ call' = [call EXCEPT ![c] = Idle]
    /\ UNCHANGED <<data, disk, tmp, minted, given, tainted, mixed, faults>>

(* The harness ends at any point and starts again.                         *)
Crash ==
    /\ Fault
    /\ data' = Missing
    /\ call' = [c \in Callers |-> Idle]
    /\ tmp' = [c \in Callers |-> Missing]
    /\ disk' \in IF \E c \in Callers : call[c].pc = "writing" /\ call[c].name = "disk"
                 THEN {disk, Garbled} ELSE {disk}
    /\ tainted' = (tainted \/ mixed \/ \E c \in Callers : Saving(c))
    /\ UNCHANGED <<minted, given, mixed>>

StoreStep(c) ==
    ReadFile(c) \/ Snapshot(c) \/ Written(c) \/ Rename(c) \/ SaveFails(c)

StoreNext ==
    \/ Crash
    \/ \E c \in Callers :
          \/ StoreStep(c) \/ EndCall(c)
          \/ \E op \in Ops, ends \in SUBSET Endpoints : StartCall(c, op, ends)

StoreSpec == StoreInit /\ [][StoreNext]_storeVars

-----------------------------------------------------------------------------
(* What the next caller will find: the object, or else the file.           *)
Kept(file) == IF file \in Images THEN file ELSE Fresh
Current == IF data # Missing THEN data ELSE Kept(disk)

(* A key given to a phone stays the store's key, across restarts, unless   *)
(* first loads overlapped, the file was put aside, or the harness ended    *)
(* during a save or after one that had overlapped or failed (store.js      *)
(* 131-209): another key makes every subscription of that phone useless.   *)
KeysKept == ~tainted => given \subseteq {Current.key}

(* When nothing is being saved the file is what is in memory, unless the   *)
(* last saves overlapped or failed (store.js 171-180 and its callers).     *)
DiskCurrent ==
    ~mixed /\ data # Missing /\ (\A c \in Callers : ~Saving(c)) => Kept(disk) = data
=============================================================================
