-------------------------- MODULE PushChannel_proofs --------------------------
(***************************************************************************)
(* Theorems about the push store and the push toggle, for any number of    *)
(* calls and flows, endpoints, keys and faults.                            *)
(*                                                                         *)
(* Of the store: the inductive invariant says that a write that runs alone *)
(* writes what is in memory, unless a later change is about to be written, *)
(* and that until a first load is doubled or a file lost, the key a call   *)
(* is about to answer is the key in memory.                                *)
(*                                                                         *)
(* Of the toggle: what each flow knows of the subscriptions the store will *)
(* answer with, while nothing harmed it (Backs, Silent).                   *)
(***************************************************************************)
EXTENDS PushChannel, TLAPS

(* Somebody is about to write the object in memory.                        *)
Due == \E b \in Callers : call[b].pc = "mkdir" /\ call[b].own = Missing

AloneInv(c) ==
    Writing(c) /\ call[c].alone =>
        /\ call[c].name = c
        /\ call[c].pc = "renaming" => tmp[c] = call[c].image
        /\ call[c].image = data \/ Due
        /\ \A b \in Callers \ {c} : ~Writing(b)

LoadedInv == \A c \in Callers : call[c].pc \in {"idle", "loading"} \/ data # Missing

SeenInv == data = Missing => \A c \in Callers : call[c].pc = "loading" => call[c].seen = disk

KeyInv ==
    \A c \in Callers : (Saving(c) \/ call[c].pc = "ok") /\ call[c].op = "vapid" => call[c].key # NoKey

(* While no write overlapped or failed.                                    *)
DiskInv ==
    ~mixed =>
        /\ \A c \in Callers : Writing(c) => call[c].alone
        /\ data # Missing => Kept(disk) = data \/ Due \/ \E c \in Callers : Writing(c)

(* While nothing was lost.                                                 *)
GivenInv ==
    ~tainted =>
        /\ given \subseteq {Current.key}
        /\ \A c \in Callers : Saving(c) /\ call[c].op = "vapid" => call[c].key = data.key

StoreInv ==
    /\ StoreTypeOK /\ LoadedInv /\ SeenInv /\ KeyInv
    /\ \A c \in Callers : AloneInv(c)
    /\ DiskInv /\ GivenInv

-----------------------------------------------------------------------------
(***************************************************************************)
(* What a call makes of an object.                                         *)
(***************************************************************************)
LEMMA FreshTyped == Fresh \in Images /\ Idle \in Calls
BY PushStoreAssumption DEF Fresh, Images, Keys, NoKey, Idle, Calls, Ops, Files

(* A call that has nothing to save changes nothing.                        *)
LEMMA ChangedSame ==
    ASSUME NEW op \in Ops, NEW ends \in SUBSET Endpoints, NEW d \in Images, ~Changes(op, ends, d)
    PROVE  Changed(op, ends, d) = d
<1>1. CASE op = "vapid"
    BY <1>1 DEF Changes, Changed
<1>2. CASE op = "add"
    BY <1>2 DEF Changes
<1>3. CASE op \in {"remove", "prune"}
  <2>1. d.subs \ ends = d.subs
      BY <1>3 DEF Changes
  <2>2. Changed(op, ends, d) = [d EXCEPT !.subs = d.subs \ ends]
      BY <1>3 DEF Changed
  <2> QED
      BY <2>1, <2>2 DEF Images
<1> QED
    BY <1>1, <1>2, <1>3 DEF Ops

(* Only the call that asks for a key, where there is none, changes it.     *)
LEMMA ChangedKey ==
    ASSUME NEW op \in Ops, NEW ends \in SUBSET Endpoints, NEW d \in Images, minted \in Keys,
           op = "vapid" /\ d.key = NoKey => minted < MaxKeys
    PROVE  /\ Changed(op, ends, d) \in Images
           /\ op = "vapid" => Changed(op, ends, d).key # NoKey
           /\ d.key # NoKey \/ op # "vapid" => Changed(op, ends, d).key = d.key
<1>1. CASE op = "vapid" /\ d.key = NoKey
  <2>1. Changed(op, ends, d) = [d EXCEPT !.key = minted + 1]
      BY <1>1 DEF Changed
  <2>2. minted + 1 \in Keys /\ minted + 1 # NoKey
      BY <1>1, PushStoreAssumption DEF Keys, NoKey
  <2> QED
      BY <1>1, <2>1, <2>2 DEF Images
<1>2. CASE op = "vapid" /\ d.key # NoKey
    BY <1>2 DEF Changed
<1>3. CASE op = "add"
    BY <1>3 DEF Changed, Images
<1>4. CASE op \in {"remove", "prune"}
    BY <1>4 DEF Changed, Images
<1> QED
    BY <1>1, <1>2, <1>3, <1>4 DEF Ops

LEMMA KeptTyped == ASSUME NEW file PROVE Kept(file) \in Images
BY FreshTyped DEF Kept

(* What Proceed leaves, in terms of the object d it goes on with.          *)
LEMMA Proceeds ==
    ASSUME StoreTypeOK, NEW c \in Callers, NEW op \in Ops, NEW ends \in SUBSET Endpoints,
           NEW d \in Images, NEW others \in [Callers -> Calls], Proceed(c, op, ends, d, others)
    PROVE  /\ data' \in Images /\ minted' \in Keys /\ given' \subseteq 1..MaxKeys
           /\ call' \in [Callers -> Calls]
           /\ \A b \in Callers \ {c} : call'[b] = others[b]
           /\ call'[c].op = op /\ call'[c].own = Missing
           /\ call'[c].pc = IF Changes(op, ends, d) THEN "mkdir" ELSE "ok"
           /\ op = "vapid" => call'[c].key = data'.key /\ data'.key # NoKey
           /\ ~Changes(op, ends, d) => data' = d
           /\ d.key # NoKey => data'.key = d.key
           /\ given' = given \/ (given' = given \cup {d.key} /\ d.key # NoKey)
<1>1. op = "vapid" /\ d.key = NoKey => minted < MaxKeys
    BY DEF Proceed
<1>2. minted \in Keys
    BY DEF StoreTypeOK
<1>3. data' = Changed(op, ends, d)
    BY DEF Proceed
<1>4. /\ data' \in Images
      /\ op = "vapid" => data'.key # NoKey
      /\ d.key # NoKey \/ op # "vapid" => data'.key = d.key
    BY <1>1, <1>2, <1>3, ChangedKey
<1>5. ~Changes(op, ends, d) => data' = d
    BY <1>3, ChangedSame
<1>6. minted' \in Keys
    BY <1>1, <1>2, PushStoreAssumption DEF Proceed, Keys, NoKey
<1>7. given' = given \/ (given' = given \cup {d.key} /\ d.key # NoKey)
    BY DEF Proceed
<1>8. given' \subseteq 1..MaxKeys
  <2>1. d.key \in Keys
      BY DEF Images
  <2>2. d.key # NoKey => d.key \in 1..MaxKeys
      BY <2>1, PushStoreAssumption DEF Keys, NoKey
  <2>3. given \subseteq 1..MaxKeys
      BY DEF StoreTypeOK
  <2> QED
      BY <1>7, <2>2, <2>3
<1> DEFINE new == [Idle EXCEPT !.pc = IF Changes(op, ends, d) THEN "mkdir" ELSE "ok",
                               !.op = op, !.ends = ends,
                               !.key = IF op = "vapid" THEN data'.key ELSE NoKey]
<1>9. call' = [others EXCEPT ![c] = new]
    BY <1>3 DEF Proceed
<1>10. new \in Calls
  <2>1. (IF op = "vapid" THEN data'.key ELSE NoKey) \in Keys
      BY <1>4, PushStoreAssumption DEF Images, Keys, NoKey
  <2> QED
      BY <2>1, FreshTyped DEF Calls
<1>11. /\ new.op = op /\ new.own = Missing
       /\ new.pc = IF Changes(op, ends, d) THEN "mkdir" ELSE "ok"
       /\ op = "vapid" => new.key = data'.key
    BY DEF Idle
<1>12. call'[c] = new /\ call' \in [Callers -> Calls] /\ \A b \in Callers \ {c} : call'[b] = others[b]
    BY <1>9, <1>10
<1> QED
    BY <1>4, <1>5, <1>6, <1>7, <1>8, <1>11, <1>12

-----------------------------------------------------------------------------
(***************************************************************************)
(* The steps of the store keep the invariant.                              *)
(***************************************************************************)
LEMMA InitStore == StoreInit => StoreInv
<1> SUFFICES ASSUME StoreInit PROVE StoreInv
    OBVIOUS
<1>1. StoreTypeOK
  <2>1. NoKey \in Keys /\ 0 \in 0..MaxFaults
      BY PushStoreAssumption DEF Keys, NoKey
  <2>2. [c \in Callers |-> Idle] \in [Callers -> Calls]
      BY FreshTyped
  <2>3. [c \in Callers |-> Missing] \in [Callers -> Files]
      BY DEF Files
  <2> QED
      BY <2>1, <2>2, <2>3 DEF StoreInit, StoreTypeOK, Files
<1>2. \A c \in Callers : call[c].pc = "idle"
    BY DEF StoreInit, Idle
<1>3. given = {} /\ data = Missing
    BY DEF StoreInit
<1> QED
    BY <1>1, <1>2, <1>3
    DEF StoreInv, LoadedInv, SeenInv, KeyInv, AloneInv, DiskInv, GivenInv, Writing, Saving

(* A call that goes on with the object in memory, or with the file.        *)
LEMMA ProceedKeeps ==
    ASSUME StoreInv, NEW c \in Callers, NEW op \in Ops, NEW ends \in SUBSET Endpoints,
           NEW d \in Images, Proceed(c, op, ends, d, call), call[c].pc \in {"idle", "loading"},
           tainted' = tainted, mixed' = mixed, tmp' = tmp, disk' = disk,
           faults' \in 0..MaxFaults,
           data = Missing => Kept(disk) = d,
           data # Missing => data = d
    PROVE  StoreInv'
<1> USE DEF StoreInv
<1>1. call \in [Callers -> Calls] /\ StoreTypeOK
    BY DEF StoreTypeOK
<1>2. /\ data' \in Images /\ minted' \in Keys /\ given' \subseteq 1..MaxKeys
      /\ call' \in [Callers -> Calls]
      /\ \A b \in Callers \ {c} : call'[b] = call[b]
      /\ call'[c].op = op /\ call'[c].own = Missing
      /\ call'[c].pc = IF Changes(op, ends, d) THEN "mkdir" ELSE "ok"
      /\ op = "vapid" => call'[c].key = data'.key /\ data'.key # NoKey
      /\ ~Changes(op, ends, d) => data' = d
      /\ d.key # NoKey => data'.key = d.key
      /\ given' = given \/ (given' = given \cup {d.key} /\ d.key # NoKey)
    BY <1>1, Proceeds, SMTT(30)
<1>3. StoreTypeOK'
    BY <1>1, <1>2 DEF StoreTypeOK
<1>4. data' # Missing
    BY <1>2, PushStoreAssumption
<1>5. LoadedInv'
    BY <1>4 DEF LoadedInv
<1>5a. SeenInv'
    BY <1>4 DEF SeenInv
<1>6. \A b \in Callers \ {c} : (Writing(b) <=> Writing(b)') /\ (Saving(b) <=> Saving(b)')
    BY <1>2 DEF Writing, Saving
<1>7. ~Writing(c) /\ ~Writing(c)' /\ ~Saving(c)
    BY <1>2 DEF Writing, Saving
<1>8. KeyInv'
    BY <1>2, <1>6 DEF KeyInv
<1>9. data' = d \/ Due'
    BY <1>2 DEF Due
<1>10. ASSUME Due PROVE Due'
  <2>1. PICK b \in Callers : call[b].pc = "mkdir" /\ call[b].own = Missing
      BY <1>10 DEF Due
  <2>2. b # c
      BY <2>1
  <2> QED
      BY <1>2, <2>1, <2>2 DEF Due
<1>11. ASSUME NEW b \in Callers PROVE AloneInv(b)'
  <2>1. CASE b = c
      BY <1>7, <2>1 DEF AloneInv
  <2>2. CASE b # c
    <3>1. data # Missing \/ ~Writing(b)
        BY DEF LoadedInv, Writing
    <3> QED
        BY <1>2, <1>6, <1>7, <1>9, <1>10, <2>2, <3>1 DEF AloneInv
  <2> QED
      BY <2>1, <2>2
<1>12. DiskInv'
  <2>1. \A b \in Callers : Writing(b)' => Writing(b) /\ call'[b] = call[b]
      BY <1>2, <1>6, <1>7
  <2>2. (\E b \in Callers : Writing(b)) => \E b \in Callers : Writing(b)'
      BY <1>6, <1>7
  <2>3. Kept(disk)' = Kept(disk)
      BY DEF Kept
  <2> QED
      BY <1>9, <1>10, <2>1, <2>2, <2>3 DEF DiskInv
<1>13. ASSUME ~tainted' PROVE GivenInv'
  <2>1. Current = d /\ Current' = data'
      BY <1>4 DEF Current
  <2>2. given \subseteq {d.key}
      BY <1>13, <2>1 DEF GivenInv
  <2>3. given' \subseteq {data'.key}
    <3>1. NoKey \notin given
        BY PushStoreAssumption DEF StoreTypeOK, NoKey
    <3>2. given # {} => d.key # NoKey
        BY <2>2, <3>1
    <3> QED
        BY <1>2, <2>2, <3>2
  <2>4. ASSUME NEW b \in Callers, Saving(b)', call'[b].op = "vapid"
        PROVE  call'[b].key = data'.key
    <3>1. CASE b = c
        BY <1>2, <2>4, <3>1
    <3>2. CASE b # c
      <4>1. Saving(b) /\ call[b].op = "vapid" /\ call'[b] = call[b]
          BY <1>2, <1>6, <2>4, <3>2
      <4>2. data # Missing
          BY <4>1 DEF LoadedInv, Saving, Writing
      <4>3. call[b].key = d.key /\ d.key # NoKey
          BY <1>13, <4>1, <4>2 DEF GivenInv, KeyInv
      <4> QED
          BY <1>2, <4>1, <4>3
    <3> QED
        BY <3>1, <3>2
  <2> QED
      BY <1>4, <2>1, <2>3, <2>4 DEF GivenInv
<1> QED
    BY <1>3, <1>5, <1>5a, <1>8, <1>11, <1>12, <1>13 DEF GivenInv

(* From now on nothing is claimed of what was answered, and of the file.   *)
Loses == tainted' = TRUE /\ mixed' = TRUE

(* A call that starts the state afresh, or whose load was doubled: nothing *)
(* is claimed of the file any more.                                        *)
LEMMA TaintKeeps ==
    ASSUME StoreInv, NEW c \in Callers, NEW op \in Ops, NEW ends \in SUBSET Endpoints,
           NEW d \in Images, NEW others \in [Callers -> Calls], Proceed(c, op, ends, d, others),
           Loses, tmp' = tmp, disk' \in Files, faults' \in 0..MaxFaults,
           \A b \in Callers : /\ others[b].pc = call[b].pc /\ others[b].op = call[b].op
                              /\ others[b].key = call[b].key
                              /\ others[b].alone => ~Writing(b)
    PROVE  StoreInv'
<1> USE DEF StoreInv
<1>1. StoreTypeOK
    OBVIOUS
<1>2. /\ data' \in Images /\ minted' \in Keys /\ given' \subseteq 1..MaxKeys
      /\ call' \in [Callers -> Calls]
      /\ \A b \in Callers \ {c} : call'[b] = others[b]
      /\ call'[c].op = op
      /\ call'[c].pc = IF Changes(op, ends, d) THEN "mkdir" ELSE "ok"
      /\ op = "vapid" => call'[c].key = data'.key /\ data'.key # NoKey
    BY <1>1, Proceeds, SMTT(30)
<1>3. StoreTypeOK'
    BY <1>1, <1>2 DEF StoreTypeOK, Loses
<1>4. data' # Missing
    BY <1>2, PushStoreAssumption
<1>5. LoadedInv' /\ SeenInv'
    BY <1>4 DEF LoadedInv, SeenInv
<1>6. KeyInv'
    BY <1>2 DEF KeyInv, Saving, Writing
<1>7. ASSUME NEW b \in Callers PROVE AloneInv(b)'
    BY <1>2 DEF AloneInv, Writing
<1> QED
    BY <1>3, <1>5, <1>6, <1>7 DEF DiskInv, GivenInv, Loses

LEMMA StartKeeps ==
    ASSUME StoreInv, NEW c \in Callers, NEW op \in Ops, NEW ends \in SUBSET Endpoints,
           StartCall(c, op, ends)
    PROVE  StoreInv'
<1> USE DEF StoreInv
<1>1. CASE data # Missing
  <2>1. data \in Images /\ faults' \in 0..MaxFaults
      BY <1>1 DEF StartCall, StoreTypeOK
  <2>2. /\ Proceed(c, op, ends, data, call) /\ call[c].pc \in {"idle", "loading"}
        /\ tainted' = tainted /\ mixed' = mixed /\ tmp' = tmp /\ disk' = disk
      BY <1>1 DEF StartCall
  <2> QED
      BY <1>1, <2>1, <2>2, ProceedKeeps
<1>2. CASE data = Missing
  <2> DEFINE new == [Idle EXCEPT !.pc = "loading", !.op = op, !.ends = ends, !.seen = disk]
  <2>1. /\ call' = [call EXCEPT ![c] = new]
        /\ UNCHANGED <<data, minted, given, disk, tmp, tainted, mixed, faults>>
      BY <1>2 DEF StartCall
  <2>2. new \in Calls
      BY FreshTyped DEF Calls, StoreTypeOK
  <2>3. new.pc = "loading" /\ new.seen = disk
      BY DEF Idle
  <2>4. call' \in [Callers -> Calls]
      BY <2>1, <2>2 DEF StoreTypeOK
  <2>5. StoreTypeOK'
      BY <2>1, <2>4 DEF StoreTypeOK
  <2>6. \A b \in Callers : call'[b] = IF b = c THEN new ELSE call[b]
      BY <2>1 DEF StoreTypeOK
  <2>7. LoadedInv' /\ SeenInv'
      BY <1>2, <2>1, <2>3, <2>6 DEF LoadedInv, SeenInv
  <2>8. \A b \in Callers : ~Saving(b)' /\ ~Writing(b)'
      BY <1>2, <2>3, <2>6 DEF LoadedInv, Saving, Writing
  <2>9. Current' = Current
      BY <2>1 DEF Current, Kept
  <2>10. KeyInv' /\ DiskInv' /\ \A b \in Callers : AloneInv(b)'
      BY <1>2, <2>1, <2>8 DEF KeyInv, DiskInv, AloneInv
  <2>11. GivenInv'
      BY <2>1, <2>8, <2>9 DEF GivenInv
  <2> QED
      BY <2>5, <2>7, <2>10, <2>11
<1> QED
    BY <1>1, <1>2

LEMMA ReadKeeps ==
    ASSUME StoreInv, NEW c \in Callers, ReadFile(c)
    PROVE  StoreInv'
<1> USE DEF StoreInv
<1>1. PICK read \in {call[c].seen, disk, Garbled} :
        /\ call[c].pc = "loading"
        /\ IF read = Garbled /\ Garbled \notin {call[c].seen, disk} THEN Fault ELSE UNCHANGED faults
        /\ disk' = IF read = Garbled THEN Missing ELSE disk
        /\ Proceed(c, call[c].op, call[c].ends, IF read \in Images THEN read ELSE Fresh,
                   IF data # Missing THEN Orphaned ELSE call)
        /\ tainted' = (tainted \/ data # Missing \/ read = Garbled)
        /\ mixed' = (mixed \/ data # Missing \/ read = Garbled)
        /\ UNCHANGED tmp
    BY DEF ReadFile
<1> DEFINE d == IF read \in Images THEN read ELSE Fresh
<1>2. call[c] \in Calls /\ call[c].op \in Ops /\ call[c].ends \in SUBSET Endpoints
    BY DEF StoreTypeOK, Calls
<1>3. faults' \in 0..MaxFaults
    BY <1>1, PushStoreAssumption DEF Fault, StoreTypeOK
<1>4. d \in Images
    BY FreshTyped
<1>5. disk' \in Files
    BY <1>1 DEF StoreTypeOK, Files
<1>6. CASE data = Missing /\ read # Garbled
  <2>1. read = disk
      BY <1>1, <1>6 DEF SeenInv
  <2>2. Kept(disk) = d
      BY <2>1 DEF Kept
  <2>3. /\ Proceed(c, call[c].op, call[c].ends, d, call) /\ disk' = disk /\ tmp' = tmp
        /\ tainted' = tainted /\ mixed' = mixed
      BY <1>1, <1>6 DEF StoreTypeOK
  <2> QED
      BY <1>1, <1>2, <1>3, <1>4, <1>6, <2>2, <2>3, ProceedKeeps
<1>7. CASE data # Missing \/ read = Garbled
  <2> DEFINE others == IF data # Missing THEN Orphaned ELSE call
  <2>1. Proceed(c, call[c].op, call[c].ends, d, others) /\ tmp' = tmp /\ Loses
      BY <1>1, <1>7 DEF Loses
  <2>2. others \in [Callers -> Calls]
    <3>1. CASE data # Missing
      <4>1. ASSUME NEW b \in Callers PROVE Orphaned[b] \in Calls
          BY <3>1, <4>1, ZenonT(60) DEF Orphaned, Calls, StoreTypeOK
      <4> QED
          BY <3>1, <4>1 DEF Orphaned
    <3>2. CASE data = Missing
        BY <3>2 DEF StoreTypeOK
    <3> QED
        BY <3>1, <3>2
  <2>3. ASSUME NEW b \in Callers
        PROVE  /\ others[b].pc = call[b].pc /\ others[b].op = call[b].op
               /\ others[b].key = call[b].key
               /\ others[b].alone => ~Writing(b)
    <3>1. CASE data # Missing /\ call[b].pc = "mkdir" /\ call[b].own = Missing
        BY <3>1 DEF Orphaned, Writing, StoreTypeOK, Calls
    <3>2. CASE data # Missing /\ ~(call[b].pc = "mkdir" /\ call[b].own = Missing)
        BY <3>2 DEF Orphaned, Writing, StoreTypeOK, Calls
    <3>3. CASE data = Missing
        BY <3>3 DEF LoadedInv, Writing
    <3> QED
        BY <3>1, <3>2, <3>3
  <2>4. \A b \in Callers :
            /\ others[b].pc = call[b].pc /\ others[b].op = call[b].op
            /\ others[b].key = call[b].key
            /\ others[b].alone => ~Writing(b)
      BY <2>3
  <2>5. tmp' = tmp /\ Loses
      BY <2>1
  <2> HIDE DEF others, d, StoreInv
  <2> QED
      BY <1>2, <1>3, <1>4, <1>5, <2>1, <2>2, <2>4, <2>5, TaintKeeps
<1> QED
    BY <1>6, <1>7

-----------------------------------------------------------------------------
LEMMA EndedTyped ==
    ASSUME NEW c \in Callers, call[c] \in Calls, NEW pc \in {"ok", "failed"}
    PROVE  /\ Ended(c, pc) \in Calls /\ Ended(c, pc).pc = pc
           /\ Ended(c, pc).op = call[c].op /\ Ended(c, pc).key = call[c].key
BY FreshTyped DEF Ended, Idle, Calls

LEMMA SnapshotKeeps ==
    ASSUME StoreInv, NEW c \in Callers, Snapshot(c)
    PROVE  StoreInv'
<1> USE DEF StoreInv
<1> DEFINE image == IF call[c].own # Missing THEN call[c].own ELSE data
           alone == call[c].own = Missing /\ \A b \in Callers : ~Writing(b)
<1>1. /\ call[c].pc = "mkdir" /\ mixed' = (mixed \/ ~alone)
      /\ UNCHANGED <<data, disk, minted, given, tainted>>
    BY DEF Snapshot
<1>2. PICK name \in {c} \cup {call[b].name : b \in {b \in Callers : Writing(b)}} :
          /\ name \in Callers
          /\ IF name = c THEN UNCHANGED faults ELSE Fault
          /\ call' = [b \in Callers |->
                IF b = c
                THEN [call[c] EXCEPT !.pc = "writing", !.image = image, !.name = name, !.alone = alone]
                ELSE [call[b] EXCEPT !.alone = FALSE]]
          /\ tmp' = [tmp EXCEPT ![name] = Garbled]
    BY DEF Snapshot
<1> DEFINE new == [call[c] EXCEPT !.pc = "writing", !.image = image, !.name = name, !.alone = alone]
<1>3. data # Missing /\ data \in Images
    BY <1>1 DEF LoadedInv, StoreTypeOK
<1>4. \A b \in Callers : call[b] \in Calls
    BY DEF StoreTypeOK
<1>5. /\ new \in Calls
      /\ new.pc = "writing" /\ new.op = call[c].op /\ new.key = call[c].key
      /\ new.image = image /\ new.name = name /\ new.alone = alone
  <2>1. image \in Images
      BY <1>3, <1>4 DEF Calls
  <2>2. alone \in BOOLEAN
      OBVIOUS
  <2> QED
      BY <1>2, <1>4, <2>1, <2>2, ZenonT(60) DEF Calls
<1>6. ASSUME NEW b \in Callers, b # c
      PROVE  /\ call'[b] \in Calls /\ call'[b].alone = FALSE
             /\ call'[b].pc = call[b].pc /\ call'[b].op = call[b].op
             /\ call'[b].key = call[b].key /\ call'[b].own = call[b].own
  <2>1. call'[b] = [call[b] EXCEPT !.alone = FALSE]
      BY <1>2, <1>6
  <2> QED
      BY <1>4, <2>1 DEF Calls
<1>7. call'[c] = new
    BY <1>2
<1> HIDE DEF new
<1>8. StoreTypeOK'
  <2>1. faults' \in 0..MaxFaults
    <3>1. faults' = faults \/ (faults < MaxFaults /\ faults' = faults + 1)
        BY <1>2 DEF Fault
    <3> QED
        BY <3>1, PushStoreAssumption DEF StoreTypeOK
  <2>2. tmp' \in [Callers -> Files]
      BY <1>2 DEF StoreTypeOK, Files
  <2>3. call' \in [Callers -> Calls]
    <3>1. \A b \in Callers : call'[b] \in Calls
        BY <1>5, <1>6, <1>7
    <3>2. call' = [b \in Callers |-> call'[b]]
        BY <1>2
    <3> QED
        BY <3>1, <3>2
  <2>4. mixed' \in BOOLEAN
      BY <1>1 DEF StoreTypeOK
  <2> QED
      BY <1>1, <2>1, <2>2, <2>3, <2>4 DEF StoreTypeOK
<1>9. LoadedInv' /\ SeenInv'
    BY <1>1, <1>3 DEF LoadedInv, SeenInv
<1>10. \A b \in Callers : Saving(b)' => Saving(b)
    BY <1>1, <1>6 DEF Saving, Writing
<1>11. \A b \in Callers : call'[b].op = call[b].op /\ call'[b].key = call[b].key
    BY <1>5, <1>6, <1>7
<1>12. KeyInv'
    BY <1>1, <1>5, <1>6, <1>7, <1>10, <1>11 DEF KeyInv
<1>13. ASSUME alone PROVE DiskInv' /\ \A b \in Callers : AloneInv(b)'
  <2>1. name = c /\ image = data
      BY <1>2, <1>13
  <2>2. \A b \in Callers : Writing(b)' <=> b = c
      BY <1>5, <1>6, <1>7, <1>13 DEF Writing
  <2>3. call'[c].name = c /\ call'[c].pc = "writing" /\ call'[c].image = data' /\ call'[c].alone
      BY <1>1, <1>5, <1>7, <1>13, <2>1
  <2>4. \A b \in Callers : AloneInv(b)'
      BY <2>2, <2>3 DEF AloneInv
  <2>5. DiskInv'
      BY <2>2, <2>3 DEF DiskInv
  <2> QED
      BY <2>4, <2>5
<1>14. ASSUME ~alone PROVE DiskInv' /\ \A b \in Callers : AloneInv(b)'
  <2>1. \A b \in Callers : ~call'[b].alone
      BY <1>5, <1>6, <1>7, <1>14
  <2>2. \A b \in Callers : AloneInv(b)'
      BY <2>1 DEF AloneInv
  <2>3. DiskInv'
      BY <1>1, <1>14 DEF DiskInv
  <2> QED
      BY <2>2, <2>3
<1>15. GivenInv'
  <2>1. Current' = Current
      BY <1>1 DEF Current, Kept
  <2> QED
      BY <1>1, <1>10, <1>11, <2>1 DEF GivenInv
<1> QED
    BY <1>8, <1>9, <1>12, <1>13, <1>14, <1>15

LEMMA WrittenKeeps ==
    ASSUME StoreInv, NEW c \in Callers, Written(c)
    PROVE  StoreInv'
<1> USE DEF StoreInv
<1> DEFINE name   == call[c].name
           shared == \E b \in Callers \ {c} : Writing(b) /\ call[b].name = name
<1>1. /\ call[c].pc = "writing" /\ call' = [call EXCEPT ![c].pc = "renaming"]
      /\ UNCHANGED <<data, minted, given, tainted, mixed, faults>>
    BY DEF Written
<1>2. PICK content \in {call[c].image} \cup (IF shared \/ name = "disk" THEN {Garbled} ELSE {}) :
          /\ tmp' = IF name \in Callers THEN [tmp EXCEPT ![name] = content] ELSE tmp
          /\ disk' = IF name = "disk" THEN content ELSE disk
    BY DEF Written
<1>3. data # Missing
    BY <1>1 DEF LoadedInv
<1>4. \A b \in Callers : call[b] \in Calls
    BY DEF StoreTypeOK
<1>5. /\ call'[c] \in Calls /\ call'[c].pc = "renaming"
      /\ \A b \in Callers \ {c} : call'[b] = call[b]
      /\ call'[c].op = call[c].op /\ call'[c].key = call[c].key /\ call'[c].own = call[c].own
      /\ call'[c].image = call[c].image /\ call'[c].name = name /\ call'[c].alone = call[c].alone
    BY <1>1, <1>4 DEF Calls, StoreTypeOK
<1>6. content \in Files
    BY <1>2, <1>4 DEF Calls, Files
<1>7. StoreTypeOK'
  <2>1. tmp' \in [Callers -> Files] /\ disk' \in Files
      BY <1>2, <1>6 DEF StoreTypeOK
  <2>2. call' \in [Callers -> Calls]
      BY <1>1, <1>5 DEF StoreTypeOK
  <2> QED
      BY <1>1, <2>1, <2>2 DEF StoreTypeOK
<1>8. LoadedInv' /\ SeenInv'
    BY <1>1, <1>3 DEF LoadedInv, SeenInv
<1>9. \A b \in Callers : (Saving(b)' <=> Saving(b)) /\ (Writing(b)' <=> Writing(b))
    BY <1>1, <1>5 DEF Saving, Writing
<1>10. KeyInv'
    BY <1>5, <1>9 DEF KeyInv
<1>11. Due' <=> Due
    BY <1>1, <1>5 DEF Due
<1>12. Writing(c)
    BY <1>1 DEF Writing
<1>13. ASSUME call[c].alone PROVE name = c /\ name # "disk" /\ tmp'[c] = call[c].image /\ disk' = disk
  <2>1. name = c /\ ~shared
      BY <1>12, <1>13 DEF AloneInv
  <2>2. name # "disk"
      BY <2>1, PushStoreAssumption
  <2>3. content = call[c].image
      BY <2>1, <2>2
  <2> QED
      BY <1>2, <2>1, <2>2, <2>3 DEF StoreTypeOK
<1>14. ASSUME NEW b \in Callers PROVE AloneInv(b)'
  <2>1. CASE b = c
      BY <1>1, <1>5, <1>9, <1>11, <1>12, <1>13, <2>1 DEF AloneInv
  <2>2. CASE b # c
    <3>1. call'[b] = call[b] /\ (Writing(b)' => Writing(b))
        BY <1>5, <1>9, <2>2
    <3>2. Writing(b) /\ call[b].alone => ~Writing(c)
        BY <2>2 DEF AloneInv
    <3> QED
        BY <1>12, <3>1, <3>2 DEF AloneInv
  <2> QED
      BY <2>1, <2>2
<1>15. DiskInv'
  <2>1. SUFFICES ASSUME ~mixed' PROVE DiskInv'
      BY DEF DiskInv
  <2>2. /\ \A b \in Callers : Writing(b) => call[b].alone
        /\ data # Missing => Kept(disk) = data \/ Due \/ \E b \in Callers : Writing(b)
      BY <1>1, <2>1 DEF DiskInv
  <2>3. \A b \in Callers : Writing(b)' => call'[b].alone
      BY <1>5, <1>9, <2>2
  <2> QED
      BY <1>9, <1>12, <2>3 DEF DiskInv
<1>16. GivenInv'
  <2>1. Current' = Current
      BY <1>1, <1>3 DEF Current
  <2>2. \A b \in Callers : call'[b].op = call[b].op /\ call'[b].key = call[b].key
      BY <1>5
  <2> QED
      BY <1>1, <1>9, <2>1, <2>2 DEF GivenInv
<1> QED
    BY <1>7, <1>8, <1>10, <1>14, <1>15, <1>16

LEMMA RenameKeeps ==
    ASSUME StoreInv, NEW c \in Callers, Rename(c)
    PROVE  StoreInv'
<1> USE DEF StoreInv
<1> DEFINE name == call[c].name
<1>1. /\ call[c].pc = "renaming" /\ name \in Callers
      /\ disk' = tmp[name] /\ tmp' = [tmp EXCEPT ![name] = Missing]
      /\ call' = [Elsewhere(name) EXCEPT ![c] = Ended(c, "ok")]
      /\ mixed' = (mixed /\ ~call[c].alone)
      /\ given' = IF call[c].op = "vapid" THEN given \cup {call[c].key} ELSE given
      /\ UNCHANGED <<data, minted, tainted, faults>>
    BY DEF Rename
<1>2. \A b \in Callers : call[b] \in Calls
    BY DEF StoreTypeOK
<1>3. Writing(c) /\ Saving(c) /\ data # Missing
    BY <1>1 DEF Writing, Saving, LoadedInv
<1>4. /\ call'[c] = Ended(c, "ok") /\ Ended(c, "ok") \in Calls /\ Ended(c, "ok").pc = "ok"
      /\ call'[c].op = call[c].op /\ call'[c].key = call[c].key
  <2>1. /\ Ended(c, "ok") \in Calls /\ Ended(c, "ok").pc = "ok"
        /\ Ended(c, "ok").op = call[c].op /\ Ended(c, "ok").key = call[c].key
      BY <1>2, EndedTyped
  <2> QED
      BY <1>1, <2>1 DEF Elsewhere
<1>5. ASSUME NEW b \in Callers, b # c
      PROVE  /\ call'[b] \in Calls
             /\ call'[b].pc = call[b].pc /\ call'[b].op = call[b].op /\ call'[b].key = call[b].key
             /\ call'[b].own = call[b].own
  <2>1. call'[b] = Elsewhere(name)[b]
      BY <1>1, <1>5 DEF Elsewhere
  <2>2. \/ call'[b] = call[b]
        \/ \E n \in {"disk", "lost"} : call'[b] = [call[b] EXCEPT !.name = n]
      BY <2>1 DEF Elsewhere
  <2>3. CASE call'[b] = call[b]
      BY <1>2, <2>3
  <2>4. CASE \E n \in {"disk", "lost"} : call'[b] = [call[b] EXCEPT !.name = n]
      BY <1>2, <2>4 DEF Calls
  <2> QED
      BY <2>2, <2>3, <2>4
<1>6. StoreTypeOK'
  <2>1. tmp' \in [Callers -> Files] /\ disk' \in Files
      BY <1>1 DEF StoreTypeOK, Files
  <2>2. call' \in [Callers -> Calls]
    <3>1. \A b \in Callers : call'[b] \in Calls
        BY <1>4, <1>5
    <3>2. call' = [b \in Callers |-> call'[b]]
        BY <1>1 DEF Elsewhere
    <3> QED
        BY <3>1, <3>2
  <2>3. given' \subseteq 1..MaxKeys
    <3>1. call[c].op = "vapid" => call[c].key \in Keys /\ call[c].key # NoKey
        BY <1>2, <1>3 DEF Calls, KeyInv
    <3>2. call[c].op = "vapid" => call[c].key \in 1..MaxKeys
        BY <3>1, PushStoreAssumption DEF Keys, NoKey
    <3> QED
        BY <1>1, <3>2 DEF StoreTypeOK
  <2>4. mixed' \in BOOLEAN
      BY <1>1 DEF StoreTypeOK
  <2> QED
      BY <1>1, <2>1, <2>2, <2>3, <2>4 DEF StoreTypeOK
<1>7. LoadedInv' /\ SeenInv'
    BY <1>1, <1>3 DEF LoadedInv, SeenInv
<1>8. \A b \in Callers : /\ Saving(b)' => Saving(b) /\ b # c
                         /\ Writing(b)' => Writing(b) /\ b # c
    BY <1>4, <1>5 DEF Saving, Writing
<1>9. KeyInv'
    BY <1>3, <1>4, <1>5, <1>8 DEF KeyInv
<1>10. ASSUME NEW b \in Callers PROVE ~(Writing(b)' /\ call'[b].alone)
  <2>1. SUFFICES ASSUME Writing(b)', call'[b].alone PROVE FALSE
      OBVIOUS
  <2>2. b # c /\ Writing(b)
      BY <1>8, <2>1
  <2>3. call'[b].alone = call[b].alone
    <3>1. call'[b] = Elsewhere(name)[b]
        BY <1>1, <2>2 DEF Elsewhere
    <3>2. \/ call'[b] = call[b]
          \/ \E n \in {"disk", "lost"} : call'[b] = [call[b] EXCEPT !.name = n]
        BY <3>1 DEF Elsewhere
    <3>3. CASE call'[b] = call[b]
        BY <3>3
    <3>4. CASE \E n \in {"disk", "lost"} : call'[b] = [call[b] EXCEPT !.name = n]
        BY <1>2, <3>4 DEF Calls
    <3> QED
        BY <3>2, <3>3, <3>4
  <2> QED
      BY <1>3, <2>1, <2>2, <2>3 DEF AloneInv
<1>11. \A b \in Callers : AloneInv(b)'
    BY <1>10 DEF AloneInv
<1>12. ASSUME ~mixed'
       PROVE  /\ \A b \in Callers : ~Writing(b)'
              /\ Kept(disk)' = data' \/ Due'
  <2>1. call[c].alone
      BY <1>1, <1>3, <1>12 DEF DiskInv
  <2>2. /\ name = c
        /\ tmp[c] = call[c].image
        /\ call[c].image = data \/ Due
        /\ \A b \in Callers \ {c} : ~Writing(b)
      BY <1>1, <1>3, <2>1 DEF AloneInv
  <2>3. \A b \in Callers : ~Writing(b)'
      BY <1>8, <2>2
  <2>4. Due => Due'
    <3>1. SUFFICES ASSUME Due PROVE Due'
        OBVIOUS
    <3>2. PICK b \in Callers : call[b].pc = "mkdir" /\ call[b].own = Missing
        BY <3>1 DEF Due
    <3>3. b # c
        BY <1>1, <3>2
    <3> QED
        BY <1>5, <3>2, <3>3 DEF Due
  <2>5. Kept(disk)' = call[c].image
    <3>1. disk' = tmp[c]
        BY <1>1, <2>2
    <3>2. tmp[c] = call[c].image
        BY <2>2
    <3>3. call[c].image \in Images
        BY <1>2 DEF Calls
    <3> QED
        BY <3>1, <3>2, <3>3 DEF Kept
  <2> QED
      BY <1>1, <2>2, <2>3, <2>4, <2>5
<1>13. DiskInv'
    BY <1>12 DEF DiskInv
<1>14. GivenInv'
  <2>1. SUFFICES ASSUME ~tainted' PROVE GivenInv'
      BY DEF GivenInv
  <2>2. /\ given \subseteq {data.key}
        /\ \A b \in Callers : Saving(b) /\ call[b].op = "vapid" => call[b].key = data.key
      BY <1>1, <1>3, <2>1 DEF GivenInv, Current
  <2>3. given' \subseteq {data.key}
      BY <1>1, <1>3, <2>2
  <2>4. Current' = data
      BY <1>1, <1>3 DEF Current
  <2>5. \A b \in Callers : Saving(b)' /\ call'[b].op = "vapid" => call'[b].key = data'.key
      BY <1>1, <1>5, <1>8, <2>2
  <2> QED
      BY <2>3, <2>4, <2>5 DEF GivenInv
<1> QED
    BY <1>6, <1>7, <1>9, <1>11, <1>13, <1>14

LEMMA FailsKeeps ==
    ASSUME StoreInv, NEW c \in Callers, SaveFails(c)
    PROVE  StoreInv'
<1> USE DEF StoreInv
<1>1. /\ Saving(c)
      /\ IF call[c].pc = "renaming" /\ call[c].name \notin Callers THEN UNCHANGED faults ELSE Fault
      /\ call' = [b \in Callers |-> IF b = c THEN Ended(c, "failed") ELSE [call[b] EXCEPT !.alone = FALSE]]
      /\ mixed' = TRUE
      /\ UNCHANGED <<data, disk, tmp, minted, given, tainted>>
    BY DEF SaveFails
<1>2. \A b \in Callers : call[b] \in Calls
    BY DEF StoreTypeOK
<1>3. data # Missing
    BY <1>1 DEF LoadedInv, Saving, Writing
<1>4. call'[c] \in Calls /\ call'[c].pc = "failed"
  <2>1. Ended(c, "failed") \in Calls /\ Ended(c, "failed").pc = "failed"
      BY <1>2, EndedTyped
  <2> QED
      BY <1>1, <2>1
<1>5. ASSUME NEW b \in Callers, b # c
      PROVE  /\ call'[b] \in Calls /\ call'[b].alone = FALSE
             /\ call'[b].pc = call[b].pc /\ call'[b].op = call[b].op /\ call'[b].key = call[b].key
  <2>1. call'[b] = [call[b] EXCEPT !.alone = FALSE]
      BY <1>1, <1>5
  <2> QED
      BY <1>2, <2>1 DEF Calls
<1>6. StoreTypeOK'
  <2>1. faults' \in 0..MaxFaults
    <3>1. faults' = faults \/ (faults < MaxFaults /\ faults' = faults + 1)
        BY <1>1 DEF Fault
    <3> QED
        BY <3>1, PushStoreAssumption DEF StoreTypeOK
  <2>2. call' \in [Callers -> Calls]
    <3>1. \A b \in Callers : call'[b] \in Calls
        BY <1>4, <1>5
    <3>2. call' = [b \in Callers |-> call'[b]]
        BY <1>1
    <3> QED
        BY <3>1, <3>2
  <2>3. mixed' \in BOOLEAN
      BY <1>1
  <2> QED
      BY <1>1, <2>1, <2>2, <2>3 DEF StoreTypeOK
<1>7. LoadedInv' /\ SeenInv'
    BY <1>1, <1>3 DEF LoadedInv, SeenInv
<1>8. \A b \in Callers : Saving(b)' => Saving(b) /\ b # c
    BY <1>4, <1>5 DEF Saving, Writing
<1>9. KeyInv'
    BY <1>4, <1>5, <1>8 DEF KeyInv
<1>10. ASSUME NEW b \in Callers PROVE AloneInv(b)'
    BY <1>4, <1>5 DEF AloneInv, Writing
<1>11. DiskInv'
    BY <1>1 DEF DiskInv
<1>12. GivenInv'
  <2>1. Current' = Current
      BY <1>1, <1>3 DEF Current
  <2> QED
      BY <1>1, <1>5, <1>8, <2>1 DEF GivenInv
<1> QED
    BY <1>6, <1>7, <1>9, <1>10, <1>11, <1>12

LEMMA EndKeeps ==
    ASSUME StoreInv, NEW c \in Callers, EndCall(c)
    PROVE  StoreInv'
<1> USE DEF StoreInv
<1>1. /\ call[c].pc \in {"ok", "failed"} /\ call' = [call EXCEPT ![c] = Idle]
      /\ UNCHANGED <<data, disk, tmp, minted, given, tainted, mixed, faults>>
    BY DEF EndCall
<1>2. /\ call' \in [Callers -> Calls] /\ call'[c].pc = "idle"
      /\ \A b \in Callers \ {c} : call'[b] = call[b]
    BY <1>1, FreshTyped DEF Idle, StoreTypeOK
<1>3. StoreTypeOK'
    BY <1>1, <1>2 DEF StoreTypeOK
<1>4. data # Missing
    BY <1>1 DEF LoadedInv
<1>5. LoadedInv' /\ SeenInv'
    BY <1>1, <1>4 DEF LoadedInv, SeenInv
<1>6. /\ \A b \in Callers \ {c} : (Saving(b)' <=> Saving(b)) /\ (Writing(b)' <=> Writing(b))
      /\ ~Saving(c) /\ ~Writing(c) /\ ~Saving(c)' /\ ~Writing(c)'
    BY <1>1, <1>2 DEF Saving, Writing
<1>7. KeyInv'
    BY <1>2, <1>6 DEF KeyInv
<1>8. Due' <=> Due
    BY <1>1, <1>2 DEF Due
<1>9. ASSUME NEW b \in Callers PROVE AloneInv(b)'
    BY <1>1, <1>2, <1>6, <1>8 DEF AloneInv
<1>10. DiskInv'
  <2>1. Kept(disk)' = Kept(disk)
      BY <1>1 DEF Kept
  <2>2. (\E b \in Callers : Writing(b)) => \E b \in Callers : Writing(b)'
      BY <1>6
  <2>3. \A b \in Callers : Writing(b)' => Writing(b) /\ call'[b] = call[b]
      BY <1>2, <1>6
  <2> QED
      BY <1>1, <1>8, <2>1, <2>2, <2>3 DEF DiskInv
<1>11. GivenInv'
  <2>1. Current' = Current
      BY <1>1, <1>4 DEF Current
  <2> QED
      BY <1>1, <1>2, <1>6, <2>1 DEF GivenInv
<1> QED
    BY <1>3, <1>5, <1>7, <1>9, <1>10, <1>11

LEMMA CrashKeeps ==
    ASSUME StoreInv, Crash
    PROVE  StoreInv'
<1> USE DEF StoreInv
<1>1. /\ faults < MaxFaults /\ faults' = faults + 1
      /\ data' = Missing
      /\ call' = [c \in Callers |-> Idle] /\ tmp' = [c \in Callers |-> Missing]
      /\ disk' \in IF \E c \in Callers : call[c].pc = "writing" /\ call[c].name = "disk"
                   THEN {disk, Garbled} ELSE {disk}
      /\ tainted' = (tainted \/ mixed \/ \E c \in Callers : Saving(c))
      /\ UNCHANGED <<minted, given, mixed>>
    BY DEF Crash, Fault
<1>2. StoreTypeOK'
  <2>1. faults' \in 0..MaxFaults
      BY <1>1, PushStoreAssumption DEF StoreTypeOK
  <2>2. call' \in [Callers -> Calls] /\ tmp' \in [Callers -> Files]
      BY <1>1, FreshTyped DEF Files
  <2>3. disk' \in Files /\ data' \in Images \cup {Missing}
      BY <1>1 DEF StoreTypeOK, Files
  <2>4. tainted' \in BOOLEAN
      BY <1>1 DEF StoreTypeOK
  <2> QED
      BY <1>1, <2>1, <2>2, <2>3, <2>4 DEF StoreTypeOK
<1>3. \A c \in Callers : call'[c].pc = "idle"
    BY <1>1 DEF Idle
<1>4. LoadedInv' /\ SeenInv' /\ KeyInv' /\ \A c \in Callers : AloneInv(c)'
    BY <1>3 DEF LoadedInv, SeenInv, KeyInv, AloneInv, Saving, Writing
<1>5. DiskInv'
    BY <1>1, <1>3 DEF DiskInv, Writing
<1>6. ASSUME ~tainted' PROVE given' \subseteq {Current'.key}
  <2>1. ~tainted /\ ~mixed /\ \A c \in Callers : ~Saving(c)
      BY <1>1, <1>6
  <2>2. ~Due /\ \A c \in Callers : ~Writing(c) /\ call[c].pc # "writing"
      BY <2>1 DEF Due, Saving, Writing
  <2>3. disk' = disk
      BY <1>1, <2>2
  <2>4. data # Missing => Kept(disk) = data
      BY <2>1, <2>2 DEF DiskInv
  <2>5. Current' = Current
      BY <1>1, <2>3, <2>4 DEF Current, Kept
  <2> QED
      BY <1>1, <2>1, <2>5 DEF GivenInv
<1>7. GivenInv'
    BY <1>3, <1>6 DEF GivenInv, Saving, Writing
<1> QED
    BY <1>2, <1>4, <1>5, <1>7

LEMMA StutterStore ==
    ASSUME StoreInv, UNCHANGED storeVars
    PROVE  StoreInv'
BY DEF StoreInv, storeVars, StoreTypeOK, LoadedInv, SeenInv, KeyInv, AloneInv, DiskInv, GivenInv,
       Due, Writing, Saving, Current, Kept

LEMMA StoreKeeps ==
    ASSUME StoreInv, [StoreNext]_storeVars
    PROVE  StoreInv'
<1>1. CASE Crash
    BY <1>1, CrashKeeps
<1>2. ASSUME NEW c \in Callers, StoreStep(c) PROVE StoreInv'
    BY <1>2, ReadKeeps, SnapshotKeeps, WrittenKeeps, RenameKeeps, FailsKeeps DEF StoreStep
<1>3. ASSUME NEW c \in Callers, EndCall(c) PROVE StoreInv'
    BY <1>3, EndKeeps
<1>4. ASSUME NEW c \in Callers, NEW op \in Ops, NEW ends \in SUBSET Endpoints, StartCall(c, op, ends)
      PROVE  StoreInv'
    BY <1>4, StartKeeps
<1>5. CASE UNCHANGED storeVars
    BY <1>5, StutterStore
<1> QED
    BY <1>1, <1>2, <1>3, <1>4, <1>5 DEF StoreNext

LEMMA StoreSafe == ASSUME StoreInv PROVE StoreTypeOK /\ KeysKept /\ DiskCurrent
<1>1. KeysKept
    BY DEF StoreInv, GivenInv, KeysKept
<1>2. ASSUME \A c \in Callers : ~Saving(c) PROVE ~Due /\ \A c \in Callers : ~Writing(c)
    BY <1>2 DEF Due, Saving, Writing
<1>3. DiskCurrent
    BY <1>2 DEF StoreInv, DiskInv, DiskCurrent
<1> QED
    BY <1>1, <1>3 DEF StoreInv

(* However many calls, and whatever they ask for: a key given to a phone   *)
(* stays the store's key, and the file is what is in memory, outside the   *)
(* faults the two properties name.                                         *)
THEOREM StorePersists == StoreSpec => [](KeysKept /\ DiskCurrent)
<1>1. StoreInv /\ [StoreNext]_storeVars => StoreInv'
    BY StoreKeeps
<1>2. StoreInv => KeysKept /\ DiskCurrent
    BY StoreSafe
<1> QED
    BY InitStore, <1>1, <1>2, PTL DEF StoreSpec

-----------------------------------------------------------------------------
(***************************************************************************)
(* The phone's flows.  Of the store they need that a call keeps what it    *)
(* was asked for, and that a key that comes is one.                        *)
(***************************************************************************)
Ending == {"report", "reported", "forget", "forgot", "drop"}

(* What a flow that waits has in hand.                                     *)
Holds(f) == (f.pc \in Ending => f.end \in Endpoints) /\ (f.pc = "browser" => f.key # NoKey)

WaitsInv ==
    \A c \in Callers : Holds(flow[c]) /\ (flow[c].pc = "key" => call[c].op = "vapid")

(* What a flow that is alone has done to the toggle and the subscription,  *)
(* with flag fl, subscription s and accepted endpoints acc.                *)
Backs(f, fl, s, acc) ==
    IF f.pc = "idle" THEN fl => s \in acc
    ELSE /\ f.kind = "off" => ~fl
         /\ f.kind = "auto" /\ fl => s \in acc /\ f.pc \in {"find", "report", "reported"}
         /\ f.kind # "off" /\ f.pc \in {"report", "reported"} => f.end = s
         /\ f.pc \in {"forget", "forgot", "drop"} => f.kind = "off"

BackedInv ==
    ~crossed =>
        /\ \A b, c \in Callers : flow[b].pc # "idle" /\ flow[c].pc # "idle" => b = c
        /\ Quiet /\ flag => sub \in accepted
        /\ \A c \in Callers : flow[c].pc # "idle" => Backs(flow[c], flag, sub, accepted)

PhoneTypeOK ==
    /\ flag \in BOOLEAN
    /\ sub \in Endpoints \cup {None}
    /\ made \in [Endpoints -> Keys]
    /\ sub # None => made[sub] # NoKey
    /\ flow \in [Callers -> Flows]
    /\ accepted \subseteq Endpoints
    /\ crossed \in BOOLEAN /\ unheard \in BOOLEAN
    /\ events \in 0..MaxEvents

PhoneInv == PhoneTypeOK /\ WaitsInv /\ BackedInv

LEMMA NoFlowTyped ==
    NoFlow \in Flows /\ NoFlow.pc = "idle" /\ Holds(NoFlow)
BY PushStoreAssumption DEF NoFlow, Flows, Holds, Ending, Keys, NoKey

LEMMA InitPhone == Init => PhoneInv
<1> SUFFICES ASSUME Init PROVE PhoneInv
    OBVIOUS
<1>1. NoKey \in Keys /\ 0 \in 0..MaxEvents
    BY PushStoreAssumption, PushChannelAssumption DEF Keys, NoKey
<1>2. flow = [c \in Callers |-> NoFlow]
    BY DEF Init
<1>3. PhoneTypeOK
    BY <1>1, <1>2, NoFlowTyped DEF Init, PhoneTypeOK
<1>4. WaitsInv
    BY <1>2, NoFlowTyped DEF WaitsInv
<1>5. ~flag
    BY DEF Init
<1>6. BackedInv
    BY <1>2, <1>5, NoFlowTyped DEF BackedInv
<1> QED
    BY <1>3, <1>4, <1>6 DEF PhoneInv

(* Where the phone has no step, the store's calls keep what they were      *)
(* asked for, at least those a flow waits for.                             *)
LEMMA HostMoves ==
    ASSUME PhoneInv, UNCHANGED phoneVars, events' \in 0..MaxEvents,
           \A c \in Callers : flow[c].pc = "key" => call'[c].op = call[c].op
    PROVE  PhoneInv'
<1>1. PhoneTypeOK'
    BY DEF PhoneInv, PhoneTypeOK, phoneVars
<1>2. WaitsInv'
    BY DEF PhoneInv, WaitsInv, phoneVars
<1>3. BackedInv'
    BY DEF PhoneInv, BackedInv, Quiet, phoneVars
<1> QED
    BY <1>1, <1>2, <1>3 DEF PhoneInv

(* A flow takes a step and is then as new says.                            *)
LEMMA FlowMoves ==
    ASSUME PhoneInv, NEW c \in Callers, flow[c].pc # "idle", NEW new \in Flows,
           flow' = [flow EXCEPT ![c] = new], Holds(new),
           new.pc = "key" => call'[c].op = "vapid",
           \A b \in Callers \ {c} : call'[b].op = call[b].op,
           flag' \in BOOLEAN, unheard' \in BOOLEAN, crossed' = crossed, events' = events,
           sub' \in Endpoints \cup {None}, made' \in [Endpoints -> Keys],
           sub' # None => made'[sub'] # NoKey,
           accepted' \subseteq Endpoints,
           Backs(flow[c], flag, sub, accepted) => Backs(new, flag', sub', accepted')
    PROVE  PhoneInv'
<1>1. flow \in [Callers -> Flows]
    BY DEF PhoneInv, PhoneTypeOK
<1>2. /\ flow' \in [Callers -> Flows] /\ flow'[c] = new
      /\ \A b \in Callers \ {c} : flow'[b] = flow[b]
    BY <1>1
<1>3. PhoneTypeOK'
    BY <1>2 DEF PhoneInv, PhoneTypeOK
<1>4. WaitsInv'
    BY <1>2 DEF PhoneInv, WaitsInv
<1>5. BackedInv'
  <2>1. SUFFICES ASSUME ~crossed' PROVE BackedInv'
      BY DEF BackedInv
  <2>2. /\ \A b \in Callers \ {c} : flow[b].pc = "idle"
        /\ Backs(flow[c], flag, sub, accepted)
      BY <2>1 DEF PhoneInv, BackedInv
  <2>3. \A b \in Callers \ {c} : flow'[b].pc = "idle"
      BY <1>2, <2>2
  <2>4. Backs(new, flag', sub', accepted')
      BY <2>2
  <2>5. new.pc = "idle" /\ flag' => sub' \in accepted'
      BY <2>4 DEF Backs
  <2> QED
      BY <1>2, <2>3, <2>4, <2>5 DEF BackedInv, Quiet
<1> QED
    BY <1>3, <1>4, <1>5 DEF PhoneInv

-----------------------------------------------------------------------------
(***************************************************************************)
(* What the actions of a flow are made of.                                 *)
(***************************************************************************)
Steps == {"idle", "find", "ask", "key", "browser", "report", "reported", "forget", "forgot", "drop"}

LEMMA PcMoves ==
    ASSUME PhoneInv, NEW c \in Callers, NEW p \in Steps
    PROVE  LET new == [flow[c] EXCEPT !.pc = p]
           IN  /\ new \in Flows /\ new.pc = p /\ new.kind = flow[c].kind
               /\ new.end = flow[c].end /\ new.key = flow[c].key
               /\ Await(c, p) => flow' = [flow EXCEPT ![c] = new]
<1>1. flow \in [Callers -> Flows] /\ flow[c] \in Flows
    BY DEF PhoneInv, PhoneTypeOK
<1> QED
    BY <1>1 DEF Flows, Steps, Await

LEMMA StartAsks ==
    ASSUME StoreInv, NEW c \in Callers, NEW op \in Ops, NEW ends \in SUBSET Endpoints, StartCall(c, op, ends)
    PROVE  call'[c].op = op /\ \A b \in Callers \ {c} : call'[b] = call[b]
<1>1. StoreTypeOK /\ call \in [Callers -> Calls]
    BY DEF StoreInv, StoreTypeOK
<1>2. CASE data # Missing
  <2>1. data \in Images /\ Proceed(c, op, ends, data, call)
      BY <1>1, <1>2 DEF StartCall, StoreTypeOK
  <2> QED
      BY <1>1, <2>1, Proceeds, ZenonT(60)
<1>3. CASE data = Missing
    BY <1>1, <1>3 DEF StartCall, Idle
<1> QED
    BY <1>2, <1>3

(* After a failure the toggle is off, or was never touched.                *)
LEMMA FailureBacks ==
    ASSUME PhoneInv, NEW c \in Callers, flow[c].pc # "idle", flag' = FlagAfterFailure(c)
    PROVE  /\ flag' \in BOOLEAN
           /\ Backs(flow[c], flag, sub, accepted) => Backs(NoFlow, flag', sub, accepted)
<1>1. flow[c].kind \in {"on", "off", "auto"} /\ flag \in BOOLEAN
    BY DEF PhoneInv, PhoneTypeOK, Flows
<1>2. CASE flow[c].kind = "on"
    BY <1>2, NoFlowTyped DEF FlagAfterFailure, Backs
<1>3. CASE flow[c].kind # "on"
  <2>1. flag' = flag
      BY <1>3 DEF FlagAfterFailure
  <2> QED
      BY <1>1, <1>3, <2>1, NoFlowTyped DEF Backs
<1> QED
    BY <1>2, <1>3

LEMMA StartKeepsPhone ==
    ASSUME PhoneInv, NEW c \in Callers, NEW kind \in {"on", "off", "auto"}, Start(c, kind),
           flag' \in BOOLEAN, kind = "off" => ~flag', kind = "auto" => flag /\ flag'
    PROVE  PhoneInv'
<1> DEFINE new == [NoFlow EXCEPT !.kind = kind, !.pc = "find"]
<1>1. /\ flow[c].pc = "idle" /\ flow' = [flow EXCEPT ![c] = new]
      /\ crossed' = (crossed \/ ~Quiet) /\ UNCHANGED <<storeVars, sub, made, accepted, unheard>>
    BY DEF Start
<1>2. events' \in 0..MaxEvents
    BY PushChannelAssumption DEF Start, Event, PhoneInv, PhoneTypeOK
<1>3. new \in Flows /\ new.kind = kind /\ new.pc = "find"
  <2>1. NoFlow \in Flows
      BY NoFlowTyped
  <2> QED
      BY <2>1 DEF Flows
<1>4. call' = call
    BY <1>1 DEF storeVars
<1>5. /\ flow' \in [Callers -> Flows] /\ flow'[c] = new
      /\ \A b \in Callers \ {c} : flow'[b] = flow[b]
    BY <1>1, <1>3 DEF PhoneInv, PhoneTypeOK
<1> HIDE DEF new
<1>6. PhoneTypeOK'
  <2>1. crossed' \in BOOLEAN
      BY <1>1 DEF PhoneInv, PhoneTypeOK
  <2> QED
      BY <1>1, <1>2, <1>5, <2>1 DEF PhoneInv, PhoneTypeOK
<1>7. WaitsInv'
    BY <1>3, <1>4, <1>5 DEF PhoneInv, WaitsInv, Holds, Ending
<1>8. ASSUME ~crossed' PROVE BackedInv'
  <2>1. Quiet /\ ~crossed
      BY <1>1, <1>8
  <2>2. \A b \in Callers \ {c} : flow'[b].pc = "idle"
      BY <1>5, <2>1 DEF Quiet
  <2>3. flag => sub \in accepted
      BY <2>1 DEF PhoneInv, BackedInv
  <2>4. Backs(new, flag', sub', accepted')
      BY <1>1, <1>3, <2>3 DEF Backs
  <2> QED
      BY <1>3, <1>5, <2>2, <2>4 DEF BackedInv, Quiet
<1> QED
    BY <1>6, <1>7, <1>8 DEF PhoneInv, BackedInv

-----------------------------------------------------------------------------
(***************************************************************************)
(* The steps of a flow keep the invariant.                                 *)
(***************************************************************************)
LEMMA FailKeeps ==
    ASSUME StoreInv, PhoneInv, NEW c \in Callers, Fail(c)
    PROVE  PhoneInv'
<1>0. /\ PhoneTypeOK /\ Holds(flow[c]) /\ flow[c] \in Flows
      /\ NoFlow \in Flows /\ NoFlow.pc = "idle" /\ Holds(NoFlow)
    BY NoFlowTyped DEF PhoneInv, PhoneTypeOK, WaitsInv
<1>1. /\ flow[c].pc \in {"find", "ask", "browser", "report"}
      /\ flow' = [flow EXCEPT ![c] = NoFlow] /\ flag' = FlagAfterFailure(c)
      /\ unheard' = (unheard \/ flow[c].kind = "off")
      /\ UNCHANGED <<sub, made, accepted, crossed, events>> /\ call' = call
    BY DEF Fail, Over, storeVars
<1>2. unheard' \in BOOLEAN
    BY <1>0, <1>1 DEF PhoneTypeOK
<1>3. flag' \in BOOLEAN /\ (Backs(flow[c], flag, sub, accepted) => Backs(NoFlow, flag', sub', accepted'))
    BY <1>1, FailureBacks
<1> QED
    BY <1>0, <1>1, <1>2, <1>3, FlowMoves DEF PhoneTypeOK

LEMMA FindKeeps ==
    ASSUME StoreInv, PhoneInv, NEW c \in Callers, Find(c)
    PROVE  PhoneInv'
<1>0. /\ PhoneTypeOK /\ Holds(flow[c]) /\ flow[c] \in Flows
      /\ NoFlow \in Flows /\ NoFlow.pc = "idle" /\ Holds(NoFlow)
    BY NoFlowTyped DEF PhoneInv, PhoneTypeOK, WaitsInv
<1>1. /\ flow[c].pc = "find" /\ call' = call
      /\ UNCHANGED <<flag, sub, made, accepted, crossed, unheard, events>>
    BY DEF Find, storeVars
<1>2. CASE flow[c].kind = "off" /\ sub = None
  <2>1. flow' = [flow EXCEPT ![c] = NoFlow]
      BY <1>2 DEF Find, Over
  <2>2. Backs(flow[c], flag, sub, accepted) => Backs(NoFlow, flag', sub', accepted')
      BY <1>0, <1>1, <1>2 DEF Backs
  <2> QED
      BY <1>0, <1>1, <2>1, <2>2, FlowMoves DEF PhoneTypeOK
<1>3. CASE sub # None
  <2> DEFINE p == IF flow[c].kind = "off" THEN "forget" ELSE "report"
             new == [flow[c] EXCEPT !.pc = p, !.end = sub]
  <2>1. flow' = [flow EXCEPT ![c].pc = p, ![c].end = sub]
      BY <1>3 DEF Find
  <2>2. p \in Steps /\ sub \in Endpoints
      BY <1>0, <1>3 DEF Steps, PhoneTypeOK
  <2>3. /\ new \in Flows /\ new.pc = p /\ new.kind = flow[c].kind
        /\ new.end = sub /\ flow' = [flow EXCEPT ![c] = new]
      BY <1>0, <2>1, <2>2 DEF Flows, Steps, PhoneTypeOK
  <2> HIDE DEF new
  <2>4. Holds(new)
      BY <2>2, <2>3 DEF Holds
  <2>5. Backs(flow[c], flag, sub, accepted) => Backs(new, flag', sub', accepted')
      BY <1>1, <2>3 DEF Backs
  <2> QED
      BY <1>0, <1>1, <2>3, <2>4, <2>5, FlowMoves DEF PhoneTypeOK
<1>4. CASE flow[c].kind # "off" /\ sub = None
  <2> DEFINE new == [flow[c] EXCEPT !.pc = "ask"]
  <2>1. new \in Flows /\ new.pc = "ask" /\ new.kind = flow[c].kind /\ flow' = [flow EXCEPT ![c] = new]
      BY <1>4, PcMoves DEF Find, Steps
  <2> HIDE DEF new
  <2>2. Holds(new)
      BY <2>1 DEF Holds, Ending
  <2>3. sub \notin accepted
      BY <1>0, <1>4, PushChannelAssumption DEF PhoneTypeOK
  <2>4. Backs(flow[c], flag, sub, accepted) => Backs(new, flag', sub', accepted')
      BY <1>1, <1>4, <2>1, <2>3 DEF Backs
  <2> QED
      BY <1>0, <1>1, <2>1, <2>2, <2>4, FlowMoves DEF PhoneTypeOK
<1> QED
    BY <1>2, <1>3, <1>4

LEMMA AskKeyKeeps ==
    ASSUME StoreInv, PhoneInv, NEW c \in Callers, AskKey(c)
    PROVE  PhoneInv'
<1>0. /\ PhoneTypeOK /\ Holds(flow[c]) /\ flow[c] \in Flows
      /\ NoFlow \in Flows /\ NoFlow.pc = "idle" /\ Holds(NoFlow)
    BY NoFlowTyped DEF PhoneInv, PhoneTypeOK, WaitsInv
<1> DEFINE new == [flow[c] EXCEPT !.pc = "key"]
<1>1. /\ flow[c].pc = "ask" /\ StartCall(c, "vapid", {})
      /\ Await(c, "key") /\ UNCHANGED <<flag, sub, made, accepted, crossed, unheard, events>>
    BY DEF AskKey
<1>2. call'[c].op = "vapid" /\ \A b \in Callers \ {c} : call'[b].op = call[b].op
  <2>1. "vapid" \in Ops /\ {} \in SUBSET Endpoints
      BY <1>0, <1>1 DEF Ops, Holds, Ending
  <2> QED
      BY <1>1, <2>1, StartAsks
<1>3. /\ new \in Flows /\ new.pc = "key" /\ new.kind = flow[c].kind
      /\ new.end = flow[c].end /\ flow' = [flow EXCEPT ![c] = new]
    BY <1>1, PcMoves DEF Steps
<1> HIDE DEF new
<1>4. Holds(new)
    BY <1>0, <1>1, <1>3 DEF Holds, Ending
<1>5. Backs(flow[c], flag, sub, accepted) => Backs(new, flag', sub', accepted')
    BY <1>1, <1>3 DEF Backs
<1> QED
    BY <1>0, <1>1, <1>2, <1>3, <1>4, <1>5, FlowMoves DEF PhoneTypeOK

LEMMA ReportKeeps ==
    ASSUME StoreInv, PhoneInv, NEW c \in Callers, Report(c)
    PROVE  PhoneInv'
<1>0. /\ PhoneTypeOK /\ Holds(flow[c]) /\ flow[c] \in Flows
      /\ NoFlow \in Flows /\ NoFlow.pc = "idle" /\ Holds(NoFlow)
    BY NoFlowTyped DEF PhoneInv, PhoneTypeOK, WaitsInv
<1> DEFINE new == [flow[c] EXCEPT !.pc = "reported"]
<1>1. /\ flow[c].pc = "report" /\ StartCall(c, "add", {flow[c].end})
      /\ Await(c, "reported") /\ UNCHANGED <<flag, sub, made, accepted, crossed, unheard, events>>
    BY DEF Report
<1>2. call'[c].op = "add" /\ \A b \in Callers \ {c} : call'[b].op = call[b].op
  <2>1. "add" \in Ops /\ {flow[c].end} \in SUBSET Endpoints
      BY <1>0, <1>1 DEF Ops, Holds, Ending
  <2> QED
      BY <1>1, <2>1, StartAsks
<1>3. /\ new \in Flows /\ new.pc = "reported" /\ new.kind = flow[c].kind
      /\ new.end = flow[c].end /\ flow' = [flow EXCEPT ![c] = new]
    BY <1>1, PcMoves DEF Steps
<1> HIDE DEF new
<1>4. Holds(new)
    BY <1>0, <1>1, <1>3 DEF Holds, Ending
<1>5. Backs(flow[c], flag, sub, accepted) => Backs(new, flag', sub', accepted')
    BY <1>1, <1>3 DEF Backs
<1> QED
    BY <1>0, <1>1, <1>2, <1>3, <1>4, <1>5, FlowMoves DEF PhoneTypeOK

LEMMA ForgetKeeps ==
    ASSUME StoreInv, PhoneInv, NEW c \in Callers, Forget(c)
    PROVE  PhoneInv'
<1>0. /\ PhoneTypeOK /\ Holds(flow[c]) /\ flow[c] \in Flows
      /\ NoFlow \in Flows /\ NoFlow.pc = "idle" /\ Holds(NoFlow)
    BY NoFlowTyped DEF PhoneInv, PhoneTypeOK, WaitsInv
<1> DEFINE new == [flow[c] EXCEPT !.pc = "forgot"]
<1>1. /\ flow[c].pc = "forget" /\ StartCall(c, "remove", {flow[c].end})
      /\ Await(c, "forgot") /\ UNCHANGED <<flag, sub, made, accepted, crossed, unheard, events>>
    BY DEF Forget
<1>2. call'[c].op = "remove" /\ \A b \in Callers \ {c} : call'[b].op = call[b].op
  <2>1. "remove" \in Ops /\ {flow[c].end} \in SUBSET Endpoints
      BY <1>0, <1>1 DEF Ops, Holds, Ending
  <2> QED
      BY <1>1, <2>1, StartAsks
<1>3. /\ new \in Flows /\ new.pc = "forgot" /\ new.kind = flow[c].kind
      /\ new.end = flow[c].end /\ flow' = [flow EXCEPT ![c] = new]
    BY <1>1, PcMoves DEF Steps
<1> HIDE DEF new
<1>4. Holds(new)
    BY <1>0, <1>1, <1>3 DEF Holds, Ending
<1>5. Backs(flow[c], flag, sub, accepted) => Backs(new, flag', sub', accepted')
    BY <1>1, <1>3 DEF Backs
<1> QED
    BY <1>0, <1>1, <1>2, <1>3, <1>4, <1>5, FlowMoves DEF PhoneTypeOK

LEMMA KeyComesKeeps ==
    ASSUME StoreInv, PhoneInv, NEW c \in Callers, KeyComes(c)
    PROVE  PhoneInv'
<1>0. /\ PhoneTypeOK /\ Holds(flow[c]) /\ flow[c] \in Flows
      /\ NoFlow \in Flows /\ NoFlow.pc = "idle" /\ Holds(NoFlow)
    BY NoFlowTyped DEF PhoneInv, PhoneTypeOK, WaitsInv
<1>1. /\ flow[c].pc = "key" /\ EndCall(c) /\ UNCHANGED <<sub, made, accepted, crossed, unheard, events>>
    BY DEF KeyComes
<1>2. \A b \in Callers \ {c} : call'[b].op = call[b].op
    BY <1>1 DEF EndCall, StoreInv, StoreTypeOK
<1>3. CASE call[c].pc = "ok"
  <2> DEFINE new == [flow[c] EXCEPT !.pc = "browser", !.key = call[c].key]
  <2>1. flow' = [flow EXCEPT ![c].pc = "browser", ![c].key = call[c].key] /\ UNCHANGED flag
      BY <1>3 DEF KeyComes
  <2>2. call[c].key \in Keys /\ call[c].key # NoKey
    <3>1. call[c] \in Calls /\ call[c].op = "vapid"
        BY <1>1 DEF StoreInv, StoreTypeOK, PhoneInv, WaitsInv
    <3> QED
        BY <1>3, <3>1 DEF StoreInv, KeyInv, Calls
  <2>3. /\ new \in Flows /\ new.pc = "browser" /\ new.kind = flow[c].kind
        /\ new.key = call[c].key /\ flow' = [flow EXCEPT ![c] = new]
      BY <1>0, <2>1, <2>2 DEF Flows, PhoneTypeOK
  <2> HIDE DEF new
  <2>4. Holds(new)
      BY <2>2, <2>3 DEF Holds, Ending
  <2>5. Backs(flow[c], flag, sub, accepted) => Backs(new, flag', sub', accepted')
      BY <1>1, <2>1, <2>3 DEF Backs
  <2> QED
      BY <1>0, <1>1, <1>2, <2>1, <2>3, <2>4, <2>5, FlowMoves DEF PhoneTypeOK
<1>4. CASE call[c].pc # "ok"
  <2>1. flow' = [flow EXCEPT ![c] = NoFlow] /\ flag' = FlagAfterFailure(c)
      BY <1>4 DEF KeyComes, Over
  <2>2. flag' \in BOOLEAN /\ (Backs(flow[c], flag, sub, accepted) => Backs(NoFlow, flag', sub', accepted'))
      BY <1>1, <2>1, FailureBacks
  <2> QED
      BY <1>0, <1>1, <1>2, <2>1, <2>2, FlowMoves DEF PhoneTypeOK
<1> QED
    BY <1>3, <1>4

LEMMA SubscribeKeeps ==
    ASSUME StoreInv, PhoneInv, NEW c \in Callers, Subscribe(c)
    PROVE  PhoneInv'
<1>0. /\ PhoneTypeOK /\ Holds(flow[c]) /\ flow[c] \in Flows
      /\ NoFlow \in Flows /\ NoFlow.pc = "idle" /\ Holds(NoFlow)
    BY NoFlowTyped DEF PhoneInv, PhoneTypeOK, WaitsInv
<1>1. /\ flow[c].pc = "browser" /\ call' = call
      /\ UNCHANGED <<flag, accepted, crossed, unheard, events>>
    BY DEF Subscribe, storeVars
<1>2. PICK e \in Endpoints :
          /\ IF sub = None
             THEN made[e] = NoKey /\ made' = [made EXCEPT ![e] = flow[c].key]
             ELSE e = sub /\ made[e] = flow[c].key /\ made' = made
          /\ sub' = e
          /\ flow' = [flow EXCEPT ![c].pc = "report", ![c].end = e]
    BY DEF Subscribe
<1> DEFINE new == [flow[c] EXCEPT !.pc = "report", !.end = e]
<1>3. /\ new \in Flows /\ new.pc = "report" /\ new.kind = flow[c].kind
      /\ new.end = e /\ flow' = [flow EXCEPT ![c] = new]
    BY <1>0, <1>2 DEF Flows, PhoneTypeOK
<1> HIDE DEF new
<1>4. Holds(new)
    BY <1>3 DEF Holds
<1>5. made' \in [Endpoints -> Keys] /\ made'[e] # NoKey
  <2>1. flow[c].key \in Keys /\ flow[c].key # NoKey
      BY <1>0, <1>1 DEF Flows, Holds
  <2>2. CASE sub = None
      BY <1>0, <1>2, <2>1, <2>2 DEF PhoneTypeOK
  <2>3. CASE sub # None
      BY <1>0, <1>2, <2>1, <2>3 DEF PhoneTypeOK
  <2> QED
      BY <2>2, <2>3
<1>6. Backs(flow[c], flag, sub, accepted) => Backs(new, flag', sub', accepted')
    BY <1>1, <1>2, <1>3 DEF Backs
<1> QED
    BY <1>0, <1>1, <1>2, <1>3, <1>4, <1>5, <1>6, FlowMoves DEF PhoneTypeOK

LEMMA ReportedKeeps ==
    ASSUME StoreInv, PhoneInv, NEW c \in Callers, Reported(c)
    PROVE  PhoneInv'
<1>0. /\ PhoneTypeOK /\ Holds(flow[c]) /\ flow[c] \in Flows
      /\ NoFlow \in Flows /\ NoFlow.pc = "idle" /\ Holds(NoFlow)
    BY NoFlowTyped DEF PhoneInv, PhoneTypeOK, WaitsInv
<1>1. /\ flow[c].pc = "reported" /\ EndCall(c) /\ flow' = [flow EXCEPT ![c] = NoFlow]
      /\ UNCHANGED <<sub, made, crossed, events>>
    BY DEF Reported, Over
<1>2. \A b \in Callers \ {c} : call'[b].op = call[b].op
    BY <1>1 DEF EndCall, StoreInv, StoreTypeOK
<1>3. CASE call[c].pc = "ok"
  <2>1. accepted' = accepted \cup {flow[c].end} /\ UNCHANGED <<flag, unheard>>
      BY <1>3 DEF Reported
  <2>2. accepted' \subseteq Endpoints
      BY <1>0, <1>1, <2>1 DEF PhoneTypeOK, Holds, Ending
  <2>3. Backs(flow[c], flag, sub, accepted) => Backs(NoFlow, flag', sub', accepted')
      BY <1>0, <1>1, <2>1 DEF Backs, Flows
  <2> QED
      BY <1>0, <1>1, <1>2, <2>1, <2>2, <2>3, FlowMoves DEF PhoneTypeOK
<1>4. CASE call[c].pc # "ok"
  <2>1. flag' = FlagAfterFailure(c) /\ unheard' = TRUE /\ UNCHANGED accepted
      BY <1>4 DEF Reported
  <2>2. flag' \in BOOLEAN /\ (Backs(flow[c], flag, sub, accepted) => Backs(NoFlow, flag', sub', accepted'))
      BY <1>1, <2>1, FailureBacks
  <2>3. unheard' \in BOOLEAN
      BY <2>1
  <2> QED
      BY <1>0, <1>1, <1>2, <2>1, <2>2, <2>3, FlowMoves DEF PhoneTypeOK
<1> QED
    BY <1>3, <1>4

LEMMA ForgotKeeps ==
    ASSUME StoreInv, PhoneInv, NEW c \in Callers, Forgot(c)
    PROVE  PhoneInv'
<1>0. /\ PhoneTypeOK /\ Holds(flow[c]) /\ flow[c] \in Flows
      /\ NoFlow \in Flows /\ NoFlow.pc = "idle" /\ Holds(NoFlow)
    BY NoFlowTyped DEF PhoneInv, PhoneTypeOK, WaitsInv
<1> DEFINE new == [flow[c] EXCEPT !.pc = "drop"]
<1>1. /\ flow[c].pc = "forgot" /\ EndCall(c) /\ Await(c, "drop")
      /\ unheard' = (unheard \/ call[c].pc = "failed")
      /\ UNCHANGED <<flag, sub, made, accepted, crossed, events>>
    BY DEF Forgot
<1>2. \A b \in Callers \ {c} : call'[b].op = call[b].op
    BY <1>1 DEF EndCall, StoreInv, StoreTypeOK
<1>3. unheard' \in BOOLEAN
    BY <1>0, <1>1 DEF PhoneTypeOK
<1>4. /\ new \in Flows /\ new.pc = "drop" /\ new.kind = flow[c].kind
      /\ new.end = flow[c].end /\ flow' = [flow EXCEPT ![c] = new]
    BY <1>1, PcMoves DEF Steps
<1> HIDE DEF new
<1>5. Holds(new)
    BY <1>0, <1>1, <1>4 DEF Holds, Ending
<1>6. Backs(flow[c], flag, sub, accepted) => Backs(new, flag', sub', accepted')
    BY <1>1, <1>4 DEF Backs
<1> QED
    BY <1>0, <1>1, <1>2, <1>3, <1>4, <1>5, <1>6, FlowMoves DEF PhoneTypeOK

LEMMA NotForgotKeeps ==
    ASSUME StoreInv, PhoneInv, NEW c \in Callers, NotForgot(c)
    PROVE  PhoneInv'
<1>0. /\ PhoneTypeOK /\ Holds(flow[c]) /\ flow[c] \in Flows
      /\ NoFlow \in Flows /\ NoFlow.pc = "idle" /\ Holds(NoFlow)
    BY NoFlowTyped DEF PhoneInv, PhoneTypeOK, WaitsInv
<1> DEFINE new == [flow[c] EXCEPT !.pc = "drop"]
<1>1. /\ flow[c].pc = "forget" /\ Await(c, "drop") /\ unheard' = TRUE /\ call' = call
      /\ UNCHANGED <<flag, sub, made, accepted, crossed, events>>
    BY DEF NotForgot, storeVars
<1>2. unheard' \in BOOLEAN
    BY <1>1
<1>3. /\ new \in Flows /\ new.pc = "drop" /\ new.kind = flow[c].kind
      /\ new.end = flow[c].end /\ flow' = [flow EXCEPT ![c] = new]
    BY <1>1, PcMoves DEF Steps
<1> HIDE DEF new
<1>4. Holds(new)
    BY <1>0, <1>1, <1>3 DEF Holds, Ending
<1>5. Backs(flow[c], flag, sub, accepted) => Backs(new, flag', sub', accepted')
    BY <1>1, <1>3 DEF Backs
<1> QED
    BY <1>0, <1>1, <1>2, <1>3, <1>4, <1>5, FlowMoves DEF PhoneTypeOK

LEMMA DropKeeps ==
    ASSUME StoreInv, PhoneInv, NEW c \in Callers, Drop(c)
    PROVE  PhoneInv'
<1>0. /\ PhoneTypeOK /\ Holds(flow[c]) /\ flow[c] \in Flows
      /\ NoFlow \in Flows /\ NoFlow.pc = "idle" /\ Holds(NoFlow)
    BY NoFlowTyped DEF PhoneInv, PhoneTypeOK, WaitsInv
<1>1. /\ flow[c].pc = "drop" /\ flow' = [flow EXCEPT ![c] = NoFlow] /\ call' = call
      /\ sub' \in {sub, None}
      /\ UNCHANGED <<flag, made, accepted, crossed, unheard, events>>
    BY DEF Drop, Over, storeVars
<1>2. sub' \in Endpoints \cup {None} /\ (sub' # None => made'[sub'] # NoKey)
    BY <1>0, <1>1 DEF PhoneTypeOK
<1>3. Backs(flow[c], flag, sub, accepted) => Backs(NoFlow, flag', sub', accepted')
    BY <1>0, <1>1 DEF Backs
<1> QED
    BY <1>0, <1>1, <1>2, <1>3, FlowMoves DEF PhoneTypeOK

LEMMA LoseAnswerKeeps ==
    ASSUME StoreInv, PhoneInv, NEW c \in Callers, LoseAnswer(c)
    PROVE  PhoneInv'
<1>0. /\ PhoneTypeOK /\ Holds(flow[c]) /\ flow[c] \in Flows
      /\ NoFlow \in Flows /\ NoFlow.pc = "idle" /\ Holds(NoFlow)
    BY NoFlowTyped DEF PhoneInv, PhoneTypeOK, WaitsInv
<1>1. /\ flow[c].pc \in {"key", "reported", "forgot"} /\ unheard' = TRUE /\ call' = call
      /\ UNCHANGED <<sub, made, accepted, crossed, events>>
    BY DEF LoseAnswer, storeVars
<1>2. unheard' \in BOOLEAN
    BY <1>1
<1>3. CASE flow[c].pc = "forgot"
  <2> DEFINE new == [flow[c] EXCEPT !.pc = "drop"]
  <2>1. /\ new \in Flows /\ new.pc = "drop" /\ new.kind = flow[c].kind
        /\ new.end = flow[c].end /\ flow' = [flow EXCEPT ![c] = new] /\ flag' = flag
      BY <1>3, PcMoves DEF Steps, LoseAnswer
  <2> HIDE DEF new
  <2>2. Holds(new)
      BY <1>0, <1>3, <2>1 DEF Holds, Ending
  <2>3. Backs(flow[c], flag, sub, accepted) => Backs(new, flag', sub', accepted')
      BY <1>1, <1>3, <2>1 DEF Backs
  <2> QED
      BY <1>0, <1>1, <1>2, <2>1, <2>2, <2>3, FlowMoves DEF PhoneTypeOK
<1>4. CASE flow[c].pc # "forgot"
  <2>1. flow' = [flow EXCEPT ![c] = NoFlow] /\ flag' = FlagAfterFailure(c)
      BY <1>4 DEF LoseAnswer, Over
  <2>2. flag' \in BOOLEAN /\ (Backs(flow[c], flag, sub, accepted) => Backs(NoFlow, flag', sub', accepted'))
      BY <1>1, <2>1, FailureBacks
  <2> QED
      BY <1>0, <1>1, <1>2, <2>1, <2>2, FlowMoves DEF PhoneTypeOK
<1> QED
    BY <1>3, <1>4

LEMMA PhoneKeeps ==
    ASSUME StoreInv, PhoneInv, NEW c \in Callers, Phone(c)
    PROVE  PhoneInv'
<1>1. ASSUME ToggleOn(c) PROVE PhoneInv'
    BY <1>1, StartKeepsPhone DEF ToggleOn
<1>2. ASSUME ToggleOff(c) PROVE PhoneInv'
    BY <1>2, StartKeepsPhone DEF ToggleOff
<1>3. ASSUME Renew(c) PROVE PhoneInv'
  <2>1. flag \in BOOLEAN
      BY DEF PhoneInv, PhoneTypeOK
  <2> QED
      BY <1>3, <2>1, StartKeepsPhone DEF Renew
<1> QED
    BY <1>1, <1>2, <1>3, FindKeeps, AskKeyKeeps, KeyComesKeeps, SubscribeKeeps, ReportKeeps, ReportedKeeps,
       ForgetKeeps, ForgotKeeps, NotForgotKeeps, DropKeeps, FailKeeps, LoseAnswerKeeps DEF Phone

(* The store's own steps leave a call what it was asked for.               *)
LEMMA StepAsks ==
    ASSUME StoreInv, NEW c \in Callers, StoreStep(c)
    PROVE  \A b \in Callers : call'[b].op = call[b].op
<1>1. call \in [Callers -> Calls] /\ \A b \in Callers : call[b] \in Calls
    BY DEF StoreInv, StoreTypeOK
<1>2. ASSUME ReadFile(c) PROVE \A b \in Callers : call'[b].op = call[b].op
  <2> DEFINE others == IF data # Missing THEN Orphaned ELSE call
  <2>1. PICK d : Proceed(c, call[c].op, call[c].ends, d, others)
      BY <1>2 DEF ReadFile
  <2>2. PICK p, k : call' = [others EXCEPT ![c] =
                        [Idle EXCEPT !.pc = p, !.op = call[c].op, !.ends = call[c].ends, !.key = k]]
      BY <2>1 DEF Proceed
  <2>3. \A b \in Callers : others[b].op = call[b].op
      BY <1>1 DEF Orphaned, Calls
  <2>4. others = [b \in Callers |-> others[b]]
      BY <1>1 DEF Orphaned
  <2> HIDE DEF others
  <2> QED
      BY <2>2, <2>3, <2>4 DEF Idle
<1>3. ASSUME Snapshot(c) PROVE \A b \in Callers : call'[b].op = call[b].op
  <2> DEFINE image == IF call[c].own # Missing THEN call[c].own ELSE data
             alone == call[c].own = Missing /\ \A b \in Callers : ~Writing(b)
  <2>1. PICK name \in {c} \cup {call[b].name : b \in {b \in Callers : Writing(b)}} :
            call' = [b \in Callers |->
               IF b = c
               THEN [call[c] EXCEPT !.pc = "writing", !.image = image, !.name = name, !.alone = alone]
               ELSE [call[b] EXCEPT !.alone = FALSE]]
      BY <1>3 DEF Snapshot
  <2> HIDE DEF image, alone
  <2> QED
      BY <1>1, <2>1 DEF Calls
<1>4. ASSUME Written(c) PROVE \A b \in Callers : call'[b].op = call[b].op
    BY <1>1, <1>4 DEF Written, Calls
<1>5. ASSUME Rename(c) PROVE \A b \in Callers : call'[b].op = call[b].op
    BY <1>1, <1>5, EndedTyped DEF Rename, Elsewhere, Calls
<1>6. ASSUME SaveFails(c) PROVE \A b \in Callers : call'[b].op = call[b].op
    BY <1>1, <1>6, EndedTyped DEF SaveFails, Calls
<1> QED
    BY <1>2, <1>3, <1>4, <1>5, <1>6 DEF StoreStep

LEMMA HostKeeps ==
    ASSUME StoreInv, PhoneInv, NEW c \in Callers, Host(c)
    PROVE  PhoneInv'
<1>0. events \in 0..MaxEvents
    BY DEF PhoneInv, PhoneTypeOK
<1>1. CASE StoreStep(c) /\ UNCHANGED <<phoneVars, events>>
    BY <1>0, <1>1, StepAsks, HostMoves
<1>2. CASE flow[c].pc \notin {"key", "reported", "forgot"} /\ EndCall(c) /\ UNCHANGED <<phoneVars, events>>
  <2>1. \A b \in Callers \ {c} : call'[b].op = call[b].op
      BY <1>2 DEF EndCall, StoreInv, StoreTypeOK
  <2> QED
      BY <1>0, <1>2, <2>1, HostMoves
<1>3. CASE /\ flow[c].pc = "idle" /\ Event
           /\ \E op \in {"vapid", "prune"}, ends \in SUBSET Endpoints :
                 (op = "vapid" => ends = {}) /\ StartCall(c, op, ends)
           /\ UNCHANGED phoneVars
  <2>1. events' \in 0..MaxEvents
      BY <1>0, <1>3, PushChannelAssumption DEF Event
  <2>2. \A b \in Callers \ {c} : call'[b].op = call[b].op
      BY <1>3, StartAsks DEF Ops
  <2> QED
      BY <1>3, <2>1, <2>2, HostMoves
<1> QED
    BY <1>1, <1>2, <1>3 DEF Host

LEMMA HostCrashKeeps ==
    ASSUME PhoneInv, HostCrash
    PROVE  PhoneInv'
<1>0. /\ PhoneTypeOK /\ flow \in [Callers -> Flows]
      /\ NoFlow \in Flows /\ NoFlow.pc = "idle" /\ Holds(NoFlow)
    BY NoFlowTyped DEF PhoneInv, PhoneTypeOK
<1>1. /\ flow' = [c \in Callers |->
              IF flow[c].pc \in {"key", "reported"} THEN NoFlow
              ELSE IF flow[c].pc = "forgot" THEN [flow[c] EXCEPT !.pc = "drop"] ELSE flow[c]]
      /\ flag' = (flag /\ \A c \in Callers : flow[c].pc \in {"key", "reported"} => FlagAfterFailure(c))
      /\ unheard' = (unheard \/ \E c \in Callers : flow[c].pc \in {"reported", "forgot"})
      /\ UNCHANGED <<sub, made, accepted, crossed, events>>
    BY DEF HostCrash
<1>2. ASSUME NEW c \in Callers
      PROVE  \/ flow[c].pc \in {"key", "reported"} /\ flow'[c] = NoFlow
             \/ /\ flow[c].pc = "forgot" /\ flow'[c].pc = "drop" /\ flow'[c] \in Flows
                /\ flow'[c].kind = flow[c].kind /\ flow'[c].end = flow[c].end
             \/ flow[c].pc \notin {"key", "reported", "forgot"} /\ flow'[c] = flow[c]
    BY <1>0, <1>1 DEF Flows
<1>3. PhoneTypeOK'
  <2>1. flow' \in [Callers -> Flows]
    <3>1. \A c \in Callers : flow'[c] \in Flows
        BY <1>0, <1>2
    <3>2. flow' = [c \in Callers |-> flow'[c]]
        BY <1>1
    <3> QED
        BY <3>1, <3>2
  <2>2. flag' \in BOOLEAN /\ unheard' \in BOOLEAN
      BY <1>1
  <2> QED
      BY <1>0, <1>1, <2>1, <2>2 DEF PhoneTypeOK
<1>4. WaitsInv'
    BY <1>0, <1>2 DEF PhoneInv, WaitsInv, Holds, Ending
<1>5. ASSUME ~crossed' PROVE BackedInv'
  <2>1. /\ \A b, c \in Callers : flow[b].pc # "idle" /\ flow[c].pc # "idle" => b = c
        /\ Quiet /\ flag => sub \in accepted
        /\ \A c \in Callers : flow[c].pc # "idle" => Backs(flow[c], flag, sub, accepted)
      BY <1>1, <1>5 DEF PhoneInv, BackedInv
  <2>2. \A c \in Callers : flow'[c].pc # "idle" => flow[c].pc # "idle"
      BY <1>0, <1>2
  <2>3. flag' => flag
      BY <1>1
  <2>4. ASSUME NEW c \in Callers, flow'[c].pc # "idle" PROVE Backs(flow'[c], flag', sub', accepted')
    <3>1. Backs(flow[c], flag, sub, accepted)
        BY <2>1, <2>2, <2>4
    <3>2. CASE flow[c].pc = "forgot"
        BY <1>1, <1>2, <2>3, <3>1, <3>2 DEF Backs
    <3>3. CASE flow[c].pc # "forgot"
      <4>1. flow'[c] = flow[c]
          BY <1>0, <1>2, <2>4, <3>3
      <4> QED
          BY <1>1, <2>3, <2>4, <3>1, <4>1 DEF Backs
    <3> QED
        BY <3>2, <3>3
  <2>5. ASSUME Quiet', flag' PROVE sub' \in accepted'
    <3>1. CASE Quiet
        BY <1>1, <2>1, <2>3, <2>5, <3>1
    <3>2. CASE ~Quiet
      <4>1. PICK c \in Callers : flow[c].pc # "idle"
          BY <3>2 DEF Quiet
      <4>2. flow'[c].pc = "idle"
          BY <2>5 DEF Quiet
      <4>3. flow[c].pc \in {"key", "reported"}
          BY <1>2, <4>1, <4>2
      <4>4. FlagAfterFailure(c) /\ flag
          BY <1>1, <2>5, <4>3
      <4>5. flow[c].kind # "on"
          BY <4>4 DEF FlagAfterFailure
      <4>6. flow[c].kind \in {"on", "off", "auto"}
          BY <1>0 DEF Flows
      <4> QED
          BY <1>1, <2>1, <4>1, <4>4, <4>5, <4>6 DEF Backs
    <3> QED
        BY <3>1, <3>2
  <2> QED
      BY <2>1, <2>2, <2>4, <2>5 DEF BackedInv
<1> QED
    BY <1>3, <1>4, <1>5 DEF PhoneInv, BackedInv

LEMMA PageKeeps ==
    ASSUME PhoneInv, Reload \/ Expire
    PROVE  PhoneInv'
<1>0. NoFlow \in Flows /\ NoFlow.pc = "idle" /\ Holds(NoFlow)
    BY NoFlowTyped
<1>1. CASE Reload
  <2>1. PhoneTypeOK'
      BY <1>0, <1>1 DEF PhoneInv, PhoneTypeOK, Reload
  <2>2. WaitsInv'
      BY <1>0, <1>1 DEF WaitsInv, Reload
  <2> QED
      BY <1>1, <2>1, <2>2 DEF PhoneInv, BackedInv, Reload
<1>2. CASE Expire
  <2>1. events' \in 0..MaxEvents
      BY <1>2, PushChannelAssumption DEF Expire, Event, PhoneInv, PhoneTypeOK
  <2>2. PhoneTypeOK'
      BY <1>2, <2>1 DEF PhoneInv, PhoneTypeOK, Expire
  <2>3. WaitsInv'
      BY <1>2 DEF PhoneInv, WaitsInv, Expire, storeVars
  <2> QED
      BY <1>2, <2>2, <2>3 DEF PhoneInv, BackedInv, Expire
<1> QED
    BY <1>1, <1>2

-----------------------------------------------------------------------------
(***************************************************************************)
(* The phone asks the store nothing it is not made for.                    *)
(***************************************************************************)
LEMMA ChannelAsks ==
    ASSUME PhoneInv, [Next]_vars
    PROVE  [StoreNext]_storeVars
<1>1. \A c \in Callers : Holds(flow[c])
    BY DEF PhoneInv, WaitsInv
<1>2. ASSUME NEW c \in Callers, Phone(c) PROVE [StoreNext]_storeVars
  <2>1. CASE ToggleOn(c) \/ ToggleOff(c) \/ Renew(c)
      BY <2>1 DEF ToggleOn, ToggleOff, Renew, Start
  <2>2. CASE Find(c) \/ Subscribe(c) \/ NotForgot(c) \/ Drop(c) \/ Fail(c) \/ LoseAnswer(c)
      BY <2>2 DEF Find, Subscribe, NotForgot, Drop, Fail, LoseAnswer
  <2>3. CASE KeyComes(c) \/ Reported(c) \/ Forgot(c)
      BY <2>3 DEF KeyComes, Reported, Forgot, StoreNext
  <2>4. CASE AskKey(c)
      BY <2>4 DEF AskKey, StoreNext, Ops
  <2>5. CASE Report(c)
      BY <1>1, <2>5 DEF Report, StoreNext, Ops, Holds, Ending
  <2>6. CASE Forget(c)
      BY <1>1, <2>6 DEF Forget, StoreNext, Ops, Holds, Ending
  <2> QED
      BY <1>2, <2>1, <2>2, <2>3, <2>4, <2>5, <2>6 DEF Phone
<1>3. ASSUME NEW c \in Callers, Host(c) PROVE [StoreNext]_storeVars
    BY <1>3 DEF Host, StoreNext, Ops
<1>4. CASE HostCrash
    BY <1>4 DEF HostCrash, StoreNext
<1>5. CASE Reload \/ Expire
    BY <1>5 DEF Reload, Expire
<1>6. CASE UNCHANGED vars
    BY <1>6 DEF vars
<1> QED
    BY <1>2, <1>3, <1>4, <1>5, <1>6 DEF Next

LEMMA ChannelKeeps ==
    ASSUME StoreInv, PhoneInv, [Next]_vars
    PROVE  StoreInv' /\ PhoneInv'
<1>1. StoreInv'
    BY ChannelAsks, StoreKeeps
<1>2. CASE UNCHANGED vars
  <2>1. UNCHANGED phoneVars /\ events' = events /\ call' = call
      BY <1>2 DEF vars, storeVars
  <2>2. events \in 0..MaxEvents
      BY DEF PhoneInv, PhoneTypeOK
  <2> QED
      BY <1>1, <2>1, <2>2, HostMoves
<1>3. CASE Next
  <2>1. PhoneInv'
      BY <1>3, PhoneKeeps, HostKeeps, HostCrashKeeps, PageKeeps DEF Next
  <2> QED
      BY <1>1, <2>1
<1> QED
    BY <1>2, <1>3

LEMMA InitChannel == Init => StoreInv /\ PhoneInv
BY InitStore, InitPhone DEF Init

LEMMA ChannelSafe ==
    ASSUME StoreInv, PhoneInv
    PROVE  TypeOK /\ KeysKept /\ DiskCurrent /\ ToggleBacked
<1>1. TypeOK
    BY DEF TypeOK, StoreInv, PhoneInv, PhoneTypeOK
<1>2. ToggleBacked
    BY PushChannelAssumption DEF ToggleBacked, PhoneInv, PhoneTypeOK, BackedInv
<1> QED
    BY <1>1, <1>2, StoreSafe

(* Every state of the toggle's flows, the calls they make and the store's  *)
(* files has its type; a subscription is always made with a key.           *)
THEOREM TypeCorrect == Spec => []TypeOK
<1>1. StoreInv /\ PhoneInv /\ [Next]_vars => StoreInv' /\ PhoneInv'
    BY ChannelKeeps
<1>2. StoreInv /\ PhoneInv => TypeOK
    BY ChannelSafe
<1> QED
    BY InitChannel, <1>1, <1>2, PTL DEF Spec

(* Whatever phones, the dispatcher and restarts ask of the store, a key    *)
(* given to a phone stays the store's key, outside the faults KeysKept     *)
(* names.                                                                  *)
THEOREM GivenKeysKept == Spec => []KeysKept
<1>1. StoreInv /\ PhoneInv /\ [Next]_vars => StoreInv' /\ PhoneInv'
    BY ChannelKeeps
<1>2. StoreInv /\ PhoneInv => KeysKept
    BY ChannelSafe
<1> QED
    BY InitChannel, <1>1, <1>2, PTL DEF Spec

(* With no save under way, the push file is what is in memory, outside the *)
(* overlaps and failures DiskCurrent names.                                *)
THEOREM SavedIsCurrent == Spec => []DiskCurrent
<1>1. StoreInv /\ PhoneInv /\ [Next]_vars => StoreInv' /\ PhoneInv'
    BY ChannelKeeps
<1>2. StoreInv /\ PhoneInv => DiskCurrent
    BY ChannelSafe
<1> QED
    BY InitChannel, <1>1, <1>2, PTL DEF Spec

(* A toggle that is on is backed by an accepted subscription, whichever    *)
(* await failed on the way there.                                          *)
THEOREM ToggleHonest == Spec => []ToggleBacked
<1>1. StoreInv /\ PhoneInv /\ [Next]_vars => StoreInv' /\ PhoneInv'
    BY ChannelKeeps
<1>2. StoreInv /\ PhoneInv => ToggleBacked
    BY ChannelSafe
<1> QED
    BY InitChannel, <1>1, <1>2, PTL DEF Spec

-----------------------------------------------------------------------------
(***************************************************************************)
(* What the store's steps do to the subscriptions it will answer with.     *)
(* Until something is lost, only a call that goes on with the object       *)
(* changes them, by what it was asked for.                                 *)
(***************************************************************************)
SubsAfter(op, ends, subs) ==
    IF op = "add" THEN subs \cup ends ELSE IF op = "vapid" THEN subs ELSE subs \ ends

LEMMA ChangedSubs ==
    ASSUME NEW op \in Ops, NEW ends \in SUBSET Endpoints, NEW d \in Images
    PROVE  Changed(op, ends, d).subs = SubsAfter(op, ends, d.subs)
<1>1. CASE op = "vapid" /\ d.key = NoKey
  <2>1. Changed(op, ends, d) = [d EXCEPT !.key = minted + 1]
      BY <1>1 DEF Changed
  <2> QED
      BY <1>1, <2>1 DEF Images, SubsAfter
<1>2. CASE op = "vapid" /\ d.key # NoKey
    BY <1>2 DEF Changed, SubsAfter
<1>3. CASE op = "add"
    BY <1>3 DEF Changed, Images, SubsAfter
<1>4. CASE op \in {"remove", "prune"}
  <2>1. Changed(op, ends, d) = [d EXCEPT !.subs = d.subs \ ends]
      BY <1>4 DEF Changed
  <2> QED
      BY <1>4, <2>1 DEF Images, SubsAfter
<1> QED
    BY <1>1, <1>2, <1>3, <1>4 DEF Ops

LEMMA ProceedMoves ==
    ASSUME StoreTypeOK, NEW c \in Callers, NEW op \in Ops, NEW ends \in SUBSET Endpoints,
           NEW d \in Images, NEW others \in [Callers -> Calls], Proceed(c, op, ends, d, others)
    PROVE  /\ Current'.subs = SubsAfter(op, ends, d.subs)
           /\ call'[c].op = op /\ call'[c].ends = ends /\ call'[c].pc \in {"mkdir", "ok"}
           /\ \A b \in Callers \ {c} : call'[b] = others[b]
<1>1. data' = Changed(op, ends, d) /\ data' \in Images
    BY Proceeds DEF Proceed
<1>2. Current' = data'
    BY <1>1, PushStoreAssumption DEF Current
<1>3. PICK p \in {"mkdir", "ok"} : \E k :
         call' = [others EXCEPT ![c] = [Idle EXCEPT !.pc = p, !.op = op, !.ends = ends, !.key = k]]
    BY DEF Proceed
<1>4. PICK k : call' = [others EXCEPT ![c] = [Idle EXCEPT !.pc = p, !.op = op, !.ends = ends, !.key = k]]
    BY <1>3
<1> QED
    BY <1>1, <1>2, <1>4, ChangedSubs DEF Idle

LEMMA StartMoves ==
    ASSUME StoreInv, NEW c \in Callers, NEW op \in Ops, NEW ends \in SUBSET Endpoints,
           StartCall(c, op, ends)
    PROVE  /\ call'[c].op = op /\ call'[c].ends = ends /\ tainted' = tainted
           /\ \A b \in Callers \ {c} : call'[b] = call[b]
           /\ \/ call'[c].pc = "loading" /\ Current' = Current
              \/ call'[c].pc \in {"mkdir", "ok"} /\ Current'.subs = SubsAfter(op, ends, Current.subs)
<1>1. StoreTypeOK /\ call \in [Callers -> Calls] /\ tainted' = tainted
    BY DEF StoreInv, StoreTypeOK, StartCall
<1>2. CASE data # Missing
  <2>1. data \in Images /\ Proceed(c, op, ends, data, call) /\ Current = data
      BY <1>1, <1>2 DEF StartCall, StoreTypeOK, Current
  <2> QED
      BY <1>1, <2>1, ProceedMoves
<1>3. CASE data = Missing
  <2>1. Current' = Current
      BY <1>3 DEF StartCall, Current, Kept
  <2>2. call' = [call EXCEPT ![c] = [Idle EXCEPT !.pc = "loading", !.op = op, !.ends = ends, !.seen = disk]]
      BY <1>3 DEF StartCall
  <2> QED
      BY <1>1, <2>1, <2>2 DEF Idle
<1> QED
    BY <1>2, <1>3

LEMMA ReadMoves ==
    ASSUME StoreInv, NEW c \in Callers, ReadFile(c), ~tainted'
    PROVE  /\ ~tainted /\ call[c].pc = "loading"
           /\ Current'.subs = SubsAfter(call[c].op, call[c].ends, Current.subs)
           /\ call'[c].op = call[c].op /\ call'[c].ends = call[c].ends /\ call'[c].pc \in {"mkdir", "ok"}
           /\ \A b \in Callers \ {c} : call'[b] = call[b]
<1>1. StoreTypeOK /\ call \in [Callers -> Calls] /\ call[c] \in Calls
    BY DEF StoreInv, StoreTypeOK
<1>2. PICK read \in {call[c].seen, disk, Garbled} :
        /\ call[c].pc = "loading"
        /\ Proceed(c, call[c].op, call[c].ends, IF read \in Images THEN read ELSE Fresh,
                   IF data # Missing THEN Orphaned ELSE call)
        /\ tainted' = (tainted \/ data # Missing \/ read = Garbled)
    BY DEF ReadFile
<1>3. ~tainted /\ data = Missing /\ read # Garbled
    BY <1>2
<1>4. read = disk
    BY <1>2, <1>3 DEF StoreInv, SeenInv
<1>5. Current = Kept(disk) /\ Current \in Images
    BY <1>3, KeptTyped DEF Current
<1>6. Proceed(c, call[c].op, call[c].ends, Current, call)
    BY <1>2, <1>3, <1>4, <1>5 DEF Kept
<1>7. call[c].op \in Ops /\ call[c].ends \in SUBSET Endpoints
    BY <1>1 DEF Calls
<1> QED
    BY <1>1, <1>2, <1>3, <1>5, <1>6, <1>7, ProceedMoves

LEMMA EndedKeeps ==
    ASSUME NEW c \in Callers, NEW pc
    PROVE  /\ Ended(c, pc).pc = pc
           /\ Ended(c, pc).op = call[c].op /\ Ended(c, pc).ends = call[c].ends
BY DEF Ended, Idle

(* A call that saves leaves the object, and every call what it was asked.  *)
LEMMA SavesQuietly ==
    ASSUME StoreInv, NEW c \in Callers, Snapshot(c) \/ Written(c) \/ Rename(c) \/ SaveFails(c)
    PROVE  /\ Current' = Current /\ tainted' = tainted
           /\ call[c].pc \notin {"idle", "loading", "failed"} /\ call'[c].pc # "loading"
           /\ \A b \in Callers : call'[b].op = call[b].op /\ call'[b].ends = call[b].ends
           /\ \A b \in Callers \ {c} : call'[b].pc = call[b].pc
<1>1. call \in [Callers -> Calls] /\ \A b \in Callers : call[b] \in Calls
    BY DEF StoreInv, StoreTypeOK
<1>2. call[c].pc \in {"mkdir", "writing", "renaming"} /\ data' = data /\ tainted' = tainted
    BY DEF Snapshot, Written, Rename, SaveFails, Saving, Writing
<1>3. Current' = Current
    BY <1>2 DEF StoreInv, LoadedInv, Current
<1> DEFINE Same == /\ call'[c].pc # "loading"
                   /\ \A b \in Callers : call'[b].op = call[b].op /\ call'[b].ends = call[b].ends
                   /\ \A b \in Callers \ {c} : call'[b].pc = call[b].pc
<1>4. ASSUME Snapshot(c) PROVE Same
  <2> DEFINE image == IF call[c].own # Missing THEN call[c].own ELSE data
             alone == call[c].own = Missing /\ \A b \in Callers : ~Writing(b)
  <2>1. PICK name \in {c} \cup {call[b].name : b \in {b \in Callers : Writing(b)}} :
            call' = [b \in Callers |->
               IF b = c
               THEN [call[c] EXCEPT !.pc = "writing", !.image = image, !.name = name, !.alone = alone]
               ELSE [call[b] EXCEPT !.alone = FALSE]]
      BY <1>4 DEF Snapshot
  <2> HIDE DEF image, alone
  <2> QED
      BY <1>1, <2>1 DEF Calls
<1>5. ASSUME Written(c) PROVE Same
    BY <1>1, <1>5 DEF Written, Calls
<1>6. ASSUME Rename(c) PROVE Same
  <2>1. call' = [Elsewhere(call[c].name) EXCEPT ![c] = Ended(c, "ok")]
      BY <1>6 DEF Rename
  <2>2. \A b \in Callers \ {c} : call'[b] = Elsewhere(call[c].name)[b]
      BY <2>1 DEF Elsewhere
  <2>3. call'[c] = Ended(c, "ok")
      BY <2>1 DEF Elsewhere
  <2>4. \A b \in Callers : /\ Elsewhere(call[c].name)[b].op = call[b].op
                           /\ Elsewhere(call[c].name)[b].ends = call[b].ends
                           /\ Elsewhere(call[c].name)[b].pc = call[b].pc
      BY <1>1 DEF Elsewhere, Calls
  <2> QED
      BY <2>2, <2>3, <2>4, EndedKeeps
<1>7. ASSUME SaveFails(c) PROVE Same
  <2>1. call' = [b \in Callers |-> IF b = c THEN Ended(c, "failed") ELSE [call[b] EXCEPT !.alone = FALSE]]
      BY <1>7 DEF SaveFails
  <2> QED
      BY <1>1, <2>1, EndedKeeps DEF Calls
<1> HIDE DEF Same
<1>8. Same
    BY <1>4, <1>5, <1>6, <1>7
<1> QED
    BY <1>2, <1>3, <1>8 DEF Same

(* A crash that loses nothing.                                             *)
LEMMA CrashMoves ==
    ASSUME StoreInv, Crash, ~tainted'
    PROVE  ~tainted /\ Current' = Current /\ \A c \in Callers : call'[c] = Idle
<1>1. ~tainted /\ ~mixed /\ \A c \in Callers : ~Saving(c)
    BY DEF Crash
<1>2. disk' = disk /\ data' = Missing
    BY <1>1 DEF Crash, Saving, Writing
<1>3. data # Missing => Kept(disk) = data
    BY <1>1, StoreSafe DEF DiskCurrent
<1>4. Current' = Current
    BY <1>2, <1>3 DEF Current, Kept
<1> QED
    BY <1>1, <1>4 DEF Crash

-----------------------------------------------------------------------------
(***************************************************************************)
(* A toggle that is off is silent.  What a flow knows of the store's       *)
(* subscriptions subs on its way there: f is the flow, k its call, fl the  *)
(* flag and s the browser's subscription.                                  *)
(***************************************************************************)
Unharmed == ~crossed /\ ~unheard /\ ~tainted

Silent(f, k, fl, s, subs) ==
    /\ f.kind = "off" => f.pc \in {"find", "forget", "forgot", "drop"}
    /\ f.kind # "off" => fl
    /\ f.kind = "on" /\ f.pc \in {"find", "ask", "key", "browser", "report"} => s \notin subs
    /\ f.pc \in {"forget", "forgot", "drop"} => f.end = s
    /\ f.pc = "forgot" => k.op = "remove" /\ k.ends = {f.end}
    /\ f.pc = "forgot" /\ k.pc \notin {"loading", "failed"} => s \notin subs
    /\ f.pc = "drop" => s \notin subs

OffInv == Quiet /\ ~flag => sub \notin Current.subs

FlowsInv ==
    \A c \in Callers : flow[c].pc # "idle" => Silent(flow[c], call[c], flag, sub, Current.subs)

(* What is still to be added is what a flow waits for.                     *)
AddsInv ==
    \A c \in Callers : call[c].pc = "loading" /\ call[c].op = "add" =>
        flow[c].pc = "reported" /\ call[c].ends = {flow[c].end}

MadeInv == \A e \in Current.subs : made[e] # NoKey

SilentInv == Unharmed => OffInv /\ FlowsInv /\ AddsInv /\ MadeInv

LEMMA InitSilent == Init => SilentInv
<1> SUFFICES ASSUME Init PROVE SilentInv
    OBVIOUS
<1>1. Current = Fresh
    BY PushStoreAssumption DEF Init, StoreInit, Current, Kept
<1>2. \A c \in Callers : call[c].pc = "idle" /\ flow[c].pc = "idle"
    BY DEF Init, StoreInit, Idle, NoFlow
<1> QED
    BY <1>1, <1>2 DEF SilentInv, OffInv, FlowsInv, AddsInv, MadeInv, Fresh

(* While nothing harmed them, at most one flow is under way.               *)
LEMMA Lonely ==
    ASSUME PhoneInv, Unharmed, NEW c \in Callers, flow[c].pc # "idle"
    PROVE  /\ \A b \in Callers \ {c} : flow[b].pc = "idle"
           /\ Backs(flow[c], flag, sub, accepted)
           /\ flow[c] \in Flows /\ Holds(flow[c]) /\ ~Quiet
           /\ sub # None => made[sub] # NoKey
BY Zenon DEF PhoneInv, PhoneTypeOK, WaitsInv, BackedInv, Unharmed, Quiet

(* A flow takes a step of its own and is then as new says.                 *)
LEMMA FlowSilent ==
    ASSUME PhoneInv, SilentInv, Unharmed, NEW c \in Callers, flow[c].pc # "idle",
           NEW new, flow' = [flow EXCEPT ![c] = new],
           new.pc # "idle" => Silent(new, call'[c], flag', sub', Current'.subs),
           new.pc = "idle" /\ ~flag' => sub' \notin Current'.subs,
           \A b \in Callers \ {c} : call'[b] = call[b],
           call'[c].pc = "loading" /\ call'[c].op = "add" =>
              new.pc = "reported" /\ call'[c].ends = {new.end},
           \A e \in Current'.subs : made'[e] # NoKey
    PROVE  SilentInv'
<1>1. \A b \in Callers \ {c} : flow[b].pc = "idle"
    BY Lonely
<1>2. flow'[c] = new /\ \A b \in Callers \ {c} : flow'[b] = flow[b]
    BY DEF PhoneInv, PhoneTypeOK
<1>3. OffInv'
    BY <1>2 DEF OffInv, Quiet
<1>4. FlowsInv'
    BY <1>1, <1>2 DEF FlowsInv
<1>5. AddsInv'
    BY <1>1, <1>2 DEF AddsInv, SilentInv
<1> QED
    BY <1>3, <1>4, <1>5 DEF MadeInv, SilentInv

(* The same where the store is not asked.                                  *)
LEMMA StillSilent ==
    ASSUME PhoneInv, SilentInv, Unharmed, NEW c \in Callers, flow[c].pc # "idle",
           flow[c].pc # "reported", UNCHANGED storeVars,
           NEW new, flow' = [flow EXCEPT ![c] = new],
           new.pc # "idle" => Silent(new, call[c], flag', sub', Current.subs),
           new.pc = "idle" /\ ~flag' => sub' \notin Current.subs,
           \A e \in Current.subs : made'[e] # NoKey
    PROVE  SilentInv'
<1>1. call' = call /\ Current' = Current
    BY DEF storeVars, Current, Kept
<1>2. ~(call[c].pc = "loading" /\ call[c].op = "add")
    BY DEF SilentInv, AddsInv
<1> QED
    BY <1>1, <1>2, FlowSilent

(* A call c of the store takes a step and no flow does.                    *)
LEMMA CallSilent ==
    ASSUME PhoneInv, SilentInv, Unharmed, UNCHANGED phoneVars, NEW c \in Callers,
           \A b \in Callers \ {c} :
              call'[b].pc = call[b].pc /\ call'[b].op = call[b].op /\ call'[b].ends = call[b].ends,
           ~(call'[c].pc = "loading" /\ call'[c].op = "add"),
           flow[c].pc = "forgot" =>
              /\ call'[c].op = call[c].op /\ call'[c].ends = call[c].ends
              /\ call'[c].pc \notin {"loading", "failed"} => sub \notin Current'.subs,
           \/ Current'.subs \subseteq Current.subs
           \/ flow[c].pc = "reported" /\ Current'.subs = Current.subs \cup {flow[c].end}
    PROVE  SilentInv'
<1>0. OffInv /\ FlowsInv /\ AddsInv /\ MadeInv
    BY DEF SilentInv
<1>1. AddsInv'
    BY <1>0 DEF AddsInv, phoneVars
<1>2. CASE Current'.subs \subseteq Current.subs
  <2>1. OffInv' /\ MadeInv'
      BY <1>0, <1>2 DEF OffInv, MadeInv, Quiet, phoneVars
  <2>2. ASSUME NEW b \in Callers, flow[b].pc # "idle"
        PROVE  Silent(flow[b], call'[b], flag, sub, Current'.subs)
    <3>1. Silent(flow[b], call[b], flag, sub, Current.subs)
        BY <1>0, <2>2 DEF FlowsInv
    <3>2. CASE b = c
        BY <1>2, <3>1, <3>2 DEF Silent
    <3>3. CASE b # c
        BY <1>2, <3>1, <3>3 DEF Silent
    <3> QED
        BY <3>2, <3>3
  <2>3. FlowsInv'
      BY <2>2 DEF FlowsInv, phoneVars
  <2> QED
      BY <1>1, <2>1, <2>3 DEF SilentInv
<1>3. CASE flow[c].pc = "reported" /\ Current'.subs = Current.subs \cup {flow[c].end}
  <2>1. /\ \A b \in Callers \ {c} : flow[b].pc = "idle"
        /\ Backs(flow[c], flag, sub, accepted) /\ Holds(flow[c]) /\ ~Quiet
        /\ sub # None => made[sub] # NoKey
      BY <1>3, Lonely
  <2>2. Silent(flow[c], call[c], flag, sub, Current.subs)
      BY <1>0, <1>3 DEF FlowsInv
  <2>3. flow[c].end = sub /\ flow[c].end # None
      BY <1>3, <2>1, <2>2, PushChannelAssumption DEF Silent, Backs, Holds, Ending
  <2>4. MadeInv'
      BY <1>0, <1>3, <2>1, <2>3 DEF MadeInv, phoneVars
  <2>5. Silent(flow[c], call'[c], flag, sub, Current'.subs)
      BY <1>3, <2>2 DEF Silent
  <2>6. FlowsInv' /\ OffInv'
      BY <2>1, <2>5 DEF FlowsInv, OffInv, Quiet, phoneVars
  <2> QED
      BY <1>1, <2>4, <2>6 DEF SilentInv
<1> QED
    BY <1>2, <1>3

(* A flow that begins crosses every other, and asks nothing yet.           *)
LEMMA StartSilent ==
    ASSUME PhoneInv, SilentInv, NEW c \in Callers, NEW kind \in {"on", "off", "auto"}, Start(c, kind),
           kind # "off" => flag', kind = "on" => ~flag
    PROVE  SilentInv'
<1> SUFFICES ASSUME Unharmed' PROVE SilentInv'
    BY DEF SilentInv
<1> DEFINE new == [NoFlow EXCEPT !.kind = kind, !.pc = "find"]
<1>1. /\ flow[c].pc = "idle" /\ call[c].pc = "idle" /\ Quiet /\ Unharmed
      /\ flow' = [flow EXCEPT ![c] = new]
      /\ UNCHANGED <<storeVars, sub, made, unheard>>
    BY DEF Start, Unharmed, storeVars
<1>2. Current' = Current /\ call' = call
    BY <1>1 DEF storeVars, Current, Kept
<1>3. new.kind = kind /\ new.pc = "find"
    BY DEF NoFlow
<1>4. flow'[c] = new /\ \A b \in Callers \ {c} : flow'[b] = flow[b]
    BY <1>1 DEF PhoneInv, PhoneTypeOK
<1> HIDE DEF new
<1>5. OffInv /\ AddsInv /\ MadeInv
    BY <1>1 DEF SilentInv
<1>6. Silent(new, call'[c], flag', sub', Current'.subs)
    BY <1>1, <1>2, <1>3, <1>5 DEF Silent, OffInv
<1>7. FlowsInv'
    BY <1>1, <1>4, <1>6 DEF FlowsInv, Quiet
<1>8. ~Quiet'
    BY <1>3, <1>4 DEF Quiet
<1>9. AddsInv'
    BY <1>1, <1>2, <1>5 DEF AddsInv, Quiet
<1>10. MadeInv'
    BY <1>1, <1>2, <1>5 DEF MadeInv
<1> QED
    BY <1>7, <1>8, <1>9, <1>10 DEF SilentInv, OffInv

(* A failure, or the end of a flow, that the host is not told of.          *)
LEMMA GivingUpSilent ==
    ASSUME PhoneInv, SilentInv, Unharmed, NEW c \in Callers,
           flow[c].pc \in {"find", "ask", "browser", "report"}, flow[c].kind # "off",
           Over(c), flag' = FlagAfterFailure(c), UNCHANGED <<storeVars, sub, made>>
    PROVE  SilentInv'
<1>1. Silent(flow[c], call[c], flag, sub, Current.subs) /\ MadeInv
    BY DEF SilentInv, FlowsInv
<1>2. flow[c].kind \in {"on", "auto"}
    BY DEF PhoneInv, PhoneTypeOK, Flows
<1>3. ~flag' => sub' \notin Current.subs
    BY <1>1, <1>2 DEF Silent, FlagAfterFailure
<1>4. \A e \in Current.subs : made'[e] # NoKey
    BY <1>1 DEF MadeInv
<1> QED
    BY <1>3, <1>4, NoFlowTyped, StillSilent DEF Over

LEMMA FailSilent ==
    ASSUME PhoneInv, SilentInv, NEW c \in Callers, Fail(c)
    PROVE  SilentInv'
<1> SUFFICES ASSUME Unharmed' PROVE SilentInv'
    BY DEF SilentInv
<1>1. Unharmed /\ flow[c].kind # "off"
    BY DEF Fail, Unharmed, storeVars
<1> QED
    BY <1>1, GivingUpSilent DEF Fail

LEMMA NoneUnknown == ASSUME StoreInv PROVE Current.subs \subseteq Endpoints /\ None \notin Current.subs
<1>1. Current \in Images
    BY KeptTyped DEF StoreInv, StoreTypeOK, Current
<1> QED
    BY <1>1, PushChannelAssumption DEF Images

LEMMA FindSilent ==
    ASSUME StoreInv, PhoneInv, SilentInv, NEW c \in Callers, Find(c)
    PROVE  SilentInv'
<1> SUFFICES ASSUME Unharmed' PROVE SilentInv'
    BY DEF SilentInv
<1>1. /\ flow[c].pc = "find" /\ Unharmed /\ None \notin Current.subs
      /\ UNCHANGED <<storeVars, flag, sub, made>>
    BY NoneUnknown DEF Find, Unharmed, storeVars
<1>2. Silent(flow[c], call[c], flag, sub, Current.subs) /\ \A e \in Current.subs : made'[e] # NoKey
    BY <1>1 DEF SilentInv, FlowsInv, MadeInv
<1>3. flow[c] \in Flows /\ flow \in [Callers -> Flows] /\ sub \in Endpoints \cup {None}
    BY DEF PhoneInv, PhoneTypeOK
<1>4. CASE flow[c].kind = "off" /\ sub = None
  <2>1. flow' = [flow EXCEPT ![c] = NoFlow]
      BY <1>4 DEF Find, Over
  <2> QED
      BY <1>1, <1>2, <1>4, <2>1, NoFlowTyped, StillSilent
<1>5. CASE sub # None
  <2> DEFINE p == IF flow[c].kind = "off" THEN "forget" ELSE "report"
             new == [flow[c] EXCEPT !.pc = p, !.end = sub]
  <2>1. flow' = [flow EXCEPT ![c].pc = p, ![c].end = sub]
      BY <1>5 DEF Find
  <2>2. /\ new.pc = p /\ new.kind = flow[c].kind
        /\ new.end = sub /\ flow' = [flow EXCEPT ![c] = new]
      BY <1>3, <2>1 DEF Flows
  <2> HIDE DEF new
  <2>3. Silent(new, call[c], flag', sub', Current.subs)
      BY <1>1, <1>2, <2>2 DEF Silent
  <2>4. new.pc # "idle"
      BY <2>2
  <2> QED
      BY <1>1, <1>2, <2>2, <2>3, <2>4, StillSilent
<1>6. CASE flow[c].kind # "off" /\ sub = None
  <2> DEFINE new == [flow[c] EXCEPT !.pc = "ask"]
  <2>1. new.pc = "ask" /\ new.kind = flow[c].kind /\ flow' = [flow EXCEPT ![c] = new]
      BY <1>6, PcMoves DEF Find, Steps
  <2> HIDE DEF new
  <2>2. Silent(new, call[c], flag', sub', Current.subs)
      BY <1>1, <1>2, <1>6, <2>1 DEF Silent
  <2> QED
      BY <1>1, <1>2, <2>1, <2>2, StillSilent
<1> QED
    BY <1>4, <1>5, <1>6

(* A flow asks the store, and waits at p.                                  *)
LEMMA AskSilent ==
    ASSUME StoreInv, PhoneInv, SilentInv, NEW c \in Callers, flow[c].pc # "idle", Unharmed',
           NEW op \in Ops, NEW ends \in SUBSET Endpoints, StartCall(c, op, ends),
           NEW p \in Steps \ {"idle"}, Await(c, p), UNCHANGED <<flag, sub, made, crossed, unheard>>,
           op = "add" => p = "reported" /\ ends = {flow[c].end} /\ \A e \in ends : made[e] # NoKey,
           \A new, k : /\ new.pc = p /\ new.kind = flow[c].kind /\ new.end = flow[c].end
                       /\ k.op = op /\ k.ends = ends
                       /\ \/ k.pc = "loading" /\ Current'.subs = Current.subs
                          \/ Current'.subs = SubsAfter(op, ends, Current.subs)
                       /\ Silent(flow[c], call[c], flag, sub, Current.subs)
                       => Silent(new, k, flag, sub, Current'.subs)
    PROVE  SilentInv'
<1>1. /\ call'[c].op = op /\ call'[c].ends = ends /\ tainted' = tainted
      /\ \A b \in Callers \ {c} : call'[b] = call[b]
      /\ \/ call'[c].pc = "loading" /\ Current'.subs = Current.subs
         \/ Current'.subs = SubsAfter(op, ends, Current.subs)
    BY StartMoves
<1>2. Unharmed
    BY <1>1 DEF Unharmed
<1>3. Silent(flow[c], call[c], flag, sub, Current.subs) /\ \A e \in Current.subs : made[e] # NoKey
    BY <1>2 DEF SilentInv, FlowsInv, MadeInv
<1> DEFINE new == [flow[c] EXCEPT !.pc = p]
<1>4. /\ new.pc = p /\ new.kind = flow[c].kind /\ new.end = flow[c].end
      /\ flow' = [flow EXCEPT ![c] = new]
    BY PcMoves
<1> HIDE DEF new
<1>5. Silent(new, call'[c], flag, sub, Current'.subs)
    BY <1>1, <1>3, <1>4
<1>6. \A e \in Current'.subs : made'[e] # NoKey
    BY <1>1, <1>3 DEF SubsAfter
<1> QED
    BY <1>1, <1>2, <1>4, <1>5, <1>6, FlowSilent

LEMMA AskKeySilent ==
    ASSUME StoreInv, PhoneInv, SilentInv, NEW c \in Callers, AskKey(c)
    PROVE  SilentInv'
<1> SUFFICES ASSUME Unharmed' PROVE SilentInv'
    BY DEF SilentInv
<1>1. /\ flow[c].pc = "ask" /\ StartCall(c, "vapid", {}) /\ Await(c, "key")
      /\ UNCHANGED <<flag, sub, made, crossed, unheard>>
    BY DEF AskKey
<1>2. "vapid" \in Ops /\ {} \in SUBSET Endpoints /\ "key" \in Steps \ {"idle"}
    BY DEF Ops, Steps
<1>3. \A new, k : /\ new.pc = "key" /\ new.kind = flow[c].kind /\ new.end = flow[c].end
                  /\ k.op = "vapid" /\ k.ends = {}
                  /\ \/ k.pc = "loading" /\ Current'.subs = Current.subs
                     \/ Current'.subs = SubsAfter("vapid", {}, Current.subs)
                  /\ Silent(flow[c], call[c], flag, sub, Current.subs)
                  => Silent(new, k, flag, sub, Current'.subs)
    BY <1>1 DEF Silent, SubsAfter
<1> QED
    BY <1>1, <1>2, <1>3, AskSilent

LEMMA ReportSilent ==
    ASSUME StoreInv, PhoneInv, SilentInv, NEW c \in Callers, Report(c)
    PROVE  SilentInv'
<1> SUFFICES ASSUME Unharmed' PROVE SilentInv'
    BY DEF SilentInv
<1> DEFINE ends == {flow[c].end}
<1>1. /\ flow[c].pc = "report" /\ StartCall(c, "add", ends) /\ Await(c, "reported")
      /\ UNCHANGED <<flag, sub, made, crossed, unheard>>
    BY DEF Report
<1>2. "add" \in Ops /\ "reported" \in Steps \ {"idle"}
    BY DEF Ops, Steps
<1>3. Holds(flow[c]) /\ ends \in SUBSET Endpoints
    BY <1>1 DEF PhoneInv, WaitsInv, Holds, Ending
<1>4. Unharmed
    BY <1>1, <1>2, <1>3, StartMoves DEF Unharmed
<1>5. Silent(flow[c], call[c], flag, sub, Current.subs) /\ Backs(flow[c], flag, sub, accepted)
      /\ (sub # None => made[sub] # NoKey)
    BY <1>1, <1>4, Lonely DEF SilentInv, FlowsInv
<1>6. flow[c].end = sub /\ sub # None
    BY <1>1, <1>3, <1>5, PushChannelAssumption DEF Silent, Backs
<1>7. ends = {flow[c].end} /\ \A e \in ends : made[e] # NoKey
    BY <1>5, <1>6
<1>8. \A new, k : /\ new.pc = "reported" /\ new.kind = flow[c].kind /\ new.end = flow[c].end
                  /\ k.op = "add" /\ k.ends = ends
                  /\ \/ k.pc = "loading" /\ Current'.subs = Current.subs
                     \/ Current'.subs = SubsAfter("add", ends, Current.subs)
                  /\ Silent(flow[c], call[c], flag, sub, Current.subs)
                  => Silent(new, k, flag, sub, Current'.subs)
    BY <1>1 DEF Silent
<1> HIDE DEF ends
<1>9. /\ flow[c].pc # "idle"
      /\ "add" = "add" => "reported" = "reported" /\ ends = {flow[c].end} /\ \A e \in ends : made[e] # NoKey
    BY <1>1, <1>7
<1>10. ends \in SUBSET Endpoints
    BY <1>3
<1> QED
    BY <1>1, <1>2, <1>8, <1>9, <1>10, AskSilent

LEMMA ForgetSilent ==
    ASSUME StoreInv, PhoneInv, SilentInv, NEW c \in Callers, Forget(c)
    PROVE  SilentInv'
<1> SUFFICES ASSUME Unharmed' PROVE SilentInv'
    BY DEF SilentInv
<1> DEFINE ends == {flow[c].end}
<1>1. /\ flow[c].pc = "forget" /\ StartCall(c, "remove", ends) /\ Await(c, "forgot")
      /\ UNCHANGED <<flag, sub, made, crossed, unheard>>
    BY DEF Forget
<1>2. "remove" \in Ops /\ "forgot" \in Steps \ {"idle"}
    BY DEF Ops, Steps
<1>3. ends \in SUBSET Endpoints
    BY <1>1 DEF PhoneInv, WaitsInv, Holds, Ending
<1>4. \A new, k : /\ new.pc = "forgot" /\ new.kind = flow[c].kind /\ new.end = flow[c].end
                  /\ k.op = "remove" /\ k.ends = ends
                  /\ \/ k.pc = "loading" /\ Current'.subs = Current.subs
                     \/ Current'.subs = SubsAfter("remove", ends, Current.subs)
                  /\ Silent(flow[c], call[c], flag, sub, Current.subs)
                  => Silent(new, k, flag, sub, Current'.subs)
    BY <1>1 DEF Silent, SubsAfter
<1> HIDE DEF ends
<1> QED
    BY <1>1, <1>2, <1>3, <1>4, AskSilent

(* A flow has its answer: its call is idle again.                          *)
LEMMA EndMoves ==
    ASSUME StoreInv, NEW c \in Callers, EndCall(c)
    PROVE  /\ Current' = Current /\ tainted' = tainted /\ call'[c] = Idle
           /\ \A b \in Callers \ {c} : call'[b] = call[b]
BY DEF EndCall, StoreInv, StoreTypeOK, Current, Kept

LEMMA KeyComesSilent ==
    ASSUME StoreInv, PhoneInv, SilentInv, NEW c \in Callers, KeyComes(c)
    PROVE  SilentInv'
<1> SUFFICES ASSUME Unharmed' PROVE SilentInv'
    BY DEF SilentInv
<1>1. /\ flow[c].pc = "key" /\ UNCHANGED <<sub, made, crossed, unheard>>
      /\ Current' = Current /\ tainted' = tainted /\ call'[c].pc # "loading"
      /\ \A b \in Callers \ {c} : call'[b] = call[b]
    BY EndMoves DEF KeyComes, Idle
<1>2. Unharmed
    BY <1>1 DEF Unharmed
<1>3. Silent(flow[c], call[c], flag, sub, Current.subs) /\ \A e \in Current'.subs : made'[e] # NoKey
    BY <1>1, <1>2 DEF SilentInv, FlowsInv, MadeInv
<1>4. flow[c] \in Flows
    BY DEF PhoneInv, PhoneTypeOK
<1>5. CASE call[c].pc = "ok"
  <2> DEFINE new == [flow[c] EXCEPT !.pc = "browser", !.key = call[c].key]
  <2>1. flow' = [flow EXCEPT ![c].pc = "browser", ![c].key = call[c].key] /\ flag' = flag
      BY <1>5 DEF KeyComes
  <2>2. /\ new.pc = "browser" /\ new.kind = flow[c].kind /\ new.end = flow[c].end
        /\ flow' = [flow EXCEPT ![c] = new]
      BY <1>4, <2>1 DEF Flows, PhoneInv, PhoneTypeOK
  <2> HIDE DEF new
  <2>3. Silent(new, call'[c], flag', sub', Current'.subs)
      BY <1>1, <1>3, <2>1, <2>2 DEF Silent
  <2>4. new.pc # "idle" /\ flow[c].pc # "idle"
      BY <1>1, <2>2
  <2> QED
      BY <1>1, <1>2, <1>3, <2>2, <2>3, <2>4, FlowSilent
<1>6. CASE call[c].pc # "ok"
  <2>1. flow' = [flow EXCEPT ![c] = NoFlow] /\ flag' = FlagAfterFailure(c)
      BY <1>6 DEF KeyComes, Over
  <2>2. ~flag' => sub' \notin Current'.subs
      BY <1>1, <1>3, <1>4, <2>1 DEF Silent, FlagAfterFailure, Flows
  <2>3. NoFlow.pc = "idle" /\ flow[c].pc # "idle"
      BY <1>1, NoFlowTyped
  <2> QED
      BY <1>1, <1>2, <1>3, <2>1, <2>2, <2>3, FlowSilent
<1> QED
    BY <1>5, <1>6

(* A subscription that is made is new to the host.                         *)
LEMMA SubscribeSilent ==
    ASSUME StoreInv, PhoneInv, SilentInv, NEW c \in Callers, Subscribe(c)
    PROVE  SilentInv'
<1> SUFFICES ASSUME Unharmed' PROVE SilentInv'
    BY DEF SilentInv
<1>1. /\ flow[c].pc = "browser" /\ Unharmed
      /\ UNCHANGED <<storeVars, flag>>
    BY DEF Subscribe, Unharmed, storeVars
<1>2. Silent(flow[c], call[c], flag, sub, Current.subs) /\ \A e \in Current.subs : made[e] # NoKey
    BY <1>1 DEF SilentInv, FlowsInv, MadeInv
<1>3. flow[c] \in Flows /\ flow \in [Callers -> Flows] /\ made \in [Endpoints -> Keys]
      /\ flow[c].key # NoKey
    BY <1>1 DEF PhoneInv, PhoneTypeOK, WaitsInv, Holds
<1>4. PICK e \in Endpoints :
         /\ IF sub = None
            THEN made[e] = NoKey /\ made' = [made EXCEPT ![e] = flow[c].key]
            ELSE e = sub /\ made[e] = flow[c].key /\ made' = made
         /\ sub' = e
         /\ flow' = [flow EXCEPT ![c].pc = "report", ![c].end = e]
    BY DEF Subscribe
<1> DEFINE new == [flow[c] EXCEPT !.pc = "report", !.end = e]
<1>5. new.pc = "report" /\ new.kind = flow[c].kind /\ flow' = [flow EXCEPT ![c] = new]
    BY <1>3, <1>4 DEF Flows
<1> HIDE DEF new
<1>6. \A a \in Current.subs : made'[a] # NoKey
  <2>1. \A a \in Current.subs : a \in Endpoints
      BY NoneUnknown
  <2> QED
      BY <1>2, <1>3, <1>4, <2>1
<1>7. flow[c].kind = "on" => sub' \notin Current.subs
    BY <1>1, <1>2, <1>4 DEF Silent
<1>8. Silent(new, call[c], flag', sub', Current.subs)
    BY <1>1, <1>2, <1>5, <1>7 DEF Silent
<1>9. new.pc # "idle" /\ flow[c].pc \notin {"idle", "reported"}
    BY <1>1, <1>5
<1> QED
    BY <1>1, <1>5, <1>6, <1>8, <1>9, StillSilent

LEMMA ReportedSilent ==
    ASSUME StoreInv, PhoneInv, SilentInv, NEW c \in Callers, Reported(c)
    PROVE  SilentInv'
<1> SUFFICES ASSUME Unharmed' PROVE SilentInv'
    BY DEF SilentInv
<1>1. /\ flow[c].pc = "reported" /\ flow' = [flow EXCEPT ![c] = NoFlow]
      /\ UNCHANGED <<sub, made, flag, crossed, unheard>>
      /\ Current' = Current /\ tainted' = tainted /\ call'[c].pc # "loading"
      /\ \A b \in Callers \ {c} : call'[b] = call[b]
    BY EndMoves DEF Reported, Over, Idle, Unharmed
<1>2. Unharmed
    BY <1>1 DEF Unharmed
<1>3. Silent(flow[c], call[c], flag, sub, Current.subs) /\ \A e \in Current'.subs : made'[e] # NoKey
    BY <1>1, <1>2 DEF SilentInv, FlowsInv, MadeInv
<1>4. flag
    BY <1>1, <1>3 DEF Silent
<1>5. NoFlow.pc = "idle" /\ flow[c].pc # "idle"
    BY <1>1, NoFlowTyped
<1> QED
    BY <1>1, <1>2, <1>3, <1>4, <1>5, FlowSilent

(* The host has forgotten what the browser is about to drop.               *)
LEMMA ForgotSilent ==
    ASSUME StoreInv, PhoneInv, SilentInv, NEW c \in Callers, Forgot(c)
    PROVE  SilentInv'
<1> SUFFICES ASSUME Unharmed' PROVE SilentInv'
    BY DEF SilentInv
<1>1. /\ flow[c].pc = "forgot" /\ Await(c, "drop") /\ call[c].pc = "ok"
      /\ UNCHANGED <<sub, made, flag, crossed>> /\ ~unheard
    BY DEF Forgot, EndCall, Unharmed
<1>2. /\ Current' = Current /\ tainted' = tainted /\ call'[c].pc # "loading"
      /\ \A b \in Callers \ {c} : call'[b] = call[b]
      /\ Unharmed
    BY <1>1, EndMoves DEF Forgot, Idle, Unharmed
<1>3. Silent(flow[c], call[c], flag, sub, Current.subs) /\ \A e \in Current'.subs : made'[e] # NoKey
    BY <1>1, <1>2 DEF SilentInv, FlowsInv, MadeInv
<1> DEFINE new == [flow[c] EXCEPT !.pc = "drop"]
<1>4. /\ new.pc = "drop" /\ new.kind = flow[c].kind /\ new.end = flow[c].end
      /\ flow' = [flow EXCEPT ![c] = new]
    BY <1>1, PcMoves DEF Steps
<1> HIDE DEF new
<1>5. Silent(new, call'[c], flag', sub', Current'.subs)
    BY <1>1, <1>2, <1>3, <1>4 DEF Silent
<1>6. new.pc # "idle" /\ flow[c].pc # "idle"
    BY <1>1, <1>4
<1> QED
    BY <1>1, <1>2, <1>3, <1>4, <1>5, <1>6, FlowSilent

LEMMA DropSilent ==
    ASSUME StoreInv, PhoneInv, SilentInv, NEW c \in Callers, Drop(c)
    PROVE  SilentInv'
<1> SUFFICES ASSUME Unharmed' PROVE SilentInv'
    BY DEF SilentInv
<1>1. /\ flow[c].pc = "drop" /\ flow' = [flow EXCEPT ![c] = NoFlow] /\ Unharmed
      /\ sub' \in {sub, IF sub = flow[c].end THEN None ELSE sub}
      /\ UNCHANGED <<storeVars, flag, made>>
    BY DEF Drop, Over, Unharmed, storeVars
<1>2. Silent(flow[c], call[c], flag, sub, Current.subs) /\ \A e \in Current.subs : made'[e] # NoKey
    BY <1>1 DEF SilentInv, FlowsInv, MadeInv
<1>3. sub' \notin Current.subs
    BY <1>1, <1>2, NoneUnknown DEF Silent
<1>4. NoFlow.pc = "idle" /\ flow[c].pc \notin {"idle", "reported"}
    BY <1>1, NoFlowTyped
<1> QED
    BY <1>1, <1>2, <1>3, <1>4, StillSilent

LEMMA PhoneSilent ==
    ASSUME StoreInv, PhoneInv, SilentInv, NEW c \in Callers, Phone(c)
    PROVE  SilentInv'
<1>1. ASSUME ToggleOn(c) \/ ToggleOff(c) \/ Renew(c) PROVE SilentInv'
    BY <1>1, StartSilent DEF ToggleOn, ToggleOff, Renew
<1>2. ASSUME NotForgot(c) \/ LoseAnswer(c) PROVE SilentInv'
    BY <1>2 DEF NotForgot, LoseAnswer, SilentInv, Unharmed
<1> QED
    BY <1>1, <1>2, FindSilent, AskKeySilent, KeyComesSilent, SubscribeSilent, ReportSilent,
       ReportedSilent, ForgetSilent, ForgotSilent, DropSilent, FailSilent DEF Phone

LEMMA HostSilent ==
    ASSUME StoreInv, PhoneInv, SilentInv, NEW c \in Callers, Host(c)
    PROVE  SilentInv'
<1> SUFFICES ASSUME Unharmed' PROVE SilentInv'
    BY DEF SilentInv
<1>0. UNCHANGED phoneVars /\ ~tainted' /\ ~crossed /\ ~unheard
    BY DEF Host, phoneVars, Unharmed
<1>1. CASE ReadFile(c)
  <2>1. /\ Unharmed /\ call[c].pc = "loading"
        /\ Current'.subs = SubsAfter(call[c].op, call[c].ends, Current.subs)
        /\ call'[c].op = call[c].op /\ call'[c].ends = call[c].ends /\ call'[c].pc \in {"mkdir", "ok"}
        /\ \A b \in Callers \ {c} : call'[b] = call[b]
      BY <1>0, <1>1, ReadMoves DEF Unharmed
  <2>2. \/ Current'.subs \subseteq Current.subs
        \/ flow[c].pc = "reported" /\ Current'.subs = Current.subs \cup {flow[c].end}
      BY <2>1 DEF SubsAfter, SilentInv, AddsInv
  <2>3. ASSUME flow[c].pc = "forgot" PROVE sub \notin Current'.subs
    <3>1. Silent(flow[c], call[c], flag, sub, Current.subs)
        BY <2>1, <2>3 DEF SilentInv, FlowsInv
    <3>2. call[c].op = "remove" /\ call[c].ends = {sub}
        BY <2>3, <3>1 DEF Silent
    <3> QED
        BY <2>1, <3>2 DEF SubsAfter
  <2>4. ~(call'[c].pc = "loading" /\ call'[c].op = "add")
      BY <2>1
  <2> QED
      BY <1>0, <2>1, <2>2, <2>3, <2>4, CallSilent
<1>2. CASE Snapshot(c) \/ Written(c) \/ Rename(c) \/ SaveFails(c)
  <2>1. /\ Current' = Current /\ tainted' = tainted
        /\ call[c].pc \notin {"idle", "loading", "failed"} /\ call'[c].pc # "loading"
        /\ \A b \in Callers : call'[b].op = call[b].op /\ call'[b].ends = call[b].ends
        /\ \A b \in Callers \ {c} : call'[b].pc = call[b].pc
      BY <1>2, SavesQuietly
  <2>2. Unharmed
      BY <1>0, <2>1 DEF Unharmed
  <2>3. flow[c].pc = "forgot" => sub \notin Current'.subs
      BY <2>1, <2>2 DEF SilentInv, FlowsInv, Silent
  <2> QED
      BY <1>0, <2>1, <2>2, <2>3, CallSilent
<1>3. CASE flow[c].pc \notin {"key", "reported", "forgot"} /\ EndCall(c)
  <2>1. /\ Current' = Current /\ tainted' = tainted /\ call'[c].pc # "loading"
        /\ \A b \in Callers \ {c} : call'[b] = call[b]
      BY <1>3, EndMoves DEF Idle
  <2>2. Unharmed
      BY <1>0, <2>1 DEF Unharmed
  <2> QED
      BY <1>0, <1>3, <2>1, <2>2, CallSilent
<1>4. ASSUME flow[c].pc = "idle",
             NEW op \in {"vapid", "prune"}, NEW ends \in SUBSET Endpoints, StartCall(c, op, ends)
      PROVE  SilentInv'
  <2>1. /\ call'[c].op = op /\ tainted' = tainted
        /\ \A b \in Callers \ {c} : call'[b] = call[b]
        /\ Current' = Current \/ Current'.subs = SubsAfter(op, ends, Current.subs)
    <3>1. op \in Ops
        BY DEF Ops
    <3> QED
        BY <1>4, <3>1, StartMoves
  <2>2. Unharmed /\ Current'.subs \subseteq Current.subs
      BY <1>0, <2>1 DEF Unharmed, SubsAfter
  <2> QED
      BY <1>0, <1>4, <2>1, <2>2, CallSilent
<1> QED
    BY <1>1, <1>2, <1>3, <1>4 DEF Host, StoreStep

LEMMA HostCrashSilent ==
    ASSUME StoreInv, PhoneInv, SilentInv, HostCrash
    PROVE  SilentInv'
<1> SUFFICES ASSUME Unharmed' PROVE SilentInv'
    BY DEF SilentInv
<1>1. /\ Unharmed /\ Current' = Current /\ \A c \in Callers : call'[c] = Idle
      /\ UNCHANGED <<sub, made>>
      /\ \A c \in Callers : flow[c].pc \notin {"reported", "forgot"}
    BY CrashMoves DEF HostCrash, Unharmed
<1>2. /\ \A c \in Callers : flow'[c] = IF flow[c].pc = "key" THEN NoFlow ELSE flow[c]
      /\ flag' = (flag /\ \A c \in Callers : flow[c].pc = "key" => FlagAfterFailure(c))
    BY <1>1 DEF HostCrash
<1>3. OffInv /\ FlowsInv /\ MadeInv
    BY <1>1 DEF SilentInv
<1>4. AddsInv' /\ MadeInv'
    BY <1>1, <1>3 DEF AddsInv, MadeInv, Idle
<1>5. CASE Quiet
  <2>1. flag' = flag /\ \A c \in Callers : flow'[c].pc = "idle"
      BY <1>2, <1>5 DEF Quiet, PhoneInv, PhoneTypeOK
  <2> QED
      BY <1>1, <1>3, <1>4, <1>5, <2>1 DEF SilentInv, OffInv, FlowsInv, Quiet
<1>6. ASSUME NEW c \in Callers, flow[c].pc # "idle" PROVE SilentInv'
  <2>1. /\ \A b \in Callers \ {c} : flow[b].pc = "idle"
        /\ flow[c] \in Flows /\ Silent(flow[c], call[c], flag, sub, Current.subs)
      BY <1>1, <1>3, <1>6, Lonely DEF FlowsInv
  <2>2. \A b \in Callers \ {c} : flow'[b].pc = "idle"
      BY <1>2, <2>1
  <2>3. CASE flow[c].pc = "key"
    <3>1. flow'[c].pc = "idle"
        BY <1>2, <2>3, NoFlowTyped
    <3>2. ~flag' => sub \notin Current.subs
      <4>1. ~flag' => ~flag \/ ~FlagAfterFailure(c)
          BY <1>2, <2>1, <2>3
      <4> QED
          BY <2>1, <2>3, <4>1 DEF Silent, FlagAfterFailure, Flows
    <3> QED
        BY <1>1, <1>4, <2>2, <3>1, <3>2 DEF SilentInv, OffInv, FlowsInv
  <2>4. CASE flow[c].pc # "key"
    <3>1. flow'[c] = flow[c] /\ (flag => flag')
        BY <1>2, <2>1, <2>4
    <3>2. flag' => flag
        BY <1>2
    <3>3. Silent(flow'[c], call'[c], flag', sub', Current'.subs)
        BY <1>1, <2>1, <3>1, <3>2 DEF Silent
    <3> QED
        BY <1>4, <1>6, <2>2, <3>1, <3>3 DEF SilentInv, OffInv, FlowsInv, Quiet
  <2> QED
      BY <2>3, <2>4
<1> QED
    BY <1>5, <1>6 DEF Quiet

LEMMA ChannelSilent ==
    ASSUME StoreInv, PhoneInv, SilentInv, [Next]_vars
    PROVE  SilentInv'
<1>1. CASE Reload \/ Expire
    BY <1>1 DEF Reload, Expire, SilentInv, Unharmed
<1>2. CASE UNCHANGED vars
    BY <1>2 DEF vars, storeVars, phoneVars, SilentInv, Unharmed, OffInv, FlowsInv, AddsInv, MadeInv,
                Quiet, Current, Kept
<1> QED
    BY <1>1, <1>2, PhoneSilent, HostSilent, HostCrashSilent DEF Next

(* A toggle that is off leaves the host no subscription that the browser   *)
(* still has, whatever failed before and however often the host crashed.   *)
THEOREM OffStaysSilent == Spec => []OffIsSilent
<1>1. StoreInv /\ PhoneInv /\ SilentInv /\ [Next]_vars => StoreInv' /\ PhoneInv' /\ SilentInv'
    BY ChannelKeeps, ChannelSilent
<1>2. SilentInv => OffIsSilent
    BY DEF SilentInv, Unharmed, OffInv, OffIsSilent
<1>3. Init => StoreInv /\ PhoneInv /\ SilentInv
    BY InitChannel, InitSilent
<1> QED
    BY <1>1, <1>2, <1>3, PTL DEF Spec
=============================================================================
