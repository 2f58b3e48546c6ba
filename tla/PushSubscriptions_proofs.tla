----------------------- MODULE PushSubscriptions_proofs ----------------------
(***************************************************************************)
(* What the store's array of subscriptions keeps under the requests of     *)
(* phones, the answers to sends and any number of prunes, for any devices  *)
(* and endpoints.                                                          *)
(***************************************************************************)
EXTENDS PushSubscriptions, FiniteSetTheorems, TLAPS

(* The array and the walks over it.                                        *)
WalkOK(p) ==
    /\ prune[p].left \subseteq Stored(IF prune[p].same THEN subs ELSE prune[p].array)
    /\ ~prune[p].on => prune[p] = Resting

ArraysOK == subs \in Arrays /\ prune \in [Pruners -> Walks] /\ \A p \in Pruners : WalkOK(p)

(* The rest of the state.                                                  *)
RequestsOK ==
    /\ valid \subseteq Devices /\ corrupt \in BOOLEAN
    /\ request \in [Devices -> Requests]
    /\ posted \subseteq Endpoints
    /\ requests \in 0..MaxRequests /\ corrupted \in 0..MaxCorrupt
    /\ removed \subseteq Endpoints

(* A prune nobody disturbed walks the array of now, which has as many      *)
(* entries as when it began, and kept only entries of it whose device was  *)
(* valid when it began.                                                    *)
QuietInv(p) ==
    prune[p].on /\ prune[p].quiet =>
        /\ prune[p].same /\ prune[p].before = Cardinality(Stored(subs))
        /\ prune[p].revoked \cap valid = {}
        /\ \A e \in Endpoints : prune[p].kept[e] # NoDevice =>
              prune[p].kept[e] = subs[e] /\ prune[p].kept[e] \notin prune[p].revoked

(* The validator answers FALSE for everybody: what a prune kept is nothing.*)
KeptNothing == \A p \in Pruners : prune[p].kept = Empty

ArrayInv ==
    /\ ArraysOK /\ RequestsOK
    /\ \A p \in Pruners : QuietInv(p)
    /\ KeptNothing /\ RemovedStaysRemoved

-----------------------------------------------------------------------------
LEMMA EmptyTyped == Empty \in Arrays /\ Stored(Empty) = {}
  BY DEF Empty, Arrays, Owners, Stored

LEMMA StoredCounts ==
    ASSUME NEW a \in Arrays
    PROVE  /\ Stored(a) \subseteq Endpoints /\ IsFiniteSet(Stored(a))
           /\ Cardinality(Stored(a)) \in 0..Cardinality(Endpoints)
<1>1. Stored(a) \subseteq Endpoints
    BY DEF Stored
<1>2. IsFiniteSet(Stored(a)) /\ Cardinality(Stored(a)) <= Cardinality(Endpoints)
    BY <1>1, ConstantsAssumption, FS_Subset
<1>3. Cardinality(Stored(a)) \in Nat /\ Cardinality(Endpoints) \in Nat
    BY <1>2, ConstantsAssumption, FS_CardinalityType
<1> QED
    BY <1>1, <1>2, <1>3

LEMMA RestingTyped == Resting \in Walks
<1>1. 0 \in 0..Cardinality(Endpoints)
    BY EmptyTyped, StoredCounts, FS_EmptySet
<1> QED
    BY <1>1, EmptyTyped DEF Resting, Walks

(* Nobody is valid, least of all one who is not.                           *)
LEMMA NobodyValid == ASSUME NEW d PROVE ~IsDeviceValid(d)
  BY DEF IsDeviceValid

-----------------------------------------------------------------------------
(* The array and its walks under an entry that is set ...                  *)
LEMMA SetKeeps ==
    ASSUME ArraysOK, NEW e \in Endpoints, NEW d \in Devices, SetEntry(e, d)
    PROVE  ArraysOK' /\ \A p \in Pruners : prune'[p].kept = prune[p].kept /\ (prune'[p].on => ~prune'[p].quiet)
<1> DEFINE New(p) == [prune[p] EXCEPT !.quiet = FALSE,
                         !.left = IF prune[p].same /\ subs[e] = NoDevice THEN @ \cup {e} ELSE @]
<1>1. subs' = [subs EXCEPT ![e] = d] /\ subs' \in Arrays /\ d # NoDevice
    BY ConstantsAssumption DEF SetEntry, ArraysOK, Arrays, Owners
<1>2. Stored(subs') = Stored(subs) \cup {e}
    BY <1>1 DEF Stored, ArraysOK, Arrays
<1>3. ASSUME NEW p \in Pruners, prune[p].on
      PROVE  /\ New(p) \in Walks /\ New(p).on /\ ~New(p).quiet /\ New(p).kept = prune[p].kept
             /\ New(p).left \subseteq Stored(IF New(p).same THEN subs' ELSE New(p).array)
    BY <1>2, <1>3, ZenonT(60) DEF ArraysOK, WalkOK, Walks
<1>4. \A p \in Pruners : prune'[p] = IF prune[p].on THEN New(p) ELSE prune[p]
    BY DEF SetEntry
<1>5. prune' \in [Pruners -> Walks]
    BY <1>3, <1>4 DEF SetEntry, ArraysOK
<1>6. ASSUME NEW p \in Pruners
      PROVE  WalkOK(p)' /\ prune'[p].kept = prune[p].kept /\ (prune'[p].on => ~prune'[p].quiet)
  <2>1. CASE prune[p].on
      BY <1>3, <1>4, <2>1 DEF WalkOK
  <2>2. CASE ~prune[p].on
    <3>1. prune'[p] = prune[p] /\ prune[p] = Resting
        BY <1>4, <2>2 DEF ArraysOK, WalkOK
    <3> QED
        BY <2>2, <3>1 DEF WalkOK, Resting
  <2> QED
      BY <2>1, <2>2
<1> QED
    BY <1>1, <1>5, <1>6 DEF ArraysOK

(* ... and under an array put in its place.                                *)
LEMMA AsideKeeps ==
    ASSUME subs \in Arrays, NEW ps \in [Pruners -> Walks],
           \A p \in Pruners : /\ ps[p].left \subseteq Stored(IF ps[p].same THEN subs ELSE ps[p].array)
                              /\ ~ps[p].on => ps[p] = Resting,
           subs' \in Arrays, prune' = PutAside(ps)
    PROVE  ArraysOK' /\ \A p \in Pruners : prune'[p].kept = ps[p].kept /\ (prune'[p].on => ~prune'[p].quiet)
<1> DEFINE New(p) == [ps[p] EXCEPT !.quiet = FALSE, !.same = FALSE,
                         !.array = IF ps[p].same THEN subs ELSE @]
<1>1. ASSUME NEW p \in Pruners
      PROVE  /\ New(p) \in Walks /\ ~New(p).quiet /\ New(p).kept = ps[p].kept /\ New(p).on = ps[p].on
             /\ New(p).left \subseteq Stored(IF New(p).same THEN subs' ELSE New(p).array)
  <2>1. /\ New(p).on = ps[p].on /\ New(p).same = FALSE /\ New(p).quiet = FALSE
        /\ New(p).kept = ps[p].kept /\ New(p).left = ps[p].left
        /\ New(p).array = IF ps[p].same THEN subs ELSE ps[p].array
      BY DEF Walks
  <2>2. New(p) \in Walks
    <3>1. (IF ps[p].same THEN subs ELSE ps[p].array) \in Arrays
        BY DEF Walks
    <3> QED
        BY <3>1 DEF Walks
  <2> HIDE DEF New
  <2>3. New(p).left \subseteq Stored(IF New(p).same THEN subs' ELSE New(p).array)
      BY <2>1
  <2> QED
      BY <2>1, <2>2, <2>3, Zenon
<1>2. \A p \in Pruners : prune'[p] = IF ps[p].on THEN New(p) ELSE ps[p]
    BY DEF PutAside
<1>3. prune' \in [Pruners -> Walks]
    BY <1>1, <1>2 DEF PutAside
<1>4. ASSUME NEW p \in Pruners
      PROVE  WalkOK(p)' /\ prune'[p].kept = ps[p].kept /\ (prune'[p].on => ~prune'[p].quiet)
  <2>1. CASE ps[p].on
    <3> HIDE DEF New
    <3>1. prune'[p] = New(p) /\ New(p).on
        BY <1>1, <1>2, <2>1
    <3> QED
        BY <1>1, <3>1 DEF WalkOK
  <2>2. CASE ~ps[p].on
    <3>1. prune'[p] = ps[p] /\ ps[p] = Resting
        BY <1>2, <2>2
    <3> QED
        BY <2>2, <3>1 DEF WalkOK, Resting
  <2> QED
      BY <2>1, <2>2
<1> QED
    BY <1>3, <1>4 DEF ArraysOK

(* Another array: no walk is undisturbed any more.                         *)
LEMMA NewArrayKeeps ==
    ASSUME ArrayInv, NEW array \in Arrays, NewArray(array)
    PROVE  ArraysOK' /\ KeptNothing' /\ \A p \in Pruners : QuietInv(p)'
<1>1. ArraysOK /\ subs' = array /\ prune' = PutAside(prune)
    BY DEF ArrayInv, NewArray
<1>2. ArraysOK' /\ \A p \in Pruners : prune'[p].kept = prune[p].kept /\ (prune'[p].on => ~prune'[p].quiet)
    BY <1>1, AsideKeeps DEF ArraysOK, WalkOK
<1> QED
    BY <1>2 DEF ArrayInv, KeptNothing, QuietInv

(* The requests of phones and the answers to sends.                        *)
LEMMA PhonesKeep ==
    ASSUME ArrayInv,
           \/ \E d \in Devices : AddSubscription(d) \/ RemoveSubscription(d)
           \/ \E e \in Endpoints : GoneAnswer(e)
    PROVE  ArrayInv'
<1>1. ArraysOK /\ RequestsOK /\ KeptNothing /\ RemovedStaysRemoved
    BY DEF ArrayInv
<1>2. ASSUME NEW gone \in SUBSET Endpoints
      PROVE  /\ Without(gone) \in Arrays
             /\ \A e \in removed \cup gone : Without(gone)[e] = NoDevice
    BY <1>1 DEF Without, ArraysOK, Arrays, Owners, RequestsOK, RemovedStaysRemoved
<1>3. ASSUME NEW d \in Devices, AddSubscription(d) PROVE ArrayInv'
  <2> DEFINE e == request[d].endpoint
  <2>1. e \in Endpoints
      BY <1>1, <1>3 DEF AddSubscription, RequestsOK, Requests, NoRequest
  <2>2. SetEntry(e, d)
      BY <1>3 DEF AddSubscription
  <2>3. ArraysOK' /\ \A p \in Pruners : prune'[p].kept = prune[p].kept /\ (prune'[p].on => ~prune'[p].quiet)
      BY <1>1, <2>1, <2>2, SetKeeps
  <2>4. RequestsOK'
      BY <1>1, <1>3 DEF AddSubscription, RequestsOK, Requests
  <2>5. RemovedStaysRemoved'
      BY <1>1, <1>3, <2>1, <2>2 DEF AddSubscription, SetEntry, RemovedStaysRemoved, ArraysOK, Arrays, RequestsOK
  <2> QED
      BY <1>1, <2>3, <2>4, <2>5 DEF ArrayInv, KeptNothing, QuietInv
<1>4. ASSUME NEW gone \in SUBSET Endpoints, NewArray(Without(gone)), removed' = removed \cup gone, RequestsOK'
      PROVE  ArrayInv'
  <2>1. ArraysOK' /\ KeptNothing' /\ \A p \in Pruners : QuietInv(p)'
      BY <1>2, <1>4, NewArrayKeeps
  <2>2. RemovedStaysRemoved'
      BY <1>2, <1>4 DEF NewArray, RemovedStaysRemoved
  <2> QED
      BY <1>4, <2>1, <2>2 DEF ArrayInv
<1>5. ASSUME NEW d \in Devices, RemoveSubscription(d) PROVE ArrayInv'
  <2>1. request[d].endpoint \in Endpoints
      BY <1>1, <1>5 DEF RemoveSubscription, RequestsOK, Requests, NoRequest
  <2>2. PICK gone \in SUBSET Endpoints : NewArray(Without(gone)) /\ removed' = removed \cup gone
      BY <1>5, <2>1 DEF RemoveSubscription
  <2>3. RequestsOK'
      BY <1>1, <1>5, <2>2 DEF RemoveSubscription, RequestsOK, Requests
  <2> QED
      BY <1>4, <2>2, <2>3
<1>6. ASSUME NEW e \in Endpoints, GoneAnswer(e) PROVE ArrayInv'
  <2>1. RequestsOK'
      BY <1>1, <1>6 DEF GoneAnswer, RequestsOK
  <2>2. NewArray(Without({e})) /\ removed' = removed \cup {e}
      BY <1>6 DEF GoneAnswer
  <2> QED
      BY <1>4, <2>1, <2>2
<1> QED
    BY <1>3, <1>5, <1>6

(* What leaves the array and its walks alone.                              *)
LEMMA OthersKeep ==
    ASSUME ArrayInv,
           \/ \E d \in Devices : \/ \E e \in Endpoints : Subscribe(d, e) \/ Unsubscribe(d, e)
                                 \/ Invalidate(d)
           \/ \E e \in Endpoints : Post(e) \/ Answer(e)
           \/ Corrupt \/ Repair \/ UNCHANGED vars
    PROVE  ArrayInv'
<1>1. RequestsOK
    BY DEF ArrayInv
<1>2. UNCHANGED <<subs, prune, removed>> /\ valid' \subseteq valid
    BY DEF Subscribe, Unsubscribe, Invalidate, Post, Answer, Corrupt, Repair, vars
<1>3. RequestsOK'
  <2>1. CASE \E d \in Devices, e \in Endpoints : Subscribe(d, e) \/ Unsubscribe(d, e)
      BY <1>1, <2>1, ConstantsAssumption DEF Subscribe, Unsubscribe, RequestsOK, Requests
  <2>2. CASE (\E d \in Devices : Invalidate(d)) \/ (\E e \in Endpoints : Post(e) \/ Answer(e))
      BY <1>1, <2>2 DEF Invalidate, Post, Answer, RequestsOK
  <2>3. CASE Corrupt \/ Repair
    <3>1. corrupt' \in BOOLEAN
        BY <2>3, Zenon DEF Corrupt, Repair
    <3>2. corrupted' \in 0..MaxCorrupt
        BY <1>1, <2>3, ConstantsAssumption DEF Corrupt, Repair, RequestsOK
    <3> QED
        BY <1>1, <2>3, <3>1, <3>2, Zenon DEF Corrupt, Repair, RequestsOK
  <2>4. CASE UNCHANGED vars
      BY <1>1, <2>4 DEF vars, RequestsOK
  <2> QED
      BY <2>1, <2>2, <2>3, <2>4
<1>4. ASSUME NEW p \in Pruners PROVE QuietInv(p)'
  <2>1. QuietInv(p) /\ prune' = prune /\ subs' = subs /\ valid' \subseteq valid
      BY <1>2 DEF ArrayInv
  <2> QED
      BY <2>1 DEF QuietInv
<1>5. ArraysOK' /\ KeptNothing' /\ RemovedStaysRemoved'
    BY <1>2 DEF ArrayInv, ArraysOK, WalkOK, KeptNothing, RemovedStaysRemoved
<1> QED
    BY <1>3, <1>4, <1>5 DEF ArrayInv

(* A prune replaced by another that is in order.                           *)
LEMMA WalkReplaced ==
    ASSUME ArrayInv, NEW p \in Pruners, NEW w \in Walks,
           w.left \subseteq Stored(IF w.same THEN subs ELSE w.array), w.on \/ w = Resting,
           prune' = [prune EXCEPT ![p] = w], subs' = subs
    PROVE  ArraysOK' /\ prune'[p] = w /\ \A q \in Pruners : q # p => prune'[q] = prune[q]
<1>1. prune'[p] = w /\ (\A q \in Pruners : q # p => prune'[q] = prune[q]) /\ prune' \in [Pruners -> Walks]
    BY DEF ArrayInv, ArraysOK
<1>2. \A q \in Pruners : WalkOK(q)'
    BY <1>1 DEF ArrayInv, ArraysOK, WalkOK
<1> QED
    BY <1>1, <1>2 DEF ArrayInv, ArraysOK

(* The prune itself.                                                       *)
LEMMA PruneKeeps ==
    ASSUME ArrayInv, NEW p \in Pruners, Pruning(p)
    PROVE  ArrayInv'
<1>1. ArraysOK /\ RequestsOK /\ KeptNothing /\ RemovedStaysRemoved /\ \A q \in Pruners : QuietInv(q)
    BY DEF ArrayInv
<1>2. RequestsOK' /\ UNCHANGED <<valid, removed>>
    BY <1>1 DEF Pruning, PruneStart, PruneVisit, PruneEnd, RequestsOK
<1>3. ASSUME subs' = subs, NEW w \in Walks, prune' = [prune EXCEPT ![p] = w],
             w.left \subseteq Stored(IF w.same THEN subs ELSE w.array), w.on \/ w = Resting,
             w.kept = Empty,
             w.on /\ w.quiet => /\ w.same /\ w.before = Cardinality(Stored(subs))
                                /\ w.revoked \cap valid = {}
      PROVE  ArrayInv'
  <2>1. ArraysOK' /\ prune'[p] = w /\ \A q \in Pruners : q # p => prune'[q] = prune[q]
      BY <1>3, WalkReplaced
  <2>2. KeptNothing' /\ RemovedStaysRemoved'
      BY <1>1, <1>2, <1>3, <2>1 DEF KeptNothing, RemovedStaysRemoved
  <2>3. ASSUME NEW q \in Pruners PROVE QuietInv(q)'
    <3>1. CASE q = p
        BY <1>2, <1>3, <2>1, <3>1 DEF QuietInv, Empty
    <3>2. CASE q # p
        BY <1>1, <1>2, <1>3, <2>1, <3>2 DEF QuietInv
    <3> QED
        BY <3>1, <3>2
  <2> QED
      BY <1>2, <2>1, <2>2, <2>3 DEF ArrayInv
<1>4. CASE PruneStart(p)
  <2> DEFINE w == [Resting EXCEPT !.on = TRUE, !.same = TRUE, !.left = Stored(subs),
                          !.before = Cardinality(Stored(subs)), !.revoked = Devices \ valid]
  <2>1. w \in Walks
      BY <1>1, RestingTyped, StoredCounts DEF Walks, Resting, ArraysOK
  <2>2. /\ w.on /\ w.same /\ w.left = Stored(subs) /\ w.before = Cardinality(Stored(subs))
        /\ w.kept = Empty /\ w.revoked = Devices \ valid
      BY DEF Resting
  <2>3. prune' = [prune EXCEPT ![p] = w] /\ subs' = subs
      BY <1>4 DEF PruneStart
  <2> HIDE DEF w
  <2> QED
      BY <1>3, <2>1, <2>2, <2>3
<1>5. CASE \E e \in Endpoints : PruneVisit(p, e)
  <2>1. PICK e \in Endpoints : PruneVisit(p, e)
      BY <1>5
  <2> DEFINE w == [prune[p] EXCEPT !.left = @ \ {e}, !.kept[e] = NoDevice]
  <2>2. prune' = [prune EXCEPT ![p] = w] /\ subs' = subs /\ prune[p] \in Walks /\ prune[p].on
      BY <1>1, <2>1, NobodyValid DEF PruneVisit, ArraysOK
  <2>3. prune[p].kept = Empty /\ [Empty EXCEPT ![e] = NoDevice] = Empty
      BY <1>1 DEF KeptNothing, Empty
  <2>4. /\ w \in Walks /\ w.on = prune[p].on /\ w.same = prune[p].same /\ w.quiet = prune[p].quiet
        /\ w.array = prune[p].array /\ w.before = prune[p].before /\ w.revoked = prune[p].revoked
        /\ w.left = prune[p].left \ {e} /\ w.kept = Empty
      BY <2>2, <2>3, EmptyTyped DEF Walks
  <2> HIDE DEF w
  <2>5. WalkOK(p) /\ QuietInv(p)
      BY <1>1 DEF ArraysOK
  <2>6. w.left \subseteq Stored(IF w.same THEN subs ELSE w.array)
      BY <2>4, <2>5 DEF WalkOK
  <2>7. w.on /\ w.quiet => /\ w.same /\ w.before = Cardinality(Stored(subs))
                           /\ w.revoked \cap valid = {}
      BY <2>4, <2>5 DEF QuietInv
  <2> QED
      BY <1>3, <2>2, <2>4, <2>6, <2>7
<1>6. CASE PruneEnd(p)
  <2> DEFINE rest == [prune EXCEPT ![p] = Resting]
  <2>1. CASE subs' = subs /\ prune' = rest
    <3>1. /\ Resting.left = {} /\ Resting.kept = Empty /\ ~Resting.on
        BY DEF Resting
    <3> QED
        BY <1>3, <2>1, <3>1, RestingTyped
  <2>2. CASE subs' = prune[p].kept /\ prune' = PutAside(rest)
    <3>1. subs' = Empty
        BY <1>1, <2>2 DEF KeptNothing
    <3>2. /\ rest \in [Pruners -> Walks] /\ rest[p] = Resting
          /\ \A q \in Pruners : q # p => rest[q] = prune[q]
        BY <1>1, RestingTyped DEF ArraysOK
    <3> HIDE DEF rest
    <3>3. \A q \in Pruners : /\ rest[q].left \subseteq Stored(IF rest[q].same THEN subs ELSE rest[q].array)
                             /\ ~rest[q].on => rest[q] = Resting
                             /\ rest[q].kept = Empty
        BY <1>1, <3>2 DEF ArraysOK, WalkOK, KeptNothing, Resting
    <3>4. ArraysOK' /\ \A q \in Pruners : prune'[q].kept = Empty /\ (prune'[q].on => ~prune'[q].quiet)
        BY <1>1, <2>2, <3>1, <3>2, <3>3, EmptyTyped, AsideKeeps DEF ArraysOK
    <3>5. RemovedStaysRemoved'
        BY <1>1, <1>2, <3>1 DEF RemovedStaysRemoved, RequestsOK, Empty
    <3> QED
        BY <1>2, <3>4, <3>5 DEF ArrayInv, KeptNothing, QuietInv
  <2> QED
      BY <1>6, <2>1, <2>2 DEF PruneEnd
<1> QED
    BY <1>4, <1>5, <1>6 DEF Pruning

-----------------------------------------------------------------------------
LEMMA ArraysKept == Spec => []ArrayInv
<1>1. Init => ArrayInv
  <2> SUFFICES ASSUME Init PROVE ArrayInv
      OBVIOUS
  <2>1. ArraysOK
      BY EmptyTyped, RestingTyped DEF Init, ArraysOK, WalkOK, Resting
  <2>2. RequestsOK
    <3>1. corrupt \in BOOLEAN
        BY Zenon DEF Init
    <3>2. requests \in 0..MaxRequests /\ corrupted \in 0..MaxCorrupt
        BY ConstantsAssumption DEF Init
    <3>3. request \in [Devices -> Requests] /\ valid \subseteq Devices /\ posted \subseteq Endpoints
          /\ removed \subseteq Endpoints
        BY DEF Init, Requests
    <3> QED
        BY <3>1, <3>2, <3>3, Zenon DEF RequestsOK
  <2>3. KeptNothing /\ RemovedStaysRemoved /\ \A p \in Pruners : QuietInv(p)
      BY DEF Init, KeptNothing, RemovedStaysRemoved, QuietInv, Resting
  <2> QED
      BY <2>1, <2>2, <2>3 DEF ArrayInv
<1>2. ArrayInv /\ [Next]_vars => ArrayInv'
    BY PhonesKeep, OthersKeep, PruneKeeps DEF Next
<1> QED
    BY <1>1, <1>2, PTL DEF Spec

(* Every reachable state is well typed.                                    *)
THEOREM TypeCorrect == Spec => []TypeOK
<1>1. ArrayInv => TypeOK
    BY DEF ArrayInv, ArraysOK, WalkOK, RequestsOK, TypeOK
<1> QED
    BY <1>1, ArraysKept, PTL

(* What was unsubscribed or gone stays away until it is subscribed again,  *)
(* also when prunes that began before, any number of them, end after it.   *)
THEOREM RemovedStaysAway == Spec => []RemovedStaysRemoved
<1>1. ArrayInv => RemovedStaysRemoved
    BY DEF ArrayInv
<1> QED
    BY <1>1, ArraysKept, PTL

(* A prune nobody disturbed leaves no subscription of a device that was    *)
(* not valid when it began.  Of the validator the argument uses only that  *)
(* it refuses those: as many entries kept as there were are the same.      *)
THEOREM PruneForgets == Spec => QuietPruneForgets
<1> DEFINE Forgets == \A p \in Pruners : PruneEnd(p) /\ prune[p].quiet =>
                         \A e \in Endpoints : subs'[e] # NoDevice =>
                            subs'[e] = subs[e] /\ subs[e] \notin prune[p].revoked
<1>1. ArrayInv => Forgets
  <2> SUFFICES ASSUME ArrayInv, NEW p \in Pruners, PruneEnd(p), prune[p].quiet,
                      NEW e \in Endpoints, subs'[e] # NoDevice
               PROVE  subs'[e] = subs[e] /\ subs[e] \notin prune[p].revoked
      OBVIOUS
  <2> DEFINE kept == prune[p].kept
  <2>1. /\ prune[p].before = Cardinality(Stored(subs))
        /\ \A f \in Endpoints : kept[f] # NoDevice => kept[f] = subs[f] /\ kept[f] \notin prune[p].revoked
      BY DEF ArrayInv, QuietInv, PruneEnd
  <2>2. CASE subs' = kept
      BY <2>1, <2>2
  <2>3. CASE Cardinality(Stored(kept)) = prune[p].before /\ subs' = subs
    <3>1. Stored(kept) \in SUBSET Stored(subs)
        BY <2>1 DEF Stored
    <3>2. IsFiniteSet(Stored(subs))
        BY StoredCounts DEF ArrayInv, ArraysOK
    <3>3. Stored(kept) = Stored(subs)
        BY <2>1, <2>3, <3>1, <3>2, FS_Subset
    <3>4. kept[e] # NoDevice
        BY <2>3, <3>3 DEF Stored
    <3> QED
        BY <2>1, <2>3, <3>4
  <2> QED
      BY <2>2, <2>3 DEF PruneEnd
<1>2. ArrayInv /\ [Next]_vars => [Forgets]_vars
    BY <1>1
<1> HIDE DEF Forgets
<1>3. Spec => [][Forgets]_vars
    BY <1>2, ArraysKept, PTL DEF Spec
<1> QED
    BY <1>3 DEF Forgets, QuietPruneForgets
=============================================================================
