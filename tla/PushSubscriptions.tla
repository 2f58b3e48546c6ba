-------------------------- MODULE PushSubscriptions -------------------------
(***************************************************************************)
(* The subscriptions of the push store (lib/push/store.js 216-289) under   *)
(* everything that works on them at once: the phones' push.subscribe,      *)
(* push.unsubscribe and push.test (lib/host.js, lib/push/subscribe.js),    *)
(* the answers to the dispatcher's sends, and the minute's prune, which    *)
(* awaits a validator between two entries.                                 *)
(*                                                                         *)
(* `subs` stands for the array d.subscriptions, at most one entry per      *)
(* endpoint.  addSubscription changes that array; removeSubscription and   *)
(* pruneRevoked put another in its place, after which a prune under way    *)
(* goes on over the old one.                                               *)
(***************************************************************************)
EXTENDS Naturals, FiniteSets

CONSTANTS
    Devices, Endpoints,
    Pruners,       \* cycles that can be in pruneRevoked side by side
    MaxRequests,   \* bound: push.subscribe requests per behaviour
    MaxCorrupt,    \* bound: how often the security store becomes unreadable
    NoDevice

ASSUME ConstantsAssumption ==
    /\ NoDevice \notin Devices
    /\ IsFiniteSet(Endpoints)
    /\ {MaxRequests, MaxCorrupt} \subseteq Nat

Owners == Devices \cup {NoDevice}
Arrays == [Endpoints -> Owners]
Empty  == [e \in Endpoints |-> NoDevice]
Stored(array) == {e \in Endpoints : array[e] # NoDevice}

VARIABLES
    valid,     \* devices paired and holding `files`
    corrupt,   \* the security store cannot be read
    request,   \* each device's push request in flight
    posted,    \* endpoints with a POST in flight
    subs,      \* d.subscriptions
    prune,     \* each pruner's progress through its array
    requests,  \* subscribe requests made so far
    corrupted, \* times the security store became unreadable
    removed    \* history: endpoints unsubscribed or gone, not added since

vars == <<valid, corrupt, request, posted, subs, prune, requests, corrupted, removed>>

NoRequest == [op |-> "none"]
Requests  == [op : {"subscribe", "unsubscribe"}, endpoint : Endpoints] \cup {NoRequest}

Resting == [on |-> FALSE, same |-> FALSE, array |-> Empty, left |-> {},
            kept |-> Empty, before |-> 0, revoked |-> {}, quiet |-> TRUE]

Walks == [on : BOOLEAN, same : BOOLEAN, array : Arrays, left : SUBSET Endpoints, kept : Arrays,
          before : 0..Cardinality(Endpoints), revoked : SUBSET Devices, quiet : BOOLEAN]

TypeOK ==
    /\ valid \subseteq Devices /\ corrupt \in BOOLEAN
    /\ request \in [Devices -> Requests]
    /\ posted \subseteq Endpoints
    /\ subs \in Arrays
    /\ prune \in [Pruners -> Walks]
    /\ \A p \in Pruners :
          /\ prune[p].left \subseteq
                Stored(IF prune[p].same THEN subs ELSE prune[p].array)
          /\ ~prune[p].on => prune[p] = Resting
    /\ requests \in 0..MaxRequests /\ corrupted \in 0..MaxCorrupt
    /\ removed \subseteq Endpoints

Init ==
    /\ valid = Devices /\ corrupt = FALSE
    /\ request = [d \in Devices |-> NoRequest]
    /\ posted = {}
    /\ subs = Empty
    /\ prune = [p \in Pruners |-> Resting]
    /\ requests = 0 /\ corrupted = 0
    /\ removed = {}

-----------------------------------------------------------------------------
(***************************************************************************)
(* The array and the pruners that walk it.                                 *)
(***************************************************************************)
(* An entry replaced or appended in the array is met by a walk over it,    *)
(* unless the walk is past it.                                             *)
SetEntry(e, d) ==
    /\ subs' = [subs EXCEPT ![e] = d]
    /\ prune' = [p \in Pruners |->
          IF prune[p].on
          THEN [prune[p] EXCEPT !.quiet = FALSE,
                  !.left = IF prune[p].same /\ subs[e] = NoDevice THEN @ \cup {e} ELSE @]
          ELSE prune[p]]

(* A walk whose array is put aside keeps it.                               *)
PutAside(ps) ==
    [p \in Pruners |->
       IF ps[p].on
       THEN [ps[p] EXCEPT !.quiet = FALSE, !.same = FALSE,
                          !.array = IF ps[p].same THEN subs ELSE @]
       ELSE ps[p]]

(* Mutant: the array is changed in place under the walks.                  *)
NewArrayInPlace(array) == subs' = array /\ UNCHANGED prune

NewArray(array) == subs' = array /\ prune' = PutAside(prune)

Without(gone) == [e \in Endpoints |-> IF e \in gone THEN NoDevice ELSE subs[e]]

-----------------------------------------------------------------------------
(***************************************************************************)
(* Requests of the phones, each authenticated when it arrives.             *)
(***************************************************************************)
(* push.subscribe: authenticated, then up to four seconds of probing.      *)
Subscribe(d, e) ==
    /\ d \in valid /\ ~corrupt
    /\ request[d] = NoRequest
    /\ requests < MaxRequests /\ requests' = requests + 1
    /\ request' = [request EXCEPT ![d] = [op |-> "subscribe", endpoint |-> e]]
    /\ UNCHANGED <<valid, corrupt, posted, subs, prune, corrupted, removed>>

AddSubscription(d) ==
    /\ request[d].op = "subscribe"
    /\ SetEntry(request[d].endpoint, d)
    /\ removed' = removed \ {request[d].endpoint}
    /\ request' = [request EXCEPT ![d] = NoRequest]
    /\ UNCHANGED <<valid, corrupt, posted, requests, corrupted>>

Unsubscribe(d, e) ==
    /\ d \in valid /\ ~corrupt
    /\ request[d] = NoRequest /\ subs[e] = d
    /\ request' = [request EXCEPT ![d] = [op |-> "unsubscribe", endpoint |-> e]]
    /\ UNCHANGED <<valid, corrupt, posted, subs, prune, requests, corrupted, removed>>

(* removeSubscription: by endpoint, or everything the device has.          *)
RemoveSubscription(d) ==
    /\ request[d].op = "unsubscribe"
    /\ \E gone \in {{request[d].endpoint}, {e \in Endpoints : subs[e] = d}} :
          NewArray(Without(gone)) /\ removed' = removed \cup gone
    /\ request' = [request EXCEPT ![d] = NoRequest]
    /\ UNCHANGED <<valid, corrupt, posted, requests, corrupted>>

(***************************************************************************)
(* Sends, of the dispatcher or of push.test: the endpoint is taken from a  *)
(* copy of the array; a gone answer removes it, others only note health.   *)
(***************************************************************************)
Post(e) ==
    /\ subs[e] # NoDevice /\ e \notin posted
    /\ posted' = posted \cup {e}
    /\ UNCHANGED <<valid, corrupt, request, subs, prune, requests, corrupted, removed>>

Answer(e) ==
    /\ e \in posted
    /\ posted' = posted \ {e}
    /\ UNCHANGED <<valid, corrupt, request, subs, prune, requests, corrupted, removed>>

GoneAnswer(e) ==
    /\ e \in posted
    /\ posted' = posted \ {e}
    /\ NewArray(Without({e})) /\ removed' = removed \cup {e}
    /\ UNCHANGED <<valid, corrupt, request, requests, corrupted>>

-----------------------------------------------------------------------------
(***************************************************************************)
(* pruneRevoked.                                                           *)
(***************************************************************************)
PruneStart(p) ==
    /\ ~prune[p].on
    /\ prune' = [prune EXCEPT ![p] =
          [Resting EXCEPT !.on = TRUE, !.same = TRUE, !.left = Stored(subs),
                          !.before = Cardinality(Stored(subs)),
                          !.revoked = Devices \ valid]]
    /\ UNCHANGED <<valid, corrupt, request, posted, subs, requests, corrupted, removed>>

(* Mutant: the catch answers TRUE for a device that is not listed.         *)
IsDeviceValidOpen(d) == corrupt \/ d \in valid

(* host.js isDeviceValid.  A device that is not listed is not valid.  For  *)
(* one that is, the predicate calls deviceHasCapability, which host.js     *)
(* does not import: it throws, as `.some` does on the {error} of an        *)
(* unreadable store, and the catch answers FALSE.                          *)
IsDeviceValid(d) ==
    LET listed == ~corrupt /\ d \in valid
        throws == corrupt \/ listed
    IN  listed /\ ~throws

EntryOf(p, e) == IF prune[p].same THEN subs[e] ELSE prune[p].array[e]

PruneVisit(p, e) ==
    /\ prune[p].on /\ e \in prune[p].left
    /\ prune' = [prune EXCEPT
          ![p].left = @ \ {e},
          ![p].kept[e] = IF IsDeviceValid(EntryOf(p, e)) THEN EntryOf(p, e) ELSE NoDevice]
    /\ UNCHANGED <<valid, corrupt, request, posted, subs, requests, corrupted, removed>>

(* Mutant: the kept entries never become the subscriptions.                *)
PruneEndDropped(p) ==
    /\ prune[p].on /\ prune[p].left = {}
    /\ prune' = [prune EXCEPT ![p] = Resting]
    /\ UNCHANGED <<valid, corrupt, request, posted, subs, requests, corrupted, removed>>

PruneEnd(p) ==
    /\ prune[p].on /\ prune[p].left = {}
    /\ LET rest == [prune EXCEPT ![p] = Resting]
       IN  IF Cardinality(Stored(prune[p].kept)) # prune[p].before
           THEN subs' = prune[p].kept /\ prune' = PutAside(rest)
           ELSE subs' = subs /\ prune' = rest
    /\ UNCHANGED <<valid, corrupt, request, posted, requests, corrupted, removed>>

-----------------------------------------------------------------------------
(* The device is revoked, or narrowed away from `files`; ids are never     *)
(* reused.                                                                 *)
Invalidate(d) ==
    /\ d \in valid
    /\ valid' = valid \ {d}
    /\ UNCHANGED <<corrupt, request, posted, subs, prune, requests, corrupted, removed>>

(* remfs-security.json becomes unreadable, or is repaired on the PC.       *)
Corrupt ==
    /\ ~corrupt /\ corrupted < MaxCorrupt
    /\ corrupt' = TRUE /\ corrupted' = corrupted + 1
    /\ UNCHANGED <<valid, request, posted, subs, prune, requests, removed>>

Repair ==
    /\ corrupt /\ corrupt' = FALSE
    /\ UNCHANGED <<valid, request, posted, subs, prune, requests, corrupted, removed>>

Pruning(p) == PruneStart(p) \/ PruneEnd(p) \/ \E e \in Endpoints : PruneVisit(p, e)

Next ==
    \/ \E d \in Devices :
          \/ \E e \in Endpoints : Subscribe(d, e) \/ Unsubscribe(d, e)
          \/ AddSubscription(d) \/ RemoveSubscription(d) \/ Invalidate(d)
    \/ \E e \in Endpoints : Post(e) \/ Answer(e) \/ GoneAnswer(e)
    \/ \E p \in Pruners : Pruning(p)
    \/ Corrupt \/ Repair

Spec == Init /\ [][Next]_vars

(* The prune comes round every minute and its validator answers.           *)
Fairness == \A p \in Pruners : WF_vars(Pruning(p))

FairSpec == Spec /\ Fairness

-----------------------------------------------------------------------------
(* A prune nobody disturbed leaves no subscription of a device that was    *)
(* revoked or narrowed before it began (store.js 273-289; presence-push.md *)
(* 75-77 of the docs).                                                     *)
QuietPruneForgets ==
    [][\A p \in Pruners : PruneEnd(p) /\ prune[p].quiet =>
          \A e \in Endpoints :
             subs'[e] # NoDevice => subs'[e] = subs[e] /\ subs[e] \notin prune[p].revoked]_vars

(* A revoked device's subscriptions are gone for good in the end, whatever *)
(* was in flight when it was revoked (SECURITY.md 31-32).                  *)
RevokedIsForgotten ==
    \A d \in Devices :
        <>(d \notin valid) => <>[](\A e \in Endpoints : subs[e] # d)

(* What was unsubscribed or gone stays away until it is subscribed again,  *)
(* also when a prune that began before ends after it (store.js 266, 285).  *)
(* The prune keeps nothing now; a validator that answers TRUE for anybody  *)
(* lets it bring removed entries back.                                     *)
RemovedStaysRemoved == \A e \in removed : subs[e] = NoDevice

(* host.js 208-209: a device is valid for push while it is paired and      *)
(* holds `files`; a prune nobody disturbed spares it.                      *)
PruneSparesValid ==
    [][\A p \in Pruners : PruneEnd(p) /\ prune[p].quiet /\ corrupted = 0 =>
          \A e \in Endpoints : subs[e] \in valid => subs'[e] = subs[e]]_vars
=============================================================================
