----------------------------- MODULE PushChannel -----------------------------
(***************************************************************************)
(* The push channel of a phone from the toggle to the host's store: the    *)
(* flows of lib/client.js that switch it on, off and on again at a page    *)
(* load, over the browser's own subscription and PushStore.                *)
(*                                                                         *)
(* Every await of a flow is a step; flows of one page overlap.  A request  *)
(* may fail, or its answer be lost while the host still serves it.         *)
(***************************************************************************)
EXTENDS PushStore

CONSTANT MaxEvents   \* bound: flows, reloads and other calls of the host

ASSUME PushChannelAssumption == MaxEvents \in Nat /\ None \notin Endpoints

VARIABLES
    flag,      \* localStorage: remfs-push-enabled
    sub,       \* the endpoint the browser is subscribed with
    made,      \* the VAPID key each endpoint was made with
    flow,      \* the flows of the page; each has a call of the store
    accepted,  \* history: endpoints the host has accepted
    crossed,   \* history: did flows overlap, a page go, or the browser unsubscribe?
    unheard,   \* history: did a report to the host fail, or its answer?
    events     \* history: flows, reloads and other calls so far

phoneVars == <<flag, sub, made, flow, accepted, crossed, unheard>>
vars == <<storeVars, phoneVars, events>>

(* "on", "off": the toggle; "auto": the subscription is renewed.           *)
NoFlow == [kind |-> "auto", pc |-> "idle", key |-> NoKey, end |-> None]

Flows == [kind : {"on", "off", "auto"},
          pc : {"idle", "find", "ask", "key", "browser", "report", "reported", "forget", "forgot", "drop"},
          key : Keys, end : Endpoints \cup {None}]

(* A subscription was made with a key.                                     *)
TypeOK ==
    /\ StoreTypeOK
    /\ flag \in BOOLEAN
    /\ sub \in Endpoints \cup {None}
    /\ made \in [Endpoints -> Keys]
    /\ sub # None => made[sub] # NoKey
    /\ flow \in [Callers -> Flows]
    /\ accepted \subseteq Endpoints
    /\ crossed \in BOOLEAN /\ unheard \in BOOLEAN
    /\ events \in 0..MaxEvents

Init ==
    /\ StoreInit
    /\ flag = FALSE /\ sub = None
    /\ made = [e \in Endpoints |-> NoKey]
    /\ flow = [c \in Callers |-> NoFlow]
    /\ accepted = {}
    /\ crossed = FALSE /\ unheard = FALSE
    /\ events = 0

Event == events < MaxEvents /\ events' = events + 1

Quiet == \A c \in Callers : flow[c].pc = "idle"

-----------------------------------------------------------------------------
(***************************************************************************)
(* Flows begin, and end.                                                   *)
(***************************************************************************)
Start(c, kind) ==
    /\ flow[c].pc = "idle" /\ call[c].pc = "idle"
    /\ Event
    /\ flow' = [flow EXCEPT ![c] = [NoFlow EXCEPT !.kind = kind, !.pc = "find"]]
    /\ crossed' = (crossed \/ ~Quiet)
    /\ UNCHANGED <<storeVars, sub, made, accepted, unheard>>

(* The flag is set before anything is asked, the permission included.      *)
ToggleOn(c)  == ~flag /\ flag' = TRUE /\ Start(c, "on")

(* disablePush.                                                            *)
ToggleOff(c) == flag /\ flag' = FALSE /\ Start(c, "off")

(* A page load, a pairing or the browser's event renews a subscription.    *)
Renew(c) == flag /\ flag' = flag /\ Start(c, "auto")

Await(c, pc) == flow' = [flow EXCEPT ![c].pc = pc]

Over(c) == flow' = [flow EXCEPT ![c] = NoFlow]

(* Mutant: a failure leaves the toggle as it is.                           *)
FlagAfterFailureOn(c) == flag

(* Only the toggle's own flow looks at what became of it.                  *)
FlagAfterFailure(c) == IF flow[c].kind = "on" THEN FALSE ELSE flag

(* An await fails: no permission, no browser, no host.                     *)
Fail(c) ==
    /\ flow[c].pc \in {"find", "ask", "browser", "report"}
    /\ Over(c)
    /\ flag' = FlagAfterFailure(c)
    /\ unheard' = (unheard \/ flow[c].kind = "off")
    /\ UNCHANGED <<storeVars, sub, made, accepted, crossed, events>>

-----------------------------------------------------------------------------
(***************************************************************************)
(* ensurePushSubscription.                                                 *)
(***************************************************************************)
(* The browser's subscription is taken as it is; else a key is asked for.  *)
Find(c) ==
    /\ flow[c].pc = "find"
    /\ IF flow[c].kind = "off"
       THEN IF sub = None THEN Over(c) ELSE flow' = [flow EXCEPT ![c].pc = "forget", ![c].end = sub]
       ELSE IF sub # None THEN flow' = [flow EXCEPT ![c].pc = "report", ![c].end = sub]
                          ELSE Await(c, "ask")
    /\ UNCHANGED <<storeVars, flag, sub, made, accepted, crossed, unheard, events>>

AskKey(c) ==
    /\ flow[c].pc = "ask"
    /\ StartCall(c, "vapid", {})
    /\ Await(c, "key")
    /\ UNCHANGED <<flag, sub, made, accepted, crossed, unheard, events>>

(* Mutant: an answer without a key is used.                                *)
KeyComesUnchecked(c) ==
    /\ flow[c].pc = "key"
    /\ call[c].pc \in {"ok", "failed"} /\ EndCall(c)
    /\ flow' = [flow EXCEPT ![c].pc = "browser",
                            ![c].key = IF call[c].pc = "ok" THEN call[c].key ELSE NoKey]
    /\ UNCHANGED <<flag, sub, made, accepted, crossed, unheard, events>>

KeyComes(c) ==
    /\ flow[c].pc = "key"
    /\ EndCall(c)
    /\ IF call[c].pc = "ok"
       THEN flow' = [flow EXCEPT ![c].pc = "browser", ![c].key = call[c].key] /\ UNCHANGED flag
       ELSE Over(c) /\ flag' = FlagAfterFailure(c)
    /\ UNCHANGED <<sub, made, accepted, crossed, unheard, events>>

(* pushManager.subscribe, which gives back a subscription of that key and  *)
(* refuses where there is one of another.                                  *)
Subscribe(c) ==
    /\ flow[c].pc = "browser"
    /\ \E e \in Endpoints :
          /\ IF sub = None
             THEN made[e] = NoKey /\ made' = [made EXCEPT ![e] = flow[c].key]
             ELSE e = sub /\ made[e] = flow[c].key /\ made' = made
          /\ sub' = e
          /\ flow' = [flow EXCEPT ![c].pc = "report", ![c].end = e]
    /\ UNCHANGED <<storeVars, flag, accepted, crossed, unheard, events>>

(* push.subscribe.                                                         *)
Report(c) ==
    /\ flow[c].pc = "report"
    /\ StartCall(c, "add", {flow[c].end})
    /\ Await(c, "reported")
    /\ UNCHANGED <<flag, sub, made, accepted, crossed, unheard, events>>

Reported(c) ==
    /\ flow[c].pc = "reported"
    /\ EndCall(c)
    /\ Over(c)
    /\ IF call[c].pc = "ok"
       THEN accepted' = accepted \cup {flow[c].end} /\ UNCHANGED <<flag, unheard>>
       ELSE flag' = FlagAfterFailure(c) /\ unheard' = TRUE /\ UNCHANGED accepted
    /\ UNCHANGED <<sub, made, crossed, events>>

-----------------------------------------------------------------------------
(***************************************************************************)
(* disablePush: the host is told, then the browser, whatever fails.        *)
(***************************************************************************)
Forget(c) ==
    /\ flow[c].pc = "forget"
    /\ StartCall(c, "remove", {flow[c].end})
    /\ Await(c, "forgot")
    /\ UNCHANGED <<flag, sub, made, accepted, crossed, unheard, events>>

Forgot(c) ==
    /\ flow[c].pc = "forgot"
    /\ EndCall(c)
    /\ Await(c, "drop")
    /\ unheard' = (unheard \/ call[c].pc = "failed")
    /\ UNCHANGED <<flag, sub, made, accepted, crossed, events>>

NotForgot(c) ==
    /\ flow[c].pc = "forget"
    /\ Await(c, "drop")
    /\ unheard' = TRUE
    /\ UNCHANGED <<storeVars, flag, sub, made, accepted, crossed, events>>

Drop(c) ==
    /\ flow[c].pc = "drop"
    /\ Over(c)
    /\ sub' \in {sub, IF sub = flow[c].end THEN None ELSE sub}
    /\ UNCHANGED <<storeVars, flag, made, accepted, crossed, unheard, events>>

-----------------------------------------------------------------------------
(* The answer of a call is lost, and the host still serves it.             *)
LoseAnswer(c) ==
    /\ flow[c].pc \in {"key", "reported", "forgot"} /\ call[c].pc # "idle"
    /\ IF flow[c].pc = "forgot"
       THEN Await(c, "drop") /\ UNCHANGED flag
       ELSE Over(c) /\ flag' = FlagAfterFailure(c)
    /\ unheard' = TRUE
    /\ UNCHANGED <<storeVars, sub, made, accepted, crossed, events>>

(* A crash of the host is a lost answer to all that wait.                  *)
HostCrash ==
    /\ Crash
    /\ flow' = [c \in Callers |->
          IF flow[c].pc \in {"key", "reported"} THEN NoFlow
          ELSE IF flow[c].pc = "forgot" THEN [flow[c] EXCEPT !.pc = "drop"] ELSE flow[c]]
    /\ flag' = (flag /\ \A c \in Callers : flow[c].pc \in {"key", "reported"} => FlagAfterFailure(c))
    /\ unheard' = (unheard \/ \E c \in Callers : flow[c].pc \in {"reported", "forgot"})
    /\ UNCHANGED <<sub, made, accepted, crossed, events>>

(* The page is loaded again: its flows are gone, their calls are not.      *)
Reload ==
    /\ ~Quiet
    /\ flow' = [c \in Callers |-> NoFlow]
    /\ crossed' = TRUE
    /\ UNCHANGED <<storeVars, flag, sub, made, accepted, unheard, events>>

(* The browser, or the push service, ends the subscription.                *)
Expire ==
    /\ sub # None /\ sub' = None
    /\ Event
    /\ crossed' = TRUE
    /\ UNCHANGED <<storeVars, flag, made, flow, accepted, unheard>>

(* The host on its own: the store's steps, calls nobody waits for, the     *)
(* dispatcher's need of the key and its prune (see PushSubscriptions).     *)
Host(c) ==
    \/ StoreStep(c) /\ UNCHANGED <<phoneVars, events>>
    \/ flow[c].pc \notin {"key", "reported", "forgot"} /\ EndCall(c) /\ UNCHANGED <<phoneVars, events>>
    \/ /\ flow[c].pc = "idle"
       /\ Event
       /\ \E op \in {"vapid", "prune"}, ends \in SUBSET Endpoints :
             /\ (op = "vapid" => ends = {}) /\ StartCall(c, op, ends)
       /\ UNCHANGED phoneVars

Phone(c) ==
    \/ ToggleOn(c) \/ ToggleOff(c) \/ Renew(c)
    \/ Find(c) \/ AskKey(c) \/ KeyComes(c) \/ Subscribe(c) \/ Report(c) \/ Reported(c)
    \/ Forget(c) \/ Forgot(c) \/ NotForgot(c) \/ Drop(c)
    \/ Fail(c) \/ LoseAnswer(c)

Next == HostCrash \/ Reload \/ Expire \/ \E c \in Callers : Phone(c) \/ Host(c)

Spec == Init /\ [][Next]_vars

-----------------------------------------------------------------------------
(* A toggle that is on had its subscription accepted by the host, whichever *)
(* await failed on the way, while the page was not reloaded in between,    *)
(* flows did not overlap and the browser did not unsubscribe (client.js    *)
(* 385-396, 856-872).                                                      *)
ToggleBacked ==
    Quiet /\ flag /\ ~crossed => sub # None /\ sub \in accepted

(* A toggle that is off leaves the host no subscription the browser still  *)
(* has, also when the browser cannot unsubscribe, while the host has heard *)
(* and kept what it was told (client.js 440-458, store.js 262-270).        *)
OffIsSilent ==
    Quiet /\ ~flag /\ ~crossed /\ ~unheard /\ ~tainted => sub \notin Current.subs
=============================================================================
