------------------------------ MODULE Workbench ------------------------------
(***************************************************************************)
(* The phone's workbench: the component Workbench of lib/client.js.        *)
(*                                                                         *)
(* A handler asks the host and carries on in a callback when the answer    *)
(* comes; answers come in any order, or not at all, and a callback runs    *)
(* even when its view was closed: it then still changes the credential     *)
(* kept in localStorage, and still asks what it asks next, but sets no     *)
(* state of a view.  Meanwhile devices are revoked on the host.            *)
(*                                                                         *)
(* A directory stands for its listing, and the one file name all have.     *)
(* What is only shown (texts, toasts, tabs, sizes) is left out.            *)
(***************************************************************************)
EXTENDS Naturals, Bags

CONSTANTS
    Dirs,       \* directories
    Home,       \* the first allowed root
    MaxIssued,  \* bound: credentials the host issues
    MaxEvents,  \* bound: the user's requests and revocations per behaviour
    None

ASSUME WorkbenchAssumption ==
    /\ Home \in Dirs
    /\ MaxIssued \in Nat \ {0} /\ MaxEvents \in Nat
    /\ None \notin Dirs \cup Nat

Creds == 1..MaxIssued

VARIABLES
    store,    \* the credential in localStorage
    view,     \* the view's state
    asked,    \* requests not answered yet, a bag
    valid,    \* credentials the host accepts
    issued,   \* how many credentials the host has issued
    refused,  \* history: credentials whose refusal reached the phone
    events    \* history: requests of the user, and revocations, so far

hostVars == <<valid, issued>>
vars == <<store, view, asked, hostVars, refused, events>>

(* "lists": workspaces or devices, which only fill a list.  "write": a     *)
(* save, or an upload of a file of the phone.  "revoke": also revokeAll.   *)
Ops == {"pair", "allowed", "lists", "list", "read", "write", "ensureWorkspace", "connect",
        "setAllowed", "revoke"}

(* A request: its path, the credential it carries and whether that was in  *)
(* force; whether its view is gone; what its callback has captured: the    *)
(* directory to return to and, of a text, the file it was read from and    *)
(* whether that reading overlapped a listing.                              *)
Ask(op, at, cred, gone) ==
    [op |-> op, at |-> at, cred |-> cred, inForce |-> cred \in valid, gone |-> gone,
     back |-> None, from |-> None, raced |-> FALSE]

Requests ==
    [op : Ops, at : Dirs \cup {None}, cred : Creds \cup {None}, inForce : BOOLEAN, gone : BOOLEAN,
     back : Dirs \cup {None}, from : Dirs \cup {None}, raced : BOOLEAN]

(* A text: the directory of its file, and whether reading it overlapped a  *)
(* listing; an edit adds the directory it will be saved in.                *)
Texts == [from : Dirs, raced : BOOLEAN]
Edits == [from : Dirs, raced : BOOLEAN, at : Dirs \cup {None}]

Mounted(cred) ==
    [mounted |-> TRUE, cred |-> cred, path |-> None, loading |-> FALSE, preview |-> None,
     editing |-> None, busy |-> FALSE, pairing |-> FALSE]

Closed == [Mounted(None) EXCEPT !.mounted = FALSE]

Views ==
    [mounted : BOOLEAN, cred : Creds \cup {None}, path : Dirs \cup {None}, loading : BOOLEAN,
     preview : Texts \cup {None}, editing : Edits \cup {None}, busy : BOOLEAN, pairing : BOOLEAN]

TypeOK ==
    /\ store \in Creds \cup {None}
    /\ view \in Views
    /\ IsABag(asked) /\ BagToSet(asked) \subseteq Requests
    /\ issued \in 0..MaxIssued /\ valid \subseteq 1..issued
    /\ refused \subseteq Creds
    /\ events \in 0..MaxEvents

One(m) == SetToBag({m})

Copies(m, bag) == IF m \in BagToSet(bag) THEN bag[m] ELSE 0

(* refresh asks for the roots and for the workspaces.                      *)
RefreshAsks(cred, gone) ==
    One(Ask("allowed", None, cred, gone)) (+) One(Ask("lists", None, cred, gone))

(* A view was just opened.                                                 *)
Init ==
    /\ issued \in {0, 1}
    /\ valid = 1..issued
    /\ store \in 1..issued \cup {None}
    /\ view = Mounted(store)
    /\ asked = RefreshAsks(store, FALSE)
    /\ refused = {}
    /\ events = 0

Event == events < MaxEvents /\ events' = events + 1

-----------------------------------------------------------------------------
(***************************************************************************)
(* What several handlers do.                                               *)
(***************************************************************************)
(* Mutant: the text shown stays when another directory is asked for.       *)
LoadKeepsText(v) == [v EXCEPT !.loading = TRUE]

(* load drops the text shown and the edit and asks for a listing.          *)
Load(v) == [v EXCEPT !.loading = TRUE, !.preview = None, !.editing = None]

Overlap(m) == IF m.op = "read" /\ ~m.gone THEN [m EXCEPT !.raced = TRUE] ELSE m

OverlapAll(bag) ==
    [n \in {Overlap(m) : m \in BagToSet(bag)} |->
        Copies(n, bag)
        + (IF n.op = "read" /\ ~n.gone THEN Copies([n EXCEPT !.raced = FALSE], bag) ELSE 0)]

LoadAsks(bag, at, cred, gone) ==
    IF gone
    THEN bag (+) One(Ask("list", at, cred, TRUE))
    ELSE OverlapAll(bag) (+) One(Ask("list", at, cred, FALSE))

(* Once a view is gone, the requests it has asked belong to no view.       *)
Leave(m) == [m EXCEPT !.gone = TRUE]

LeaveAll(bag) ==
    [n \in {Leave(m) : m \in BagToSet(bag)} |->
        Copies(n, bag) + Copies([n EXCEPT !.gone = FALSE], bag)]

(* Mutant: a lack of capability counts as a lack of authentication.        *)
AuthProblemAny(answer) == answer \in {"refused", "denied"}

(* noteAuth: is the answer auth-required or auth-invalid?                  *)
AuthProblem(answer) == answer = "refused"

-----------------------------------------------------------------------------
(***************************************************************************)
(* The user.                                                               *)
(***************************************************************************)
Open ==
    /\ ~view.mounted
    /\ Event
    /\ view' = Mounted(store)
    /\ asked' = asked (+) RefreshAsks(store, FALSE)
    /\ UNCHANGED <<store, hostVars, refused>>

Close ==
    /\ view.mounted
    /\ view' = Closed
    /\ asked' = LeaveAll(asked)
    /\ UNCHANGED <<store, hostVars, refused, events>>

(* A click that asks for one thing and changes the view as v says.         *)
Click(m, v) ==
    /\ view.mounted
    /\ Event
    /\ asked' = asked (+) One(m)
    /\ view' = v
    /\ UNCHANGED <<store, hostVars, refused>>

doPair ==
    /\ view.cred = None /\ ~view.pairing
    /\ Click(Ask("pair", None, store, FALSE), [view EXCEPT !.pairing = TRUE])

Paired == view.cred # None

(* A crumb, the parent, a root, a directory's row or a typed path.         *)
Go(d) ==
    /\ view.mounted /\ Paired
    /\ Event
    /\ view' = Load(view)
    /\ asked' = LoadAsks(asked, d, store, FALSE)
    /\ UNCHANGED <<store, hostVars, refused>>

Listing == \E m \in BagToSet(asked) : m.op = "list" /\ ~m.gone

(* A file's row; rows are hidden while loading.                            *)
openFile ==
    /\ Paired /\ view.path # None /\ ~view.loading
    /\ Click([Ask("read", view.path, store, FALSE) EXCEPT !.raced = Listing],
             [view EXCEPT !.preview = None])

Edit ==
    /\ view.mounted /\ Paired
    /\ view.preview # None /\ view.editing = None
    /\ view' = [view EXCEPT !.editing = [from |-> view.preview.from, raced |-> view.preview.raced,
                                         at |-> view.path]]
    /\ UNCHANGED <<store, asked, hostVars, refused, events>>

Cancel ==
    /\ view.mounted /\ Paired
    /\ view.editing # None
    /\ view' = [view EXCEPT !.editing = None, !.preview = None]
    /\ UNCHANGED <<store, asked, hostVars, refused, events>>

saveEdit ==
    /\ Paired /\ view.editing # None
    /\ Click([Ask("write", view.editing.at, store, FALSE) EXCEPT
                 !.back = view.path, !.from = view.editing.from, !.raced = view.editing.raced], view)

upload ==
    /\ Paired /\ view.path # None
    /\ Click([Ask("write", view.path, store, FALSE) EXCEPT
                 !.back = view.path, !.from = view.path], view)

(* Mutant: a second click is not held back.                                *)
startSessionHereTwice ==
    /\ Paired /\ view.path # None /\ ~view.loading
    /\ Click(Ask("ensureWorkspace", view.path, store, FALSE), [view EXCEPT !.busy = TRUE])

startSessionHere ==
    /\ Paired /\ view.path # None /\ ~view.loading /\ ~view.busy
    /\ Click(Ask("ensureWorkspace", view.path, store, FALSE), [view EXCEPT !.busy = TRUE])

openWorkspace ==
    /\ Paired /\ ~view.busy
    /\ Click(Ask("connect", None, store, FALSE), [view EXCEPT !.busy = TRUE])

(* saveAllowed, loadDevices, doRevoke and doRevokeAll.                     *)
Manage ==
    /\ Paired
    /\ \E op \in {"setAllowed", "lists", "revoke"} : Click(Ask(op, None, store, FALSE), view)

User ==
    \/ Open \/ Close \/ doPair
    \/ \E d \in Dirs : Go(d)
    \/ openFile \/ Edit \/ Cancel \/ saveEdit \/ upload
    \/ startSessionHere \/ openWorkspace \/ Manage

-----------------------------------------------------------------------------
(***************************************************************************)
(* The host and the network.                                               *)
(***************************************************************************)
Revoke(k) ==
    /\ Event
    /\ k \in valid
    /\ valid' = valid \ {k}
    /\ UNCHANGED <<store, view, asked, issued, refused>>

(* The host decides when it serves the call, between request and answer;   *)
(* pair and connect need no credential.                                    *)
Outcomes(m) ==
    {"lost"}
    \cup (IF m.inForce \/ m.op \in {"pair", "connect"} THEN {"ok", "denied"} ELSE {})
    \cup (IF m.cred \notin valid /\ m.op \notin {"pair", "connect"} THEN {"refused"} ELSE {})

-----------------------------------------------------------------------------
(***************************************************************************)
(* The callbacks.  Shown(m, v): the view after a callback sets v, which    *)
(* does nothing once its view is gone.                                     *)
(***************************************************************************)
Shown(m, v) == IF m.gone THEN view ELSE v

Rest(m) == asked (-) One(m)

Settled(m, v, bag) == view' = Shown(m, v) /\ asked' = bag

Keep == UNCHANGED <<store, hostVars, refused, events>>

(* noteAuth: the credential is dropped, and the view asks for a pairing.   *)
Locked(m, v) ==
    /\ store' = None
    /\ refused' = refused \cup ({m.cred} \ {None})
    /\ Settled(m, [v EXCEPT !.cred = None], Rest(m))
    /\ UNCHANGED <<hostVars, events>>

(* An answer with nothing to do but its own part v.                        *)
Done(m, v) == Settled(m, v, Rest(m)) /\ Keep

(* A callback that goes on with load.                                      *)
Reload(m, at) == Settled(m, Load(view), LoadAsks(Rest(m), at, store, m.gone)) /\ Keep

(* Mutant: only a good listing ends the loading.                           *)
LoadedIfOk(answer) == IF answer = "ok" THEN FALSE ELSE view.loading

(* Any answer to list ends the loading.                                    *)
Loaded(answer) == FALSE

ListAnswered(m, answer) ==
    LET v == [view EXCEPT !.loading = Loaded(answer)] IN
    IF AuthProblem(answer) THEN Locked(m, v)
    ELSE Done(m, IF answer = "ok" THEN [v EXCEPT !.path = m.at] ELSE v)

(* Mutant: what is shown is taken from the answer, which may be an error.  *)
TextOfAnswer(m) == [from |-> m.back, raced |-> m.raced]

TextOf(m) == [from |-> m.at, raced |-> m.raced]

ReadAnswered(m, answer) ==
    IF AuthProblem(answer) THEN Locked(m, view)
    ELSE Done(m, IF answer = "ok" THEN [view EXCEPT !.preview = TextOf(m)] ELSE view)

(* After a save or an upload the directory of the click is listed again.   *)
WriteAnswered(m, answer) ==
    IF AuthProblem(answer) THEN Locked(m, view)
    ELSE IF answer = "ok" THEN Reload(m, m.back)
    ELSE Done(m, view)

AllowedAnswered(m, answer) ==
    IF AuthProblem(answer) THEN Locked(m, view)
    ELSE IF answer = "ok" THEN Reload(m, Home)
    ELSE Done(m, view)

(* Mutant: the answer is not looked at.                                    *)
ListsAnsweredBlindly(m, answer) ==
    /\ Settled(m, view, Rest(m))
    /\ refused' = IF answer = "refused" THEN refused \cup ({m.cred} \ {None}) ELSE refused
    /\ UNCHANGED <<store, hostVars, events>>

(* workspaces and devices.                                                 *)
ListsAnswered(m, answer) == IF AuthProblem(answer) THEN Locked(m, view) ELSE Done(m, view)

(* The workspace is connected to; busy ends only after that.               *)
EnsureAnswered(m, answer) ==
    LET v == [view EXCEPT !.busy = FALSE] IN
    IF AuthProblem(answer) THEN Locked(m, v)
    ELSE IF answer = "ok"
         THEN Settled(m, view, Rest(m) (+) One(Ask("connect", None, store, m.gone))) /\ Keep
         ELSE Done(m, v)

(* onClose, where the view has one.                                        *)
ConnectAnswered(m, answer) ==
    \/ Done(m, [view EXCEPT !.busy = FALSE])
    \/ answer = "ok" /\ ~m.gone /\ view' = Closed /\ asked' = LeaveAll(Rest(m)) /\ Keep

PairAnswered(m, answer) ==
    LET v == [view EXCEPT !.pairing = FALSE] IN
    IF answer = "ok"
    THEN /\ issued < MaxIssued
         /\ store' = issued + 1
         /\ issued' = issued + 1
         /\ valid' \in {valid, valid \cup {issued + 1}}
         /\ Settled(m, [v EXCEPT !.cred = issued + 1], Rest(m) (+) RefreshAsks(store, m.gone)')
         /\ UNCHANGED <<refused, events>>
    ELSE Done(m, v)

SetAllowedAnswered(m, answer) ==
    IF AuthProblem(answer) THEN Locked(m, view)
    ELSE IF answer = "ok" THEN Settled(m, view, Rest(m) (+) RefreshAsks(store, m.gone)) /\ Keep
    ELSE Done(m, view)

(* The host has revoked one device, or all; the devices are listed again.  *)
RevokeAnswered(m, answer) ==
    IF AuthProblem(answer) THEN Locked(m, view)
    ELSE IF answer = "ok"
         THEN /\ valid' \in {{}} \cup {valid \ {k} : k \in valid}
              /\ UNCHANGED <<store, issued, refused, events>>
              /\ Settled(m, view, Rest(m) (+) One(Ask("lists", None, store, m.gone)'))
         ELSE Done(m, view)

Callback(m, answer) ==
    CASE m.op = "list" -> ListAnswered(m, answer)
      [] m.op = "read" -> ReadAnswered(m, answer)
      [] m.op = "write" -> WriteAnswered(m, answer)
      [] m.op = "allowed" -> AllowedAnswered(m, answer)
      [] m.op = "lists" -> ListsAnswered(m, answer)
      [] m.op = "ensureWorkspace" -> EnsureAnswered(m, answer)
      [] m.op = "connect" -> ConnectAnswered(m, answer)
      [] m.op = "pair" -> PairAnswered(m, answer)
      [] m.op = "setAllowed" -> SetAllowedAnswered(m, answer)
      [] m.op = "revoke" -> RevokeAnswered(m, answer)

Answered == \E m \in BagToSet(asked) : \E answer \in Outcomes(m) : Callback(m, answer)

Next == User \/ (\E k \in Creds : Revoke(k)) \/ Answered

Spec == Init /\ [][Next]_vars

(* Every request is answered or fails in the end, and its callback runs.   *)
FairSpec == Spec /\ WF_vars(Answered)

-----------------------------------------------------------------------------
(* A file is saved under the name it was read from, unless its reading     *)
(* overlapped a listing: a listing that is asked for drops the text shown  *)
(* and the edit (client.js 886-903, 938-960, and the edit button).         *)
SavesWhatWasRead ==
    \A m \in BagToSet(asked) : m.op = "write" => m.raced \/ m.at = m.from

(* A phone loses a credential that is in force only to the late answer to  *)
(* a request made with another one, or none (client.js 792-800).           *)
ValidCredentialKept ==
    [][store # None /\ store' = None =>
          \/ store \notin valid
          \/ \E m \in BagToSet(asked) : m.cred # store /\ Copies(m, asked') < Copies(m, asked)]_vars

(* Whatever the callback that hears of it, a credential the host refused   *)
(* is kept no longer (client.js 792-800 and its callers).                  *)
RefusedIsDropped == store \notin refused

(* A view is busy, or pairing, exactly while one such request of its own   *)
(* is open, and shows "loading" only while a listing is (client.js         *)
(* 802-827, 886-903, 1001-1035).                                           *)
Own(ops) == {m \in BagToSet(asked) : m.op \in ops /\ ~m.gone}

OneOpen(flag, ops) ==
    /\ flag <=> Own(ops) # {}
    /\ \A m, n \in Own(ops) : m = n /\ Copies(m, asked) = 1

FlagsHonest ==
    /\ OneOpen(view.busy, {"ensureWorkspace", "connect"})
    /\ OneOpen(view.pairing, {"pair"})
    /\ view.loading => Own({"list"}) # {}

(* However requests fail, a view does not stay loading, busy or pairing    *)
(* (client.js 826, 901, 1012, 1023, 1034).                                 *)
Settles ==
    /\ view.loading ~> ~view.loading
    /\ view.busy ~> ~view.busy
    /\ view.pairing ~> ~view.pairing
=============================================================================
