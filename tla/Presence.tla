------------------------------ MODULE Presence ------------------------------
(***************************************************************************)
(* The presence engine (lib/presence/service.js, heartbeat.js, state.js):  *)
(* it turns session logs into one state per session.  tasks() awaits the   *)
(* session list and then, session by session, its log; the dispatcher, the *)
(* phones and the desktop companion call it whenever they like, so calls   *)
(* overlap and share what the engine remembers between them.               *)
(*                                                                         *)
(* A log is a sequence of timed events.  Of a tool's results only the      *)
(* fingerprint matters (one tool, ok or fail); one approval is asked at a  *)
(* time.  Titles, summaries, sizes and user messages are left out.         *)
(***************************************************************************)
EXTENDS Integers, Sequences, FiniteSets

CONSTANTS
    Sessions, Callers,
    Ttl,         \* DEFAULT_SYSTEM_TTL_MS
    StaleAfter,  \* normalizeStaleMs()
    Logged,      \* bound: the types of events that happen
    MaxClock,    \* bound: the last instant
    MaxLog,      \* bound: events per session
    MaxFaults    \* bound: failed reads and crashes

ASSUME BoundsAssumption ==
    {Ttl, StaleAfter, MaxClock, MaxLog, MaxFaults} \subseteq Nat /\ MaxClock > 0

States == {"IDLE", "RUNNING", "STALE", "NEEDS_USER", "FAILED", "DONE", "DISCONNECTED"}

Results  == {"ok", "fail"}                   \* tool/result, one fingerprint each
Advances == {"step", "decided", "completed"} \* always meaningful progress
Ends     == {"completed", "error", "aborted"}
Types    == Results \cup Advances \cup Ends \cup {"start", "asked"}

ASSUME LoggedAssumption == Logged \subseteq Types

VARIABLES
    clock,
    log,         \* each session's events
    live,        \* sessions the harness holds open
    seen,        \* seenBySession: fingerprints of tool results
    aliveAt,     \* lastSystemAliveAt; 0: never
    lastStates,  \* _lastStates, of which only DONE and FAILED are looked at
    call,        \* the calls of tasks()
    faults       \* history

engineVars == <<seen, aliveAt, lastStates, call>>
vars == <<clock, log, live, engineVars, faults>>

Idle == [pc |-> "idle", now |-> 0, live |-> {}, prev |-> [s \in Sessions |-> "none"],
         todo |-> {}, at |-> {}, read |-> <<>>,
         got |-> [s \in Sessions |-> "none"]]

PCs == {"idle", "read", "fold"}

Recorded == [Sessions -> {"DONE", "FAILED", "none"}]

Logs == Seq([type : Types, at : 1..MaxClock])

CallRecords ==
    [pc : PCs, now : 0..MaxClock, live : SUBSET Sessions, prev : Recorded, todo : SUBSET Sessions,
     at : SUBSET Sessions, read : Logs, got : [Sessions -> States \cup {"none"}]]

TypeOK ==
    /\ clock \in 1..MaxClock
    /\ log \in [Sessions -> Logs]
    /\ \A s \in Sessions : /\ Len(log[s]) <= MaxLog
                           /\ \A i \in DOMAIN log[s] : log[s][i].at <= clock
    /\ live \subseteq Sessions
    /\ seen \in [Sessions -> SUBSET Results]
    /\ aliveAt \in 0..clock
    /\ lastStates \in Recorded
    /\ call \in [Callers -> CallRecords]
    /\ \A c \in Callers :
          /\ call[c].now <= clock
          /\ \A s \in Sessions : call[c].pc \in {"read", "fold"} =>
                call[c].got[s] \in (IF s \in call[c].todo THEN {"none"} ELSE States)
    /\ faults \in 0..MaxFaults

Init ==
    /\ clock = 1
    /\ log = [s \in Sessions |-> <<>>]
    /\ live = {}
    /\ seen = [s \in Sessions |-> {}] /\ aliveAt = 0
    /\ lastStates = [s \in Sessions |-> "none"]
    /\ call = [c \in Callers |-> Idle]
    /\ faults = 0

Fault == faults < MaxFaults /\ faults' = faults + 1

-----------------------------------------------------------------------------
(***************************************************************************)
(* What the log says.                                                      *)
(***************************************************************************)
LastTime(events) == IF events = <<>> THEN 0 ELSE events[Len(events)].at

HasOpenTurn(events) ==
    \E i \in DOMAIN events :
       /\ events[i].type = "start"
       /\ \A j \in DOMAIN events : j > i => events[j].type \notin Ends

(* An approval that its turn did not live to see decided stays asked.      *)
HasPendingApproval(events) ==
    \E i \in DOMAIN events :
       /\ events[i].type = "asked"
       /\ \A j \in (i + 1)..Len(events) : events[j].type = "decided" =>
             \E k \in i..j : events[k].type \in Ends \cup {"start"}

(* e is the last end of a turn.                                            *)
IsLastEnd(events, e) ==
    /\ events[e].type \in Ends
    /\ \A j \in DOMAIN events : j > e => events[j].type \notin Ends

LastTurnEndKind(events, kind) ==
    \E e \in DOMAIN events : IsLastEnd(events, e) /\ events[e].type = kind

HasToolErrorInLastTurn(events) ==
    \E e \in DOMAIN events : IsLastEnd(events, e) /\
       \E i \in 1..(e - 1) :
          events[i].type = "fail" /\ \A j \in i..(e - 1) : events[j].type # "start"

(* Mutant: an end in error is no failure.                                  *)
TerminalFailureByTool(events) ==
    ~HasOpenTurn(events) /\ LastTurnEndKind(events, "completed") /\ HasToolErrorInLastTurn(events)

TerminalFailure(events) ==
    /\ ~HasOpenTurn(events)
    /\ \/ LastTurnEndKind(events, "error")
       \/ LastTurnEndKind(events, "completed") /\ HasToolErrorInLastTurn(events)

Completed(events) == LastTurnEndKind(events, "completed") /\ ~HasOpenTurn(events)

(* Mutant: a repeated result counts again.                                 *)
ProgressRepeated(events, known) ==
    {i \in DOMAIN events : events[i].type \in Advances \cup Results}

(* classifyProgress, over the log and the fingerprints already known.      *)
Progress(events, known) ==
    {i \in DOMAIN events :
       \/ events[i].type \in Advances
       \/ /\ events[i].type \in Results \ known
          /\ \A j \in 1..(i - 1) : events[j].type # events[i].type}

ProgressAt(events, known) ==
    LET p == Progress(events, known)
    IN  IF p = {} THEN 0 ELSE events[CHOOSE i \in p : \A j \in p : j <= i].at

Fingerprints(events) == {events[i].type : i \in DOMAIN events} \cap Results

-----------------------------------------------------------------------------
(***************************************************************************)
(* What a call makes of it.                                                *)
(***************************************************************************)
(* Mutant: liveness is the age of the log (the bug heartbeat.js tells of). *)
SystemAliveAtByLog(c, s) == LastTime(call[c].read)

(* effectiveSystemAliveAt: the engine's own liveness, but for a turn left  *)
(* open by a loop that is gone.                                            *)
SystemAliveAt(c, s) ==
    IF /\ call[c].now - aliveAt <= Ttl
       /\ HasOpenTurn(call[c].read) /\ s \notin call[c].live
       /\ call[c].now - LastTime(call[c].read) > Ttl
    THEN LastTime(call[c].read)
    ELSE aliveAt

Resolve(c, s) ==
    LET events == call[c].read
        hb     == SystemAliveAt(c, s)
        last   == ProgressAt(events, seen[s])
    IN  IF hb = 0 \/ call[c].now - hb > Ttl                     THEN "DISCONNECTED"
        ELSE IF HasPendingApproval(events)                      THEN "NEEDS_USER"
        ELSE IF TerminalFailure(events)                         THEN "FAILED"
        ELSE IF Completed(events)                               THEN "DONE"
        ELSE IF s \notin call[c].live /\ ~HasOpenTurn(events)   THEN "IDLE"
        ELSE IF last = 0 \/ call[c].now - last > StaleAfter     THEN "STALE"
        ELSE "RUNNING"

(* Mutant: the first observation is not taken.                             *)
TransitionFirst(prev, next) == prev

(* The lifecycle guard: a settled session does not report RUNNING.         *)
Transition(prev, next) ==
    IF prev # "none" /\ next = "RUNNING" THEN prev ELSE next

(* A turn that was opened anew frees the state.                            *)
Report(c, s) ==
    IF call[c].prev[s] # "none" /\ HasOpenTurn(call[c].read)
    THEN Resolve(c, s)
    ELSE Transition(call[c].prev[s], Resolve(c, s))

-----------------------------------------------------------------------------
(***************************************************************************)
(* tasks() and status().                                                   *)
(***************************************************************************)
(* The list is answered: time, open sessions and recorded states are       *)
(* taken now, for the whole call.  (If it is not, nothing changes.)        *)
List(c) ==
    /\ call[c].pc = "idle"
    /\ aliveAt' = clock
    /\ call' = [call EXCEPT ![c] = [Idle EXCEPT !.pc = "read", !.now = clock, !.live = live,
                                                !.prev = lastStates, !.todo = Sessions]]
    /\ UNCHANGED <<clock, log, live, seen, lastStates, faults>>

(* A log that cannot be read is an empty one.                              *)
Read(c) ==
    /\ call[c].pc = "read"
    /\ \E s \in call[c].todo :
          \/ /\ call' = [call EXCEPT ![c].pc = "fold", ![c].at = {s}, ![c].read = log[s]]
             /\ UNCHANGED faults
          \/ /\ call' = [call EXCEPT ![c].pc = "fold", ![c].at = {s}]
             /\ Fault
    /\ UNCHANGED <<clock, log, live, seen, aliveAt, lastStates>>

Fold(c, s) ==
    /\ call[c].pc = "fold" /\ call[c].at = {s}
    /\ call' = [call EXCEPT ![c] =
                   [call[c] EXCEPT !.pc = "read", !.at = {}, !.read = <<>>,
                                   !.todo = call[c].todo \ {s}, !.got[s] = Report(c, s)]]
    /\ seen' = [seen EXCEPT ![s] = @ \cup Fingerprints(call[c].read)]
    /\ UNCHANGED <<clock, log, live, aliveAt, lastStates, faults>>

Answer(c) ==
    /\ call[c].pc = "read" /\ call[c].todo = {}
    /\ lastStates' = [s \in Sessions |->
          IF call[c].got[s] \in {"DONE", "FAILED"} THEN call[c].got[s] ELSE "none"]
    /\ call' = [call EXCEPT ![c] = Idle]
    /\ UNCHANGED <<clock, log, live, seen, aliveAt, faults>>

Status ==
    /\ aliveAt' = clock
    /\ UNCHANGED <<clock, log, live, seen, lastStates, call, faults>>

-----------------------------------------------------------------------------
(***************************************************************************)
(* The agents, the clock, the process.                                     *)
(***************************************************************************)
(* What an agent may log next: a turn starts, works, asks and ends; it can *)
(* be aborted while it asks; a turn may start over one a restart cut off.  *)
May(s, type) ==
    LET open == HasOpenTurn(log[s])
        asks == log[s] # <<>> /\ log[s][Len(log[s])].type = "asked"
    IN  CASE type = "start"   -> ~open \/ faults > 0
          [] type = "decided" -> asks
          [] type = "aborted" -> open
          [] OTHER            -> open /\ ~asks

Log(s, type) ==
    /\ s \in live /\ Len(log[s]) < MaxLog /\ May(s, type)
    /\ log' = [log EXCEPT ![s] = Append(@, [type |-> type, at |-> clock])]
    /\ UNCHANGED <<clock, live, engineVars, faults>>

(* The harness opens a session, or lets go of it.                          *)
Open(s) ==
    /\ live' = IF s \in live THEN live \ {s} ELSE live \cup {s}
    /\ s \in live => ~HasOpenTurn(log[s])
    /\ UNCHANGED <<clock, log, engineVars, faults>>

TimePasses ==
    /\ clock < MaxClock /\ clock' = clock + 1
    /\ UNCHANGED <<log, live, engineVars, faults>>

(* The harness dies and starts again: the logs are what is left.           *)
Restart ==
    /\ Fault
    /\ live' = {}
    /\ seen' = [s \in Sessions |-> {}] /\ aliveAt' = 0
    /\ lastStates' = [s \in Sessions |-> "none"]
    /\ call' = [c \in Callers |-> Idle]
    /\ UNCHANGED <<clock, log>>

Step(c) == Read(c) \/ (\E s \in Sessions : Fold(c, s)) \/ Answer(c)

Next ==
    \/ \E c \in Callers : List(c) \/ Step(c)
    \/ Status
    \/ \E s \in Sessions : Open(s) \/ \E type \in Logged : Log(s, type)
    \/ TimePasses \/ Restart

Spec == Init /\ [][Next]_vars

-----------------------------------------------------------------------------
(* The step in which a call makes up its mind about a session.             *)
Folds(c, s) == call[c].at = {s} /\ call'[c].pc = "read"

(* However long a session is silent, it is DISCONNECTED only if a turn was *)
(* left open by a loop that is gone (heartbeat.js 10-19, service.js 19-22).*)
QuietIsConnected ==
    [][\A c \in Callers, s \in Sessions :
          Folds(c, s) /\ call'[c].got[s] = "DISCONNECTED" =>
             HasOpenTurn(call[c].read) /\ s \notin call[c].live]_vars

(* Something new happened since t: a repeated result is nothing new.       *)
NewSince(events, t) ==
    \E i \in DOMAIN events :
       /\ events[i].at >= t
       /\ \/ events[i].type \in Advances
          \/ /\ events[i].type \in Results
             /\ \A j \in 1..(i - 1) : events[j].type # events[i].type

(* RUNNING is earned by something new in the log within the threshold      *)
(* (heartbeat.js 21-23).                                                   *)
RunningIsEarned ==
    [][\A c \in Callers, s \in Sessions :
          Folds(c, s) /\ call'[c].got[s] = "RUNNING" =>
             NewSince(call[c].read, call[c].now - StaleAfter)]_vars

(* contract.js 12-13: STALE is "NO meaningful progress for >= threshold".  *)
StaleIsStale ==
    [][\A c \in Callers, s \in Sessions :
          Folds(c, s) /\ call'[c].got[s] = "STALE" =>
             ~NewSince(call[c].read, call[c].now - StaleAfter)]_vars

(* Whatever was recorded before and whichever calls overlap, a question,   *)
(* a failure and an end are reported by every call that reads them         *)
(* (service.js 340-374).                                                   *)
EndsWith(events, type) ==
    events # <<>> /\ events[Len(events)].type = type /\ ~HasPendingApproval(events)

EndIsReported ==
    [][\A c \in Callers, s \in Sessions :
          LET read == call[c].read IN
          Folds(c, s) =>
             /\ EndsWith(read, "error") => call'[c].got[s] = "FAILED"
             /\ EndsWith(read, "completed") /\ "fail" \notin Fingerprints(read) =>
                   call'[c].got[s] = "DONE"
             /\ HasPendingApproval(read) /\ s \in call[c].live =>
                   call'[c].got[s] = "NEEDS_USER"]_vars
=============================================================================
