----------------------------- MODULE RemoteFiles -----------------------------
(***************************************************************************)
(* The /remfs operations on roots, workspaces and files: the handler of    *)
(* lib/dispatch.js over the adapter of lib/host.js.  Calls of phones run   *)
(* concurrently; a step is the code between two awaits another call, or    *)
(* the PC, can run in.  The PC's user edits the roots file, registers      *)
(* workspaces and saves files meanwhile.                                   *)
(*                                                                         *)
(* Whether a call is authenticated is the device store's answer (see       *)
(* SecurityStore, which also has pair, devices, revoke and revokeAll).     *)
(***************************************************************************)
EXTENDS PathRules, FiniteSets

Enc == INSTANCE Encoding

CONSTANTS
    Calls,       \* calls in flight at once
    Names, Paths, \* canonical paths, and the names in them
    Dirs, Files, \* the directories and the plain files among them
    Requests,    \* paths as phones spell them
    Resolve,     \* fs.resolve + fs.processPath: [Requests -> Paths]
    Root,        \* adapter.workspaceRoot()
    RootsFile,   \* Root\.remfs-roots.json
    PhoneRoots,  \* lists of roots a phone may ask for
    PcRoots,     \* lists of roots the PC's user writes
    PcTexts,     \* file contents the PC's user saves
    PhoneTexts,  \* contents phones write
    Ops,         \* the operations of this instance
    MaxEvents,   \* bound: calls and PC edits per behaviour
    None

FileOps == {"ensureWorkspace", "list", "read", "write"}
AllOps  == {"allowed", "setAllowed", "workspaces"} \cup FileOps

ASSUME RemoteFilesAssumption ==
    /\ Paths \subseteq Seq(Names) \ {<< >>}
    /\ Dirs \subseteq Paths /\ Files \subseteq Paths
    /\ Resolve \in [Requests -> Paths]
    /\ Root \in Dirs
    /\ RootsFile \in Paths /\ RootsFile[Len(RootsFile)] \in HardLast
    /\ PhoneRoots \subseteq SUBSET Paths /\ PcRoots \subseteq (SUBSET Paths) \ {{}}
    /\ PcTexts \subseteq Enc!Texts /\ PhoneTexts \subseteq Enc!Texts
    /\ MaxEvents \in Nat
    /\ Ops \subseteq AllOps /\ None \notin Paths \cup AllOps /\ None \notin Enc!Texts

VARIABLES
    allow,     \* .remfs-roots.json
    copies,    \* registered workspaces: entries per directory
    files,     \* contents of the plain files
    call,      \* the calls in flight
    approved,  \* history: roots the PC's user approved, ever
    opened,    \* history: workspaces the PC's user registered, ever
    saved,     \* history: each file as the PC's user last left it
    raced,     \* history: files a phone wrote over without having seen them
    events     \* history: calls and PC edits so far

histVars == <<approved, opened, saved, raced, events>>
vars == <<allow, copies, files, call, histVars>>

Listing(state, roots) == [state |-> state, roots |-> roots]
Listings == [state : {"missing", "bad", "listed"}, roots : SUBSET Paths]

Workspaces == {d \in Dirs : copies[d] > 0}

(* What a call holds: its request, and what its steps have read so far.    *)
PCs == {"idle", "auth", "stat", "roots", "workspaces", "probe", "lookup", "act"}

Fresh(pc, op, path, next, text) ==
    [pc |-> pc, op |-> op, path |-> path, next |-> next, text |-> text,
     roots |-> {}, wks |-> {}, before |-> None, missed |-> FALSE]

Idle == Fresh("idle", None, None, {}, None)

(* resolveRoots, fail-closed: an unreadable, corrupt or empty file is no   *)
(* list of roots; without a file the workspace root is the only one.       *)
RootsError(listing) == listing.state = "bad"
RootsIn(listing) == IF listing.state = "missing" THEN {Root} ELSE listing.roots

CallRecords ==
    [pc : PCs, op : Ops \cup {None}, path : Paths \cup {None}, roots : SUBSET Paths,
     next : SUBSET Paths, text : Enc!Texts \cup {None}, wks : SUBSET Dirs,
     before : Enc!Texts \cup {None}, missed : BOOLEAN]

TypeOK ==
    /\ allow \in Listings /\ (allow.state = "listed" => allow.roots # {})
    /\ copies \in [Dirs -> Nat]
    /\ files \in [Files -> Enc!Texts \cup {None}]
    /\ call \in [Calls -> CallRecords]
    /\ approved \subseteq Paths /\ opened \subseteq Dirs
    /\ saved \in [Files -> Enc!Texts \cup {None}]
    /\ raced \subseteq Files
    /\ events \in 0..MaxEvents

Init ==
    /\ allow = Listing("missing", {})
    /\ copies = [d \in Dirs |-> 0]
    /\ files \in [Files -> PcTexts \cup {None}]
    /\ call = [c \in Calls |-> Idle]
    /\ approved = {Root} /\ opened = {}
    /\ saved = files /\ raced = {}
    /\ events = 0

Event == events < MaxEvents /\ events' = events + 1

-----------------------------------------------------------------------------
(***************************************************************************)
(* The handler.                                                            *)
(***************************************************************************)
Goto(c, pc) == call' = [call EXCEPT ![c].pc = pc]
Answer(c)   == call' = [call EXCEPT ![c] = Idle]

Begin(c, op, path, next, text) ==
    /\ call[c].pc = "idle" /\ op \in Ops
    /\ Event
    /\ call' = [call EXCEPT ![c] = Fresh("auth", op, path, next, text)]
    /\ UNCHANGED <<allow, copies, files, approved, opened, saved, raced>>

(* A request arrives: `allowed` and `workspaces` carry nothing, setAllowed *)
(* a list of roots, the others a path without traversal.                   *)
Arrive(c) ==
    \/ \E op \in {"allowed", "workspaces"} : Begin(c, op, None, {}, None)
    \/ \E next \in PhoneRoots : Begin(c, "setAllowed", None, next, None)
    \/ \E raw \in Requests :
          /\ ~HasTraversal(raw)
          /\ \/ \E op \in FileOps \ {"write"} : Begin(c, op, Resolve[raw], {}, None)
             \/ \E text \in PhoneTexts : Begin(c, "write", Resolve[raw], {}, text)

(* The credential and the capability are checked once, before anything.    *)
Authenticate(c) ==
    /\ call[c].pc = "auth"
    /\ Goto(c, IF call[c].op \in {"list", "read"} THEN "stat" ELSE "roots")
    /\ UNCHANGED <<allow, copies, files, histVars>>

Unauthorized(c) ==
    /\ call[c].pc = "auth"
    /\ Answer(c)
    /\ UNCHANGED <<allow, copies, files, histVars>>

(* stat: list wants a directory, read a plain file.                        *)
Stat(c) ==
    /\ call[c].pc = "stat"
    /\ IF call[c].path \in (IF call[c].op = "list" THEN Dirs ELSE Files \cup {RootsFile})
       THEN Goto(c, "roots") ELSE Answer(c)
    /\ UNCHANGED <<allow, copies, files, histVars>>

(* resolveRoots reads the file; setAllowed decides on what it read, and    *)
(* refuses an empty list.                                                  *)
ReadRoots(c) ==
    LET roots == RootsIn(allow)
        next  == IF call[c].op = "setAllowed" THEN "act" ELSE "workspaces" IN
    /\ call[c].pc = "roots"
    /\ IF \/ call[c].op = "allowed"
          \/ RootsError(allow)
          \/ call[c].op = "setAllowed" /\ ~CanSetRoots(call[c].next, roots)
       THEN Answer(c)
       ELSE call' = [call EXCEPT ![c].pc = next, ![c].roots = roots]
    /\ UNCHANGED <<allow, copies, files, histVars>>

(* Is the path reachable for this call, by its copies?                     *)
Reachable(p, wks, roots) == ~DeniedPath(p, wks) /\ IsWithin(p, roots)

(* workspaceRoots lists the registry, or nothing when it throws; then the  *)
(* path is checked.                                                        *)
ListWorkspaces(c) ==
    LET op == call[c].op
        next == IF op = "write" THEN "probe"
                ELSE IF op = "ensureWorkspace" THEN "lookup" ELSE "act" IN
    /\ call[c].pc = "workspaces"
    /\ \E wks \in {Workspaces, {}} :
          IF op \in FileOps /\ ~Reachable(call[c].path, wks, call[c].roots)
          THEN Answer(c)
          ELSE call' = [call EXCEPT ![c].pc = next, ![c].wks = wks]
    /\ UNCHANGED <<allow, copies, files, histVars>>

(* write reads the first bytes of the file it is about to replace, and     *)
(* refuses one that is not UTF-8.  A file it cannot read is taken for new. *)
Probe(c) ==
    LET f == call[c].path
        there == IF f \in Files THEN files[f] ELSE None IN
    /\ call[c].pc = "probe"
    /\ \E before \in {there, None} :
          IF before # None /\ (Enc!HasUtf16Bom(before) \/ ~Enc!IsValidUtf8(before))
          THEN Answer(c)
          ELSE call' = [call EXCEPT ![c].pc = "act", ![c].before = before,
                                    ![c].missed = (before # there)]
    /\ UNCHANGED <<allow, copies, files, histVars>>

(* Mutant: the original's BOM is not put back.                             *)
AsOriginalNoBom(text, before) ==
    Enc!ApplyNewlineStyle(Enc!WithBom(text, FALSE),
                          IF before = None THEN "none" ELSE Enc!DominantNewline(before))

(* The new content takes the BOM and the line breaks of the original.      *)
AsOriginal(text, before) ==
    IF before = None
    THEN Enc!WithBom(text, FALSE)
    ELSE Enc!ApplyNewlineStyle(Enc!WithBom(text, Enc!HasUtf8Bom(before)),
                               Enc!DominantNewline(before))

(* writeText; the path check is what keeps it off the roots file.          *)
Write(c) ==
    LET f == call[c].path IN
    /\ call[c].pc = "act" /\ call[c].op = "write"
    /\ Answer(c)
    /\ IF f \in Files
       THEN /\ files' = [files EXCEPT ![f] = AsOriginal(call[c].text, call[c].before)]
            /\ raced' = IF call[c].missed THEN raced \cup {f} ELSE raced
       ELSE UNCHANGED <<files, raced>>
    /\ IF f = RootsFile
       THEN \E roots \in PhoneRoots : allow' = Listing("listed", roots)
       ELSE UNCHANGED allow
    /\ UNCHANGED <<copies, approved, opened, saved, events>>

SetAllowed(c) ==
    /\ call[c].pc = "act" /\ call[c].op = "setAllowed"
    /\ Answer(c)
    /\ allow' = Listing("listed", call[c].next)
    /\ UNCHANGED <<copies, files, histVars>>

(* resolveWorkspaceByPath: a directory already registered is not again.    *)
(* (A registry that cannot be asked cannot create one either: Throw.)      *)
Lookup(c) ==
    /\ call[c].pc = "lookup"
    /\ IF call[c].path \in Workspaces THEN Answer(c) ELSE Goto(c, "act")
    /\ UNCHANGED <<allow, copies, files, histVars>>

(* createWorkspace; the registry refuses what is no directory.             *)
CreateWorkspace(c) ==
    /\ call[c].pc = "act" /\ call[c].op = "ensureWorkspace"
    /\ Answer(c)
    /\ copies' = IF call[c].path \in Dirs THEN [copies EXCEPT ![call[c].path] = @ + 1] ELSE copies
    /\ UNCHANGED <<allow, files, histVars>>

(* list and workspaces answer the entries that pass the check of each;     *)
(* read answers the file.                                                  *)
Children(d) == {p \in Paths : ParentOf(p) = d}

Passing(c, ps) == {p \in ps : Reachable(p, call[c].wks, call[c].roots)}

(* Mutant: the entries of a listed directory are not looked at.            *)
AnsweredUnfiltered(c) ==
    CASE call[c].op = "list" -> {call[c].path} \cup Children(call[c].path)
      [] call[c].op = "workspaces" -> Passing(c, Workspaces)
      [] call[c].op = "setAllowed" -> call[c].next
      [] OTHER -> {call[c].path}

(* What the call is about to disclose or change.                           *)
Answered(c) ==
    CASE call[c].op = "list" ->
            {call[c].path} \cup Passing(c, Children(call[c].path) \cup {ParentOf(call[c].path)})
      [] call[c].op = "workspaces" -> Passing(c, Workspaces)
      [] call[c].op = "setAllowed" -> call[c].next
      [] OTHER -> {call[c].path}

Disclose(c) ==
    /\ call[c].pc = "act" /\ call[c].op \in {"list", "read", "workspaces"}
    /\ Answer(c)
    /\ UNCHANGED <<allow, copies, files, histVars>>

(* Any call of the adapter may throw: an internal error, nothing done.     *)
Throw(c) ==
    /\ call[c].pc \notin {"idle", "auth"}
    /\ Answer(c)
    /\ UNCHANGED <<allow, copies, files, histVars>>

Step(c) ==
    \/ Arrive(c) \/ Authenticate(c) \/ Unauthorized(c) \/ Stat(c) \/ ReadRoots(c)
    \/ ListWorkspaces(c) \/ Probe(c) \/ Lookup(c)
    \/ Write(c) \/ SetAllowed(c) \/ CreateWorkspace(c) \/ Disclose(c)
    \/ Throw(c)

-----------------------------------------------------------------------------
(***************************************************************************)
(* The PC's user.                                                          *)
(***************************************************************************)
(* An editor replaces the roots file, deletes it or leaves it broken.      *)
EditRoots ==
    /\ Event
    /\ \/ \E roots \in PcRoots :
             /\ allow' = Listing("listed", roots)
             /\ approved' = approved \cup roots
       \/ allow' \in {Listing("missing", {}), Listing("bad", {})} /\ UNCHANGED approved
    /\ UNCHANGED <<copies, files, call, opened, saved, raced>>

Register(d) ==
    /\ Event
    /\ copies[d] = 0
    /\ copies' = [copies EXCEPT ![d] = 1]
    /\ opened' = opened \cup {d}
    /\ UNCHANGED <<allow, files, call, approved, saved, raced>>

Unregister(d) ==
    /\ Event
    /\ copies[d] > 0
    /\ copies' = [copies EXCEPT ![d] = 0]
    /\ UNCHANGED <<allow, files, call, approved, opened, saved, raced>>

(* An editor saves a file: calls past their probe have missed it.          *)
SaveFile(f) ==
    /\ Event
    /\ \E text \in PcTexts :
          /\ files' = [files EXCEPT ![f] = text]
          /\ saved' = [saved EXCEPT ![f] = text]
    /\ raced' = raced \ {f}
    /\ call' = [c \in Calls |-> [call[c] EXCEPT !.missed = @ \/ (call[c].path = f /\ call[c].pc = "act")]]
    /\ UNCHANGED <<allow, copies, approved, opened>>

Pc ==
    \/ EditRoots
    \/ \E d \in Dirs : Register(d) \/ Unregister(d)
    \/ \E f \in Files : SaveFile(f)

Next == (\E c \in Calls : Step(c)) \/ Pc

Spec == Init /\ [][Next]_vars

-----------------------------------------------------------------------------
(* However calls and PC edits interleave, every root in force lies inside  *)
(* one the PC's user approved: phones only narrow (security.js 181-184;    *)
(* the roots file is written by nobody else, security.js 63-67).           *)
RootsApproved ==
    \A r \in RootsIn(allow) : allow.state # "bad" => IsWithin(r, approved)

(* A phone cannot open a protected area for itself: a workspace registered *)
(* inside one lies in a workspace there that the PC's user registered      *)
(* (security.js 140-153, dispatch.js 220-236).                             *)
OpenedByPc == \A w \in Workspaces : SoftDenied(w) => \E o \in opened : Opens(o, w)

(* What a call answers or changes is inside an approved root, of no        *)
(* hard-denied name, and in no protected area the PC's user did not open,  *)
(* however old its copies are (dispatch.js 203-326).                       *)
Granted(p) == IsWithin(p, approved) /\ ~DeniedPath(p, opened)

Touches(c) == IF call[c].pc = "act" THEN Answered(c) ELSE {}

OnlyGranted ==
    \A c \in Calls : \A p \in Touches(c) :
        IF call[c].op = "setAllowed" THEN IsWithin(p, approved) ELSE Granted(p)

(* A file keeps the UTF-8 BOM it had, through any number of phones'        *)
(* writes, and one seen not to be UTF-8 stays as it is, unless a write's   *)
(* probe failed, or missed a save of the PC (encoding.js 5-10).            *)
EncodingKept ==
    \A f \in Files \ raced :
        saved[f] # None =>
            /\ saved[f].form \in {"utf16", "foreign", "cut"} => files[f] = saved[f]
            /\ files[f].bom = saved[f].bom
=============================================================================
