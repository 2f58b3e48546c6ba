-------------------------- MODULE RemoteFiles_proofs --------------------------
(***************************************************************************)
(* Theorems about the operations on roots, workspaces and files, for any   *)
(* number of calls, any tree of paths and any edits of the PC's user.      *)
(*                                                                         *)
(* The inductive invariant follows a call's copies: whatever the roots     *)
(* file and the registry hold by now, what the call read of them had the   *)
(* PC user's blessing, and that is never taken out of the history.         *)
(***************************************************************************)
EXTENDS RemoteFiles, TLAPS

Blessed(roots)  == \A r \in roots : IsWithin(r, approved)
Openable(wks) == \A w \in wks : SoftDenied(w) => \E o \in opened : Opens(o, w)

Checked == {"probe", "lookup", "act"}

CallInv(c) ==
    /\ call[c].op \in FileOps => call[c].path \in Paths
    /\ call[c].op = "write" => call[c].text \in Enc!Texts
    /\ call[c].pc # "idle" => call[c].op \in Ops
    /\ call[c].pc \in Checked \cup {"workspaces"} => call[c].op # "allowed"
    /\ Blessed(call[c].roots) /\ Openable(call[c].wks)
    /\ call[c].op \in FileOps /\ call[c].pc \in Checked =>
          Reachable(call[c].path, call[c].wks, call[c].roots)
    /\ call[c].op = "setAllowed" /\ call[c].pc \in Checked \cup {"workspaces"} =>
          CanSetRoots(call[c].next, call[c].roots)

IInv ==
    /\ TypeOK /\ RootsApproved /\ OpenedByPc /\ Root \in approved
    /\ \A c \in Calls : CallInv(c)

-----------------------------------------------------------------------------
(***************************************************************************)
(* The path rules.                                                         *)
(***************************************************************************)
(* Being inside is transitive: a root inside an approved root approves     *)
(* nothing more (security.js isWithin, canSetRoots).                       *)
LEMMA InsideTransitive ==
    ASSUME NEW p \in Seq(Names), NEW q \in Seq(Names), NEW r \in Seq(Names),
           Inside(p, q), Inside(q, r)
    PROVE  Inside(p, r)
BY DEF Inside

(* Narrowing twice is narrowing once.                                      *)
LEMMA WithinTransitive ==
    ASSUME NEW p \in Seq(Names), NEW roots \in SUBSET Seq(Names), NEW all \in SUBSET Seq(Names),
           IsWithin(p, roots), \A r \in roots : IsWithin(r, all)
    PROVE  IsWithin(p, all)
<1>1. PICK r \in roots : Inside(p, r)
    BY DEF IsWithin
<1>2. PICK a \in all : Inside(r, a)
    BY DEF IsWithin
<1>3. Inside(p, a)
    BY <1>1, <1>2, InsideTransitive
<1> QED
    BY <1>3 DEF IsWithin

(* What workspaces open that were all opened by others, those others open. *)
LEMMA DeniedTransitive ==
    ASSUME NEW p \in Seq(Names), NEW wks \in SUBSET Seq(Names), NEW all \in SUBSET Seq(Names),
           ~DeniedPath(p, wks),
           \A w \in wks : SoftDenied(w) => \E o \in all : Opens(o, w)
    PROVE  ~DeniedPath(p, all)
<1>1. CASE ~SoftDenied(p)
    BY <1>1 DEF DeniedPath
<1>2. CASE SoftDenied(p)
  <2>1. PICK w \in wks : Opens(w, p)
      BY <1>2 DEF DeniedPath
  <2>2. PICK o \in all : Opens(o, w)
      BY <2>1 DEF Opens
  <2>3. Opens(o, p)
      BY <2>1, <2>2, InsideTransitive DEF Opens
  <2> QED
      BY <2>3 DEF DeniedPath
<1> QED
    BY <1>1, <1>2

(* A path reachable by blessed copies is granted.                          *)
LEMMA ReachableGranted ==
    ASSUME NEW p \in Seq(Names), NEW wks \in SUBSET Seq(Names), NEW roots \in SUBSET Seq(Names),
           approved \subseteq Seq(Names), opened \subseteq Seq(Names),
           Blessed(roots), Openable(wks), Reachable(p, wks, roots)
    PROVE  Granted(p)
<1>1. IsWithin(p, approved)
    BY WithinTransitive DEF Reachable, Blessed
<1>2. ~DeniedPath(p, opened)
    BY DeniedTransitive DEF Reachable, Openable
<1> QED
    BY <1>1, <1>2 DEF Granted

(* No phone reaches the roots file: its name is hard-denied.               *)
LEMMA NotRootsFile == \A wks, roots : ~Reachable(RootsFile, wks, roots)
BY RemoteFilesAssumption DEF Reachable, DeniedPath, HardDenied

-----------------------------------------------------------------------------
(***************************************************************************)
(* Types.                                                                  *)
(***************************************************************************)
LEMMA IdleTyped == Idle \in CallRecords
BY SMT DEF Idle, Fresh, CallRecords, PCs

(* The text a write stores is a text.                                      *)
LEMMA AsOriginalTyped ==
    ASSUME NEW text \in Enc!Texts, NEW before \in Enc!Texts \cup {None}
    PROVE  AsOriginal(text, before) \in Enc!Texts
<1>1. \A b \in BOOLEAN : Enc!WithBom(text, b) \in Enc!Texts
    BY DEF Enc!WithBom, Enc!Texts
<1>2. ASSUME NEW t \in Enc!Texts, NEW style
      PROVE  Enc!ApplyNewlineStyle(t, style) \in Enc!Texts
  <2>1. t.crlf \in Nat /\ t.lf \in Nat
      BY DEF Enc!Texts
  <2>2. t.crlf + t.lf \in Nat /\ 0 \in Nat
      BY <2>1
  <2>3. \A m, n \in Nat : [t EXCEPT !.crlf = m, !.lf = n] \in Enc!Texts
      BY DEF Enc!Texts
  <2> QED
      BY <2>2, <2>3 DEF Enc!ApplyNewlineStyle
<1>3. CASE before = None
    BY <1>1, <1>3 DEF AsOriginal
<1>4. CASE before # None
  <2>1. before \in Enc!Texts
      BY <1>4
  <2>2. Enc!HasUtf8Bom(before) \in BOOLEAN
      BY <2>1 DEF Enc!HasUtf8Bom, Enc!Texts
  <2> QED
      BY <1>1, <1>2, <1>4, <2>2 DEF AsOriginal
<1> QED
    BY <1>3, <1>4

(* Only the calling call's record changes, and stays a record.             *)
LEMMA StepTyped ==
    ASSUME TypeOK, NEW c \in Calls, Step(c), CallInv(c)
    PROVE  TypeOK'
<1> USE DEF TypeOK
<1>1. CASE Arrive(c)
  <2>1. ASSUME NEW op, NEW path \in Paths \cup {None}, NEW next \in SUBSET Paths,
               NEW text \in Enc!Texts \cup {None}, Begin(c, op, path, next, text)
        PROVE  TypeOK'
    <3>1. Fresh("auth", op, path, next, text) \in CallRecords
        BY <2>1, SMT DEF CallRecords, Begin, Fresh, PCs
    <3>2. call' \in [Calls -> CallRecords]
        BY <2>1, <3>1 DEF Begin
    <3> QED
        BY <2>1, <3>2, RemoteFilesAssumption DEF Begin, Event
  <2>2. \A raw \in Requests : Resolve[raw] \in Paths
      BY RemoteFilesAssumption
  <2> QED
      BY <1>1, <2>1, <2>2, RemoteFilesAssumption DEF Arrive
<1>2. CASE Authenticate(c) \/ Unauthorized(c) \/ Stat(c) \/ Lookup(c) \/ Disclose(c) \/ Throw(c)
  <2>1. call' \in [Calls -> CallRecords]
    <3>1. \A pc \in PCs : [call[c] EXCEPT !.pc = pc] \in CallRecords
        BY DEF CallRecords
    <3>2. \E pc \in PCs : Goto(c, pc) \/ Answer(c)
        BY <1>2 DEF Authenticate, Unauthorized, Stat, Lookup, Disclose, Throw, PCs
    <3> QED
        BY <3>1, <3>2, IdleTyped DEF Goto, Answer
  <2> QED
      BY <1>2, <2>1 DEF Authenticate, Unauthorized, Stat, Lookup, Disclose, Throw, histVars
<1>3. CASE ReadRoots(c)
  <2>1. RootsIn(allow) \in SUBSET Paths
      BY RemoteFilesAssumption, SMT DEF RootsIn, Listings
  <2>2. \A pc \in PCs, roots \in SUBSET Paths :
            [call[c] EXCEPT !.pc = pc, !.roots = roots] \in CallRecords
      BY DEF CallRecords
  <2>3. call' \in [Calls -> CallRecords]
      BY <1>3, <2>1, <2>2, IdleTyped DEF ReadRoots, Answer, PCs
  <2> QED
      BY <1>3, <2>3 DEF ReadRoots, histVars
<1>4. CASE ListWorkspaces(c)
  <2>1. \A pc \in PCs, wks \in SUBSET Dirs :
            [call[c] EXCEPT !.pc = pc, !.wks = wks] \in CallRecords
      BY DEF CallRecords
  <2>2. PICK wks \in {Workspaces, {}} :
            \/ Answer(c)
            \/ \E pc \in PCs : call' = [call EXCEPT ![c].pc = pc, ![c].wks = wks]
      BY <1>4 DEF ListWorkspaces, PCs
  <2>3. call' \in [Calls -> CallRecords]
    <3>1. wks \in SUBSET Dirs
        BY <2>2 DEF Workspaces
    <3>2. CASE Answer(c)
        BY <3>2, IdleTyped DEF Answer
    <3>3. ASSUME NEW pc \in PCs, call' = [call EXCEPT ![c].pc = pc, ![c].wks = wks]
          PROVE  call' \in [Calls -> CallRecords]
      <4>1. [call[c] EXCEPT !.pc = pc, !.wks = wks] \in CallRecords
          BY <2>1, <3>1
      <4> QED
          BY <3>3, <4>1
    <3> QED
        BY <2>2, <3>2, <3>3
  <2> QED
      BY <1>4, <2>3 DEF ListWorkspaces, histVars
<1>5. CASE Probe(c)
  <2> DEFINE there == IF call[c].path \in Files THEN files[call[c].path] ELSE None
  <2>1. \A before \in Enc!Texts \cup {None}, missed \in BOOLEAN :
            [call[c] EXCEPT !.pc = "act", !.before = before, !.missed = missed] \in CallRecords
      BY ZenonT(60) DEF CallRecords, PCs
  <2>2. \E r \in CallRecords : call' = [call EXCEPT ![c] = r]
    <3>1. CASE Answer(c)
        BY <3>1, IdleTyped DEF Answer
    <3>2. CASE ~Answer(c)
      <4>1. there \in Enc!Texts \cup {None}
          OBVIOUS
      <4>2. PICK before \in {there, None} :
                call' = [call EXCEPT ![c].pc = "act", ![c].before = before, ![c].missed = (before # there)]
          BY <1>5, <3>2 DEF Probe
      <4> HIDE DEF there
      <4> DEFINE r == [call[c] EXCEPT !.pc = "act", !.before = before, !.missed = (before # there)]
      <4>3. call' = [call EXCEPT ![c] = r]
          BY <4>2
      <4>4. (before # there) \in BOOLEAN
          BY Zenon
      <4>5. r \in CallRecords
          BY <2>1, <4>1, <4>2, <4>4, Zenon
      <4> QED
          BY <4>3, <4>5, Zenon
    <3> QED
        BY <3>1, <3>2
  <2>3. call' \in [Calls -> CallRecords]
      BY <2>2
  <2> QED
      BY <1>5, <2>3 DEF Probe, histVars
<1>6. CASE SetAllowed(c)
  <2>1. call' \in [Calls -> CallRecords]
      BY <1>6, IdleTyped DEF SetAllowed, Answer
  <2>2. call[c].next \in (SUBSET Paths) \ {{}}
      BY <1>6 DEF SetAllowed, CallInv, CanSetRoots, CallRecords, Checked
  <2>3. allow' \in Listings /\ allow'.roots # {}
      BY <1>6, <2>2, SMT DEF SetAllowed, Listing, Listings
  <2> QED
      BY <1>6, <2>1, <2>3 DEF SetAllowed, histVars
<1>7. CASE Write(c)
  <2>1. call' \in [Calls -> CallRecords]
      BY <1>7, IdleTyped DEF Write, Answer
  <2>2. AsOriginal(call[c].text, call[c].before) \in Enc!Texts
      BY <1>7, AsOriginalTyped DEF Write, CallInv, CallRecords
  <2>3. files' \in [Files -> Enc!Texts \cup {None}] /\ raced' \subseteq Files
      BY <1>7, <2>2 DEF Write
  <2>4. UNCHANGED allow
      BY <1>7, NotRootsFile DEF Write, CallInv, Reachable, FileOps, Checked
  <2> QED
      BY <1>7, <2>1, <2>3, <2>4 DEF Write
<1>8. CASE CreateWorkspace(c)
  <2>1. call' \in [Calls -> CallRecords]
      BY <1>8, IdleTyped DEF CreateWorkspace, Answer
  <2>2. copies' \in [Dirs -> Nat]
      BY <1>8, SMT DEF CreateWorkspace
  <2> QED
      BY <1>8, <2>1, <2>2 DEF CreateWorkspace, histVars
<1> QED
    BY <1>1, <1>2, <1>3, <1>4, <1>5, <1>6, <1>7, <1>8 DEF Step

LEMMA PcTyped ==
    ASSUME TypeOK, Pc
    PROVE  TypeOK'
<1> USE DEF TypeOK
<1>1. CASE EditRoots
  <2>1. allow' \in Listings /\ (allow'.state = "listed" => allow'.roots # {})
      BY <1>1, RemoteFilesAssumption, SMT DEF EditRoots, Listing, Listings
  <2>2. approved' \subseteq Paths
      BY <1>1, RemoteFilesAssumption DEF EditRoots
  <2> QED
      BY <1>1, <2>1, <2>2, RemoteFilesAssumption DEF EditRoots, Event
<1>2. ASSUME NEW d \in Dirs, Register(d) \/ Unregister(d)
      PROVE  TypeOK'
  <2>1. copies' \in [Dirs -> Nat]
      BY <1>2, SMT DEF Register, Unregister
  <2> QED
      BY <1>2, <2>1, RemoteFilesAssumption DEF Register, Unregister, Event
<1>3. ASSUME NEW f \in Files, SaveFile(f)
      PROVE  TypeOK'
  <2>1. files' \in [Files -> Enc!Texts \cup {None}] /\ saved' \in [Files -> Enc!Texts \cup {None}]
      BY <1>3, RemoteFilesAssumption DEF SaveFile
  <2>2. \A d \in Calls, b \in BOOLEAN : [call[d] EXCEPT !.missed = b] \in CallRecords
      BY DEF CallRecords
  <2>3. \A d \in Calls : call[d].missed \in BOOLEAN
      BY DEF CallRecords
  <2>4. call' \in [Calls -> CallRecords]
      BY <1>3, <2>2, <2>3 DEF SaveFile
  <2> QED
      BY <1>3, <2>1, <2>4, RemoteFilesAssumption DEF SaveFile, Event
<1> QED
    BY <1>1, <1>2, <1>3 DEF Pc

-----------------------------------------------------------------------------
(***************************************************************************)
(* The calls' copies, and what they do with them.                          *)
(***************************************************************************)
LEMMA Init0 == Init => IInv
<1> SUFFICES ASSUME Init PROVE IInv
    OBVIOUS
<1>1. TypeOK
  <2>1. allow \in Listings /\ allow.state = "missing"
      BY SMT DEF Init, Listing, Listings
  <2>2. files \in [Files -> Enc!Texts \cup {None}]
      BY RemoteFilesAssumption DEF Init
  <2>3. copies \in [Dirs -> Nat] /\ events \in 0..MaxEvents
      BY RemoteFilesAssumption DEF Init
  <2> QED
      BY <2>1, <2>2, <2>3, RemoteFilesAssumption, IdleTyped DEF Init, TypeOK
<1>2. RootsApproved
  <2>1. Root \in Seq(Names) /\ Root # << >>
      BY RemoteFilesAssumption
  <2>2. IsWithin(Root, {Root})
      BY <2>1, SMT DEF IsWithin, Inside
  <2>3. RootsIn(allow) = {Root}
      BY SMT DEF Init, Listing, RootsIn
  <2> QED
      BY <2>2, <2>3 DEF Init, RootsApproved
<1>3. OpenedByPc
    BY SMT DEF Init, OpenedByPc, Workspaces
<1>4. ASSUME NEW c \in Calls PROVE CallInv(c)
  <2>1. call[c] = Idle /\ None \notin FileOps \cup {"write", "setAllowed"}
      BY RemoteFilesAssumption DEF Init, FileOps, AllOps
  <2> QED
      BY <2>1, SMT DEF CallInv, Idle, Fresh, Blessed, Openable, Checked
<1> QED
    BY <1>1, <1>2, <1>3, <1>4 DEF IInv, Init

(* The histories only grow, so what was blessed stays so.                  *)
LEMMA CallKept ==
    ASSUME NEW c \in Calls, CallInv(c), approved \subseteq approved', opened \subseteq opened',
           call'[c] = call[c]
    PROVE  CallInv(c)'
<1>1. \A p : IsWithin(p, approved) => IsWithin(p, approved')
    BY DEF IsWithin
<1> QED
    BY <1>1 DEF CallInv, Blessed, Openable

LEMMA IdleInv ==
    ASSUME NEW c \in Calls, call'[c] = Idle
    PROVE  CallInv(c)'
BY RemoteFilesAssumption DEF CallInv, Idle, Fresh, Blessed, Openable, Checked, FileOps, AllOps

(* What a step of a call makes of its own copies.                          *)
LEMMA StepOwn ==
    ASSUME TypeOK, RootsApproved, OpenedByPc, NEW c \in Calls, CallInv(c), Step(c)
    PROVE  CallInv(c)'
<1> USE DEF TypeOK
<1>1. CASE Arrive(c)
  <2>1. ASSUME NEW op, NEW path, NEW next, NEW text, Begin(c, op, path, next, text),
               op \in FileOps => path \in Paths, op = "write" => text \in Enc!Texts
        PROVE  CallInv(c)'
    <3>1. call'[c] = Fresh("auth", op, path, next, text)
        BY <2>1 DEF Begin
    <3>2. op \in Ops
        BY <2>1 DEF Begin
    <3> QED
        BY <2>1, <3>1, <3>2, SMT DEF CallInv, Fresh, Blessed, Openable, Checked
  <2>2. \A raw \in Requests : Resolve[raw] \in Paths
      BY RemoteFilesAssumption
  <2> QED
      BY <1>1, <2>1, <2>2, RemoteFilesAssumption DEF Arrive, FileOps
<1>2. CASE Authenticate(c) \/ Stat(c)
  <2>1. \/ call'[c] = Idle
        \/ \E pc \in {"stat", "roots"} : call'[c] = [call[c] EXCEPT !.pc = pc]
      BY <1>2 DEF Authenticate, Stat, Goto, Answer
  <2>2. UNCHANGED <<approved, opened>>
      BY <1>2 DEF Authenticate, Stat, histVars
  <2>3. CASE call'[c] = Idle
      BY <2>3, IdleInv
  <2>4. ASSUME NEW pc \in {"stat", "roots"}, call'[c] = [call[c] EXCEPT !.pc = pc]
        PROVE  CallInv(c)'
    <3>1. call'[c].pc = pc /\ pc \notin Checked
        BY <2>4 DEF CallRecords, Checked
    <3>2. /\ call'[c].op = call[c].op /\ call'[c].path = call[c].path /\ call'[c].text = call[c].text
          /\ call'[c].roots = call[c].roots /\ call'[c].wks = call[c].wks
        BY <2>4 DEF CallRecords
    <3>3. call[c].pc # "idle" /\ pc # "workspaces"
        BY <1>2 DEF Authenticate, Stat
    <3> QED
        BY <2>2, <3>1, <3>2, <3>3 DEF CallInv, Blessed, Openable, Checked
  <2> QED
      BY <2>1, <2>3, <2>4
<1>3. CASE Unauthorized(c) \/ Disclose(c) \/ Throw(c) \/ SetAllowed(c) \/ Write(c) \/ CreateWorkspace(c)
  <2>1. call'[c] = Idle
      BY <1>3 DEF Unauthorized, Disclose, Throw, SetAllowed, Write, CreateWorkspace, Answer
  <2> QED
      BY <2>1, IdleInv
<1>4. CASE ReadRoots(c)
  <2>1. CASE call'[c] = Idle
      BY <2>1, IdleInv
  <2>2. CASE call'[c] # Idle
    <3>1. PICK pc \in {"act", "workspaces"} :
              /\ call' = [call EXCEPT ![c].pc = pc, ![c].roots = RootsIn(allow)]
              /\ ~RootsError(allow)
              /\ pc = "act" <=> call[c].op = "setAllowed"
              /\ call[c].op = "setAllowed" => CanSetRoots(call[c].next, RootsIn(allow))
        BY <1>4, <2>2 DEF ReadRoots, Answer
    <3>2. /\ call'[c].op = call[c].op /\ call'[c].path = call[c].path /\ call'[c].text = call[c].text
          /\ call'[c].next = call[c].next /\ call'[c].wks = call[c].wks
          /\ call'[c].pc = pc /\ call'[c].roots = RootsIn(allow)
        BY <3>1 DEF CallRecords
    <3>3. \A r \in RootsIn(allow) : IsWithin(r, approved)
        BY <3>1 DEF RootsApproved, RootsError
    <3>4. UNCHANGED <<approved, opened>>
        BY <1>4 DEF ReadRoots, histVars
    <3>5. call[c].op \in FileOps => call[c].op # "setAllowed"
        BY DEF FileOps
    <3>6. call[c].pc # "idle" /\ call[c].op # "allowed"
        BY <1>4, <2>2 DEF ReadRoots, Answer
    <3> QED
        BY <3>1, <3>2, <3>3, <3>4, <3>5, <3>6 DEF CallInv, Blessed, Openable, Checked
  <2> QED
      BY <2>1, <2>2
<1>5. CASE ListWorkspaces(c)
  <2>1. CASE call'[c] = Idle
      BY <2>1, IdleInv
  <2>2. CASE call'[c] # Idle
    <3>1. PICK wks \in {Workspaces, {}}, pc \in Checked :
              /\ call' = [call EXCEPT ![c].pc = pc, ![c].wks = wks]
              /\ call[c].op \in FileOps => Reachable(call[c].path, wks, call[c].roots)
        BY <1>5, <2>2 DEF ListWorkspaces, Answer, Checked
    <3>2. /\ call'[c].op = call[c].op /\ call'[c].path = call[c].path /\ call'[c].text = call[c].text
          /\ call'[c].next = call[c].next /\ call'[c].roots = call[c].roots
          /\ call'[c].pc = pc /\ call'[c].wks = wks
        BY <3>1 DEF CallRecords
    <3>3. UNCHANGED <<approved, opened>> /\ call[c].pc = "workspaces"
        BY <1>5 DEF ListWorkspaces, histVars
    <3>4. Openable(wks)
        BY <3>1 DEF OpenedByPc, Openable
    <3> QED
        BY <3>1, <3>2, <3>3, <3>4 DEF CallInv, Blessed, Openable, Checked
  <2> QED
      BY <2>1, <2>2
<1>6. CASE Probe(c) \/ Lookup(c)
  <2>1. \/ call'[c] = Idle
        \/ \E before, missed : call'[c] = [call[c] EXCEPT !.pc = "act", !.before = before, !.missed = missed]
        \/ call'[c] = [call[c] EXCEPT !.pc = "act"]
    <3>1. CASE Lookup(c)
        BY <3>1 DEF Lookup, Goto, Answer
    <3>2. CASE Probe(c)
      <4> DEFINE there == IF call[c].path \in Files THEN files[call[c].path] ELSE None
      <4>1. CASE Answer(c)
          BY <4>1 DEF Answer
      <4>2. CASE ~Answer(c)
        <5>1. PICK before \in {there, None} :
                  call' = [call EXCEPT ![c].pc = "act", ![c].before = before, ![c].missed = (before # there)]
            BY <3>2, <4>2 DEF Probe
        <5>2. call'[c] = [call[c] EXCEPT !.pc = "act", !.before = before, !.missed = (before # there)]
            BY <5>1
        <5> HIDE DEF there
        <5> QED
            BY <5>2
      <4> QED
          BY <4>1, <4>2
    <3> QED
        BY <1>6, <3>1, <3>2
  <2>2. CASE call'[c] = Idle
      BY <2>2, IdleInv
  <2>3. CASE call'[c] # Idle
    <3>1. /\ call'[c].op = call[c].op /\ call'[c].path = call[c].path /\ call'[c].text = call[c].text
          /\ call'[c].next = call[c].next /\ call'[c].roots = call[c].roots
          /\ call'[c].wks = call[c].wks /\ call'[c].pc = "act"
        BY <2>1, <2>3 DEF CallRecords
    <3>2. UNCHANGED <<approved, opened>> /\ call[c].pc \in Checked
        BY <1>6 DEF Probe, Lookup, histVars, Checked
    <3> QED
        BY <3>1, <3>2 DEF CallInv, Blessed, Openable, Checked
  <2> QED
      BY <2>2, <2>3
<1> QED
    BY <1>1, <1>2, <1>3, <1>4, <1>5, <1>6 DEF Step

(* A step of a call keeps the roots approved and the areas shut.           *)
LEMMA StepShared ==
    ASSUME TypeOK, RootsApproved, OpenedByPc, NEW c \in Calls, CallInv(c), Step(c)
    PROVE  RootsApproved' /\ OpenedByPc' /\ UNCHANGED <<approved, opened>>
<1> USE DEF TypeOK
<1>1. CASE SetAllowed(c)
  <2>1. \A r \in call[c].next : IsWithin(r, call[c].roots)
      BY <1>1 DEF SetAllowed, CallInv, CanSetRoots, Checked
  <2>2. \A r \in call[c].next : IsWithin(r, approved)
    <3>1. /\ call[c].next \in SUBSET Seq(Names) /\ call[c].roots \in SUBSET Seq(Names)
          /\ approved \in SUBSET Seq(Names)
        BY RemoteFilesAssumption DEF CallRecords
    <3>2. \A r \in call[c].roots : IsWithin(r, approved)
        BY DEF CallInv, Blessed
    <3> QED
        BY <2>1, <3>1, <3>2, WithinTransitive
  <2>3. RootsIn(allow') = call[c].next
      BY <1>1, SMT DEF SetAllowed, RootsIn, Listing
  <2> QED
      BY <1>1, <2>2, <2>3 DEF SetAllowed, RootsApproved, OpenedByPc, Workspaces, histVars
<1>2. CASE Write(c)
  <2>1. UNCHANGED allow
      BY <1>2, NotRootsFile DEF Write, CallInv, FileOps, Checked
  <2> QED
      BY <1>2, <2>1 DEF Write, RootsApproved, OpenedByPc, Workspaces, RootsIn
<1>3. CASE CreateWorkspace(c)
  <2>1. UNCHANGED <<allow, approved, opened>>
      BY <1>3 DEF CreateWorkspace, histVars
  <2>2. Granted(call[c].path)
    <3>1. call[c].path \in Paths /\ Reachable(call[c].path, call[c].wks, call[c].roots)
        BY <1>3 DEF CreateWorkspace, CallInv, FileOps, Checked
    <3>2. call[c].wks \in SUBSET Seq(Names) /\ call[c].roots \in SUBSET Seq(Names)
        BY RemoteFilesAssumption DEF CallRecords
    <3> QED
        BY <3>1, <3>2, ReachableGranted, RemoteFilesAssumption DEF CallInv
  <2>3. \A w \in Workspaces' : w \in Workspaces \/ w = call[c].path
      BY <1>3, SMT DEF CreateWorkspace, Workspaces
  <2> QED
      BY <2>1, <2>2, <2>3 DEF RootsApproved, OpenedByPc, RootsIn, Granted, DeniedPath
<1>4. CASE ~(SetAllowed(c) \/ Write(c) \/ CreateWorkspace(c))
  <2>1. UNCHANGED <<allow, copies, approved, opened>>
      BY <1>4 DEF Step, Arrive, Begin, Authenticate, Unauthorized, Stat, ReadRoots, ListWorkspaces,
                  Probe, Lookup, Disclose, Throw, histVars
  <2> QED
      BY <2>1 DEF RootsApproved, OpenedByPc, RootsIn, Workspaces
<1> QED
    BY <1>1, <1>2, <1>3, <1>4

(* A step of a call leaves the other calls alone.                          *)
LEMMA StepOthers ==
    ASSUME TypeOK, NEW c \in Calls, Step(c), NEW d \in Calls, d # c
    PROVE  call'[d] = call[d]
<1>1. \E r : call' = [call EXCEPT ![c] = r]
    BY DEF Step, Arrive, Begin, Authenticate, Unauthorized, Stat, ReadRoots, ListWorkspaces,
           Probe, Lookup, Disclose, Throw, SetAllowed, Write, CreateWorkspace, Goto, Answer
<1> QED
    BY <1>1 DEF TypeOK

(* An edit of the PC's user blesses what it puts in force.                 *)
LEMMA PcKeeps ==
    ASSUME IInv, Pc
    PROVE  RootsApproved' /\ OpenedByPc' /\ \A c \in Calls : CallInv(c)'
<1> USE DEF IInv, TypeOK
<1>1. approved \subseteq approved' /\ opened \subseteq opened'
    BY DEF Pc, EditRoots, Register, Unregister, SaveFile
<1>2. RootsApproved'
  <2>1. CASE UNCHANGED allow
      BY <1>1, <2>1 DEF RootsApproved, RootsIn, IsWithin
  <2>2. CASE allow' \in {Listing("missing", {}), Listing("bad", {})}
    <3>1. Inside(Root, Root) /\ Root \in approved'
        BY <1>1, RemoteFilesAssumption DEF Inside
    <3> QED
        BY <2>2, <3>1, SMT DEF RootsApproved, RootsIn, Listing, IsWithin
  <2>3. CASE \E roots \in PcRoots : allow' = Listing("listed", roots) /\ approved' = approved \cup roots
    <3>1. PICK roots \in PcRoots : allow' = Listing("listed", roots) /\ approved' = approved \cup roots
        BY <2>3
    <3>2. \A r \in roots : r \in approved' /\ Inside(r, r)
        BY <3>1, RemoteFilesAssumption DEF Inside
    <3>3. RootsIn(allow') = roots
        BY <3>1, SMT DEF RootsIn, Listing
    <3> QED
        BY <3>2, <3>3 DEF RootsApproved, IsWithin
  <2> QED
      BY <2>1, <2>2, <2>3 DEF Pc, EditRoots, Register, Unregister, SaveFile
<1>3. OpenedByPc'
  <2>1. \A w \in Workspaces' : w \in Workspaces \/ w \in opened'
    <3>1. CASE UNCHANGED copies
        BY <3>1 DEF Workspaces
    <3>2. ASSUME NEW d \in Dirs, Register(d) \/ Unregister(d)
          PROVE  \A w \in Workspaces' : w \in Workspaces \/ w \in opened'
        BY <3>2, SMT DEF Register, Unregister, Workspaces
    <3> QED
        BY <3>1, <3>2 DEF Pc, EditRoots, SaveFile
  <2>2. \A w \in Dirs : Inside(w, w)
      BY RemoteFilesAssumption DEF Inside
  <2>3. Workspaces' \subseteq Dirs
      BY DEF Workspaces
  <2> QED
      BY <1>1, <2>1, <2>2, <2>3 DEF OpenedByPc, Opens
<1>4. ASSUME NEW c \in Calls PROVE CallInv(c)'
  <2>1. CASE call'[c] = call[c]
      BY <1>1, <2>1, CallKept
  <2>2. CASE \E b \in BOOLEAN : call'[c] = [call[c] EXCEPT !.missed = b]
    <3>1. /\ call'[c].op = call[c].op /\ call'[c].path = call[c].path /\ call'[c].text = call[c].text
          /\ call'[c].next = call[c].next /\ call'[c].roots = call[c].roots
          /\ call'[c].wks = call[c].wks /\ call'[c].pc = call[c].pc
        BY <2>2 DEF CallRecords
    <3>2. \A p : IsWithin(p, approved) => IsWithin(p, approved')
        BY <1>1 DEF IsWithin
    <3> QED
        BY <1>1, <3>1, <3>2 DEF CallInv, Blessed, Openable
  <2>3. CASE \E f \in Files : SaveFile(f)
    <3>1. call[c].missed \in BOOLEAN
        BY DEF CallRecords
    <3> QED
        BY <2>2, <2>3, <3>1 DEF SaveFile
  <2> QED
      BY <2>1, <2>3 DEF Pc, EditRoots, Register, Unregister
<1> QED
    BY <1>2, <1>3, <1>4

-----------------------------------------------------------------------------
LEMMA Inductive == IInv /\ [Next]_vars => IInv'
<1> SUFFICES ASSUME IInv, [Next]_vars PROVE IInv'
    OBVIOUS
<1>1. ASSUME NEW c \in Calls, Step(c) PROVE IInv'
  <2>1. TypeOK' /\ CallInv(c)'
      BY <1>1, StepTyped, StepOwn DEF IInv
  <2>2. RootsApproved' /\ OpenedByPc' /\ UNCHANGED <<approved, opened>>
      BY <1>1, StepShared DEF IInv
  <2>3. ASSUME NEW d \in Calls, d # c PROVE CallInv(d)'
      BY <1>1, <2>2, <2>3, StepOthers, CallKept DEF IInv
  <2> QED
      BY <2>1, <2>2, <2>3 DEF IInv
<1>2. CASE Pc
  <2>1. Root \in approved'
      BY <1>2 DEF IInv, Pc, EditRoots, Register, Unregister, SaveFile
  <2> QED
      BY <1>2, <2>1, PcTyped, PcKeeps DEF IInv
<1>3. CASE UNCHANGED vars
  <2>1. UNCHANGED <<allow, copies, files, call, approved, opened, saved, raced, events>>
      BY <1>3 DEF vars, histVars
  <2>2. TypeOK' /\ RootsApproved' /\ OpenedByPc'
      BY <2>1 DEF IInv, TypeOK, RootsApproved, RootsIn, OpenedByPc, Workspaces
  <2>3. \A c \in Calls : CallInv(c)'
      BY <2>1, CallKept DEF IInv
  <2> QED
      BY <2>1, <2>2, <2>3 DEF IInv
<1> QED
    BY <1>1, <1>2, <1>3 DEF Next

(* Every state the program reaches satisfies the inductive invariant.      *)
LEMMA Always == Spec => []IInv
BY Init0, Inductive, PTL DEF Spec

(* Every variable keeps its type, and no phone leaves the list of roots    *)
(* empty, which would shut everybody out.                                  *)
THEOREM TypeCorrect == Spec => []TypeOK
<1>1. IInv => TypeOK
    BY DEF IInv
<1> QED
    BY <1>1, Always, PTL

(* Phones only narrow: every root in force lies inside one the PC's user   *)
(* approved, however setAllowed calls and edits interleave.                *)
THEOREM Narrowing == Spec => []RootsApproved
<1>1. IInv => RootsApproved
    BY DEF IInv
<1> QED
    BY <1>1, Always, PTL

(* A workspace in a protected area lies in one the PC's user registered    *)
(* there, through any chain of ensureWorkspace calls.                      *)
THEOREM AreasStayShut == Spec => []OpenedByPc
<1>1. IInv => OpenedByPc
    BY DEF IInv
<1> QED
    BY <1>1, Always, PTL

(* Whatever a call answers or changes was granted by the PC's user.        *)
THEOREM Granting == Spec => []OnlyGranted
<1>1. IInv => OnlyGranted
  <2> SUFFICES ASSUME IInv, NEW c \in Calls, call[c].pc = "act", NEW p \in Answered(c)
               PROVE  IF call[c].op = "setAllowed" THEN IsWithin(p, approved) ELSE Granted(p)
      BY DEF OnlyGranted, Touches
  <2> USE DEF IInv, TypeOK
  <2>1. /\ approved \in SUBSET Seq(Names) /\ opened \in SUBSET Seq(Names)
        /\ call[c].next \in SUBSET Seq(Names) /\ call[c].roots \in SUBSET Seq(Names)
        /\ call[c].wks \in SUBSET Seq(Names) /\ Paths \in SUBSET Seq(Names)
        /\ CallInv(c)
      BY RemoteFilesAssumption DEF CallRecords
  <2>2. CASE call[c].op = "setAllowed"
    <3>1. p \in call[c].next /\ IsWithin(p, call[c].roots)
        BY <2>2, <2>1 DEF Answered, CallInv, CanSetRoots, Checked
    <3> QED
        BY <2>1, <2>2, <3>1, WithinTransitive DEF CallInv, Blessed
  <2>3. CASE call[c].op # "setAllowed"
    <3>1. CASE p \in Seq(Names) /\ Reachable(p, call[c].wks, call[c].roots)
        BY <2>1, <2>3, <3>1, ReachableGranted DEF CallInv
    <3>2. call[c].op \in FileOps => Reachable(call[c].path, call[c].wks, call[c].roots) /\ call[c].path \in Paths
        BY <2>1 DEF CallInv, Checked
    <3>3. CASE call[c].op \in {"list", "workspaces"}
      <4>1. ParentOf(call[c].path) \in Seq(Names) \/ call[c].path \notin Paths
          BY RemoteFilesAssumption DEF ParentOf
      <4>2. Children(call[c].path) \cup Workspaces \subseteq Seq(Names)
          BY RemoteFilesAssumption DEF Children, Workspaces
      <4> QED
          BY <2>1, <3>1, <3>2, <3>3, <4>1, <4>2 DEF Answered, Passing, FileOps
    <3>4. CASE call[c].op \notin {"list", "workspaces"}
      <4>1. call[c].op \in FileOps
          BY <2>1, <2>3, <3>4, RemoteFilesAssumption DEF CallInv, Checked, AllOps
      <4> QED
          BY <2>1, <2>3, <3>1, <3>2, <3>4, <4>1 DEF Answered
    <3> QED
        BY <3>3, <3>4
  <2> QED
      BY <2>2, <2>3
<1> QED
    BY <1>1, Always, PTL

-----------------------------------------------------------------------------
(***************************************************************************)
(* The encoding guard over several writes.  A write about to happen that   *)
(* missed nothing took its BOM from the file as the PC's user left it, or  *)
(* from a write that had; and it saw text.                                 *)
(***************************************************************************)
NotText == {"utf16", "foreign", "cut"}

SeenInv(c) ==
    LET f == call[c].path IN
    /\ call[c].pc = "lookup" => call[c].op # "write"
    /\ /\ call[c].pc = "act" /\ call[c].op = "write" /\ ~call[c].missed
       /\ f \in Files \ raced /\ saved[f] # None
       => /\ call[c].before # None
          /\ call[c].before.bom = saved[f].bom /\ saved[f].form \notin NotText

EncInv ==
    /\ \A f \in Files : saved[f] # None => files[f] # None
    /\ EncodingKept
    /\ \A c \in Calls : SeenInv(c)

(* A write gives the text the BOM of what its probe saw.                   *)
LEMMA AsOriginalBom ==
    ASSUME NEW text \in Enc!Texts, NEW before \in Enc!Texts
    PROVE  AsOriginal(text, before).bom = before.bom
<1>1. before.bom \in BOOLEAN /\ before # None
    BY RemoteFilesAssumption DEF Enc!Texts
<1>2. \A b \in BOOLEAN : Enc!WithBom(text, b) \in Enc!Texts /\ Enc!WithBom(text, b).bom = b
    BY DEF Enc!WithBom, Enc!Texts
<1>3. \A t \in Enc!Texts : \A style : Enc!ApplyNewlineStyle(t, style).bom = t.bom
    BY DEF Enc!ApplyNewlineStyle, Enc!Texts
<1> QED
    BY <1>1, <1>2, <1>3 DEF AsOriginal, Enc!HasUtf8Bom

(* A call whose record and whose file stay as they are has seen what it    *)
(* had seen; so has one whose file was raced meanwhile.                    *)
LEMMA SeenKept ==
    ASSUME NEW c \in Calls, SeenInv(c), call'[c] = call[c], UNCHANGED saved, raced \subseteq raced'
    PROVE  SeenInv(c)'
  BY DEF SeenInv

LEMMA StepEncodes ==
    ASSUME TypeOK, EncInv, NEW c \in Calls, CallInv(c), Step(c)
    PROVE  EncInv'
<1>1. /\ call \in [Calls -> CallRecords] /\ call[c] \in CallRecords
      /\ files \in [Files -> Enc!Texts \cup {None}] /\ saved \in [Files -> Enc!Texts \cup {None}]
    BY DEF TypeOK
<1>2. SeenInv(c) /\ EncodingKept /\ \A f \in Files : saved[f] # None => files[f] # None
    BY DEF EncInv
<1>3. UNCHANGED saved /\ raced \subseteq raced'
    BY DEF Step, Arrive, Begin, Authenticate, Unauthorized, Stat, ReadRoots, ListWorkspaces,
           Probe, Lookup, Disclose, Throw, SetAllowed, Write, CreateWorkspace, histVars
<1>4. ASSUME NEW d \in Calls, d # c PROVE SeenInv(d)'
    BY <1>3, <1>4, StepOthers, SeenKept DEF EncInv
<1>5. ASSUME UNCHANGED <<files, raced>>, SeenInv(c)' PROVE EncInv'
    BY <1>2, <1>3, <1>4, <1>5 DEF EncInv, EncodingKept
<1>6. CASE Write(c)
  <2> DEFINE f == call[c].path
             new == AsOriginal(call[c].text, call[c].before)
  <2>1. call'[c] = Idle /\ call[c].pc = "act" /\ call[c].op = "write" /\ call[c].text \in Enc!Texts
      BY <1>1, <1>6 DEF Write, Answer, CallInv
  <2>2. SeenInv(c)'
      BY <2>1 DEF SeenInv, Idle, Fresh
  <2>3. CASE f \notin Files
      BY <1>5, <1>6, <2>2, <2>3 DEF Write
  <2>4. CASE f \in Files
    <3>1. files' = [files EXCEPT ![f] = new] /\ (call[c].missed => f \in raced')
          /\ call[c].before \in Enc!Texts \cup {None}
        BY <1>1, <1>6, <2>4 DEF Write, CallRecords
    <3>2. new \in Enc!Texts /\ new # None
        BY <2>1, <3>1, AsOriginalTyped, RemoteFilesAssumption
    <3> HIDE DEF new
    <3>3. ASSUME NEW g \in Files PROVE g # f => files'[g] = files[g]
        BY <1>1, <3>1
    <3>4. files'[f] = new
        BY <1>1, <2>4, <3>1
    <3>5. \A g \in Files : saved'[g] # None => files'[g] # None
        BY <1>2, <1>3, <3>2, <3>3, <3>4
    <3>6. ASSUME f \notin raced', saved[f] # None
          PROVE  new.bom = saved[f].bom /\ saved[f].form \notin NotText
      <4>1. call[c].before # None /\ call[c].before.bom = saved[f].bom /\ saved[f].form \notin NotText
          BY <1>2, <1>3, <2>1, <2>4, <3>1, <3>6 DEF SeenInv
      <4>2. new.bom = call[c].before.bom
          BY <2>1, <3>1, <4>1, AsOriginalBom DEF new
      <4> QED
          BY <4>1, <4>2
    <3>7. EncodingKept'
      <4> SUFFICES ASSUME NEW g \in Files \ raced', saved'[g] # None
                   PROVE  /\ saved'[g].form \in {"utf16", "foreign", "cut"} => files'[g] = saved'[g]
                          /\ files'[g].bom = saved'[g].bom
          BY DEF EncodingKept
      <4>1. CASE g = f
          BY <1>3, <3>4, <3>6, <4>1 DEF NotText
      <4>2. CASE g # f
          BY <1>2, <1>3, <3>3, <4>2 DEF EncodingKept
      <4> QED
          BY <4>1, <4>2
    <3> QED
        BY <1>4, <2>2, <3>5, <3>7 DEF EncInv
  <2> QED
      BY <2>3, <2>4
<1>7. CASE Probe(c)
  <2> DEFINE f == call[c].path
             there == IF f \in Files THEN files[f] ELSE None
  <2>1. UNCHANGED <<files, raced>>
      BY <1>7 DEF Probe, histVars
  <2>2. PICK before \in {there, None} :
          IF before # None /\ (Enc!HasUtf16Bom(before) \/ ~Enc!IsValidUtf8(before))
          THEN Answer(c)
          ELSE call' = [call EXCEPT ![c].pc = "act", ![c].before = before,
                                    ![c].missed = (before # there)]
      BY <1>7 DEF Probe
  <2>3. CASE Answer(c)
    <3>1. call'[c] = Idle
        BY <1>1, <2>3 DEF Answer
    <3> QED
        BY <1>5, <2>1, <3>1 DEF SeenInv, Idle, Fresh
  <2>4. CASE /\ before = None \/ (~Enc!HasUtf16Bom(before) /\ Enc!IsValidUtf8(before))
             /\ call' = [call EXCEPT ![c].pc = "act", ![c].before = before, ![c].missed = (before # there)]
    <3>1. /\ call'[c].pc = "act" /\ call'[c].before = before /\ (before # there => call'[c].missed)
          /\ call'[c].path = f
        BY <1>1, <2>4 DEF CallRecords
    <3>2. ASSUME f \in Files \ raced, saved[f] # None, before = there
          PROVE  before # None /\ before.bom = saved[f].bom /\ saved[f].form \notin NotText
      <4>1. before = files[f] /\ before # None /\ before.form \notin NotText
          BY <1>2, <2>4, <3>2 DEF Enc!HasUtf16Bom, Enc!IsValidUtf8, NotText
      <4> QED
          BY <1>2, <3>2, <4>1 DEF EncodingKept, NotText
    <3>3. SeenInv(c)'
        BY <1>3, <2>1, <3>1, <3>2 DEF SeenInv
    <3> QED
        BY <1>5, <2>1, <3>3
  <2> QED
      BY <2>2, <2>3, <2>4
<1>8. ASSUME UNCHANGED <<files, raced>>,
             call'[c].pc = "act" => call'[c].op # "write", call'[c].pc = "lookup" => call'[c].op # "write"
      PROVE  EncInv'
    BY <1>5, <1>8 DEF SeenInv
<1>9. CASE Unauthorized(c) \/ SetAllowed(c) \/ CreateWorkspace(c) \/ Disclose(c) \/ Throw(c)
  <2>1. UNCHANGED <<files, raced>> /\ Answer(c)
      BY <1>9 DEF Unauthorized, SetAllowed, CreateWorkspace, Disclose, Throw, histVars
  <2>2. call'[c] = Idle
      BY <1>1, <2>1 DEF Answer
  <2> QED
      BY <1>8, <2>1, <2>2 DEF Idle, Fresh
<1>10. CASE Arrive(c)
  <2>1. UNCHANGED <<files, raced>> /\ call'[c].pc = "auth"
      BY <1>1, <1>10, SMT DEF Arrive, Begin, Fresh
  <2> QED
      BY <1>8, <2>1
<1>11. CASE Authenticate(c) \/ Stat(c) \/ ReadRoots(c) \/ ListWorkspaces(c) \/ Lookup(c)
  <2>1. UNCHANGED <<files, raced>>
      BY <1>11 DEF Authenticate, Stat, ReadRoots, ListWorkspaces, Lookup, histVars
  <2>2. CASE Answer(c)
    <3>1. call'[c] = Idle
        BY <1>1, <2>2 DEF Answer
    <3> QED
        BY <1>8, <2>1, <3>1 DEF Idle, Fresh
  <2>3. CASE ~Answer(c)
    <3>1. CASE Authenticate(c) \/ Stat(c)
      <4>1. call'[c].pc \in {"stat", "roots"}
          BY <1>1, <2>3, <3>1 DEF Authenticate, Stat, Goto, CallRecords
      <4> QED
          BY <1>8, <2>1, <4>1
    <3>2. CASE ReadRoots(c)
      <4>1. call'[c].op = call[c].op
            /\ call'[c].pc = IF call[c].op = "setAllowed" THEN "act" ELSE "workspaces"
          BY <1>1, <2>3, <3>2 DEF ReadRoots, CallRecords
      <4> QED
          BY <1>8, <2>1, <4>1
    <3>3. CASE ListWorkspaces(c)
      <4>1. call'[c].op = call[c].op
            /\ call'[c].pc = IF call[c].op = "write" THEN "probe"
                             ELSE IF call[c].op = "ensureWorkspace" THEN "lookup" ELSE "act"
          BY <1>1, <2>3, <3>3 DEF ListWorkspaces, CallRecords
      <4> QED
          BY <1>8, <2>1, <4>1
    <3>4. CASE Lookup(c)
      <4>1. call'[c].op = call[c].op /\ call'[c].pc = "act" /\ call[c].op # "write"
          BY <1>1, <1>2, <2>3, <3>4 DEF Lookup, Goto, CallRecords, SeenInv
      <4> QED
          BY <1>8, <2>1, <4>1
    <3> QED
        BY <1>11, <3>1, <3>2, <3>3, <3>4
  <2> QED
      BY <2>2, <2>3
<1> QED
    BY <1>6, <1>7, <1>9, <1>10, <1>11 DEF Step

LEMMA PcEncodes ==
    ASSUME TypeOK, EncInv, Pc
    PROVE  EncInv'
<1>1. CASE EditRoots \/ \E d \in Dirs : Register(d) \/ Unregister(d)
  <2>1. UNCHANGED <<files, call, saved, raced>>
      BY <1>1 DEF EditRoots, Register, Unregister
  <2> QED
      BY <2>1 DEF EncInv, EncodingKept, SeenInv
<1>2. ASSUME NEW f \in Files, SaveFile(f) PROVE EncInv'
  <2>1. PICK text \in PcTexts : files' = [files EXCEPT ![f] = text] /\ saved' = [saved EXCEPT ![f] = text]
      BY <1>2 DEF SaveFile
  <2>2. files'[f] = text /\ saved'[f] = text /\ text # None
      BY <2>1, RemoteFilesAssumption DEF TypeOK
  <2>3. \A g \in Files : g # f => files'[g] = files[g] /\ saved'[g] = saved[g]
      BY <2>1 DEF TypeOK
  <2>4. raced' = raced \ {f}
      BY <1>2 DEF SaveFile
  <2>5. EncodingKept' /\ \A g \in Files : saved'[g] # None => files'[g] # None
      BY <2>2, <2>3, <2>4 DEF EncInv, EncodingKept
  <2>6. ASSUME NEW c \in Calls PROVE SeenInv(c)'
    <3>1. call[c] \in CallRecords
        BY DEF TypeOK
    <3>2. call'[c] = [call[c] EXCEPT !.missed = @ \/ (call[c].path = f /\ call[c].pc = "act")]
        BY <1>2, Zenon DEF SaveFile
    <3>3. /\ call'[c].pc = call[c].pc /\ call'[c].op = call[c].op /\ call'[c].path = call[c].path
          /\ call'[c].before = call[c].before
        BY <3>1, <3>2 DEF CallRecords
    <3>4. ~call'[c].missed => ~call[c].missed /\ (call[c].pc = "act" => call[c].path # f)
      <4>1. "missed" \in DOMAIN call[c]
          BY <3>1 DEF CallRecords
      <4>2. call'[c].missed = (call[c].missed \/ (call[c].path = f /\ call[c].pc = "act"))
          BY <3>2, <4>1, Zenon
      <4> QED
          BY <4>2, Zenon
    <3>5. SeenInv(c)
        BY DEF EncInv
    <3> QED
        BY <2>3, <2>4, <3>3, <3>4, <3>5 DEF SeenInv
  <2> QED
      BY <2>5, <2>6 DEF EncInv
<1> QED
    BY <1>1, <1>2 DEF Pc

(* A file keeps the BOM its PC's user gave it through any number of calls  *)
(* side by side, and one that is not text is never written over, unless a  *)
(* write's probe failed or missed a save.                                  *)
THEOREM EncodingSurvives == Spec => []EncodingKept
<1>1. Init => EncInv
    BY DEF Init, Idle, Fresh, EncInv, EncodingKept, SeenInv
<1>2. IInv /\ EncInv /\ [Next]_vars => EncInv'
  <2> SUFFICES ASSUME IInv, EncInv, [Next]_vars PROVE EncInv'
      OBVIOUS
  <2>1. CASE UNCHANGED vars
      BY <2>1 DEF vars, histVars, EncInv, EncodingKept, SeenInv
  <2> QED
      BY <2>1, StepEncodes, PcEncodes DEF Next, IInv
<1>3. EncInv => EncodingKept
    BY DEF EncInv
<1> QED
    BY <1>1, <1>2, <1>3, Always, PTL DEF Spec
=============================================================================
