\* Two concurrent calls of each operation, and the PC's edits between their steps.
SPECIFICATION Spec
CONSTANTS
    Calls = {k1, k2}
    Names <- MCNames
    HardNames <- MCHardNames
    HardLast <- MCHardLast
    SoftNames <- MCSoftNames
    DotDot = ".."
    Paths <- MCPaths
    Dirs <- MCDirs
    Files <- MCFiles
    Requests <- MCRequests
    Resolve <- MCResolve
    Root <- W
    RootsFile <- R
    PhoneRoots <- MCPhoneRoots
    PcRoots <- MCPcRoots
    PcTexts <- MCPcTexts
    PhoneTexts <- MCPhoneTexts
    Ops = {"allowed", "setAllowed", "workspaces", "ensureWorkspace", "list", "read", "write"}
    MaxEvents = 4
    None = None
INVARIANTS TypeOK RootsApproved OpenedByPc OnlyGranted EncodingKept
CHECK_DEADLOCK FALSE
SYMMETRY Symmetry
