\* Two cycles of one session; an abandoned cycle, a crash, a failed save, a
\* subscription that cannot be encrypted for, or a week.
SPECIFICATION Spec
CONSTANTS
    Cycles = {c1, c2}
    Sessions = {s1}
    Endpoints = {e1}
    DoneEnabled = FALSE
    Budget = 2
    Cooldown = 1
    Faults = {"overrun", "crash", "throw", "save", "week"}
    AgeCap = 2
    MaxTurn = 0
    MaxFaults = 1
    MaxAbandoned = 2
    None = None
    NoView = NoView
INVARIANTS TypeOK DuplicateBound 
PROPERTY LockImplemented
SYMMETRY Symmetry
