\* Two callers, one session.
SPECIFICATION Spec
CONSTANTS
    Sessions = {s1}
    Callers = {c1, c2}
    Ttl = 0
    StaleAfter = 0
    Logged = {"start", "fail", "step", "asked", "decided", "completed", "error", "aborted"}
    MaxClock = 2
    MaxLog = 4
    MaxFaults = 1
SYMMETRY Symmetry
INVARIANT TypeOK
PROPERTIES QuietIsConnected RunningIsEarned EndIsReported
