\* A session looked at twice.
SPECIFICATION Spec
CONSTANTS
    Sessions = {s1}
    Callers = {c1}
    Ttl = 0
    StaleAfter = 1
    Logged = {"start", "ok", "fail", "step", "asked", "decided", "completed", "error", "aborted"}
    MaxClock = 3
    MaxLog = 3
    MaxFaults = 0
PROPERTY StaleIsStale
