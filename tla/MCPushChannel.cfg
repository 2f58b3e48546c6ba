\* Two flows or calls at once, two subscriptions, two keys, two faults.
SPECIFICATION Spec
CONSTANTS
    Callers = {c1, c2}
    Endpoints = {e1, e2}
    MaxKeys = 2
    MaxFaults = 2
    MaxEvents = 3
    None = None
    Missing = Missing
    Garbled = Garbled
INVARIANTS TypeOK KeysKept ToggleBacked OffIsSilent
SYMMETRY Symmetry
CHECK_DEADLOCK FALSE
