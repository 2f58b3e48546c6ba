\* One cycle at a time and no fault, under fairness.
SPECIFICATION FairSpec
CONSTANTS
    Cycles = {c1}
    Sessions = {s1}
    Endpoints = {e1}
    DoneEnabled = FALSE
    Budget = 2
    Cooldown = 1
    Faults = {}
    AgeCap = 2
    MaxTurn = 1
    MaxFaults = 0
    MaxAbandoned = 1
    None = None
    NoView = NoView
 
PROPERTIES EventIsHandled CooldownKept
