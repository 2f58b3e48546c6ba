\* One phone, under fairness.
CONSTANTS
    Phones = {p1}
    Pollers = {w}
    Boot = boot
    Devices = {d1, d2}
    Codes = {k1, k2}
    NoCode = none
    Consumed = consumed
    MaxFaults = 1
    MaxRotations = 1
SPECIFICATION FairSpec
PROPERTIES EveryCallReturns
