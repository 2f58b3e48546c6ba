SPECIFICATION FairSpec
CONSTANTS
    Devices = {d1, d2}
    Endpoints = {e1, e2}
    Pruners = {p1}
    MaxRequests = 2
    MaxCorrupt = 1
    NoDevice = NoDevice
INVARIANTS TypeOK RemovedStaysRemoved
PROPERTIES QuietPruneForgets 
