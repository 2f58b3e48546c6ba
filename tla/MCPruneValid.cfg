\* A prune nobody disturbed, the security store readable.
SPECIFICATION Spec
CONSTANTS
    Devices = {d1, d2}
    Endpoints = {e1, e2}
    Pruners = {p1}
    MaxRequests = 3
    MaxCorrupt = 0
    NoDevice = NoDevice
PROPERTY PruneSparesValid
