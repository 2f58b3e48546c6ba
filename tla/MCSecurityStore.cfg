\* Two phones against the startup call and the rotation watcher.
CONSTANTS
    Phones = {p1, p2}
    Pollers = {w}
    Boot = boot
    Devices = {d1, d2}
    Codes = {k1, k2, k3}
    NoCode = none
    Consumed = consumed
    MaxFaults = 2
    MaxRotations = 1
SPECIFICATION Spec
SYMMETRY Symmetry
INVARIANTS TypeOK SingleUse StoreExact TxtHonest
PROPERTIES StartupDelivers ServiceImplemented
