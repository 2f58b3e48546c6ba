SPECIFICATION FairSpec
CONSTANTS
    Cycles = {c1, c2, c3}
    Budget = 2
    MaxAbandoned = 3
    MaxHangs = 2

INVARIANTS TypeOK OverlapBound
PROPERTY DispatcherRecovers
