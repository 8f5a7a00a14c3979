CONSTANTS
    t1 = t1
    t2 = t2
    t3 = t3
    r1 = r1
    Txs = {t1, t2, t3}
    Reqs = {}
    Actions = {}
    Hashes = {1}
    MaxInFlight = 2
    Store = "leveldb"
    Writers = 1
    Faults = {}
    QueueLength = 2
    ChainTrackingMode = "full"
    Outcomes = {"ok"}
    MaxCrashes = 1
    MaxReorgs = 0
SPECIFICATION Spec
SYMMETRY Symmetry
INVARIANTS
    NoneLeftBehind
CHECK_DEADLOCK FALSE
