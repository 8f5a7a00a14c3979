CONSTANTS
    t1 = t1
    t2 = t2
    Txs = {t1, t2}
    Reqs = {}
    Actions = {}
    Hashes = {1}
    MaxInFlight = 1
    Store = "postgres"
    Writers = 2
    Faults = {}
    QueueLength = 2
    ChainTrackingMode = "light"
    Outcomes = {"ok"}
    MaxCrashes = 0
    MaxReorgs = 1
SPECIFICATION FairSpec
PROPERTIES
    Resolves
