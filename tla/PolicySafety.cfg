CONSTANTS
    t1 = t1
    r1 = r1
    Txs = {t1}
    Reqs = {r1}
    Actions = {"Suspend"}
    Hashes = {1}
    MaxInFlight = 1
    Store = "leveldb"
    Writers = 1
    Faults = {"write"}
    QueueLength = 2
    ChainTrackingMode = "full"
    Outcomes = {"ok", "fail"}
    MaxCrashes = 1
    MaxReorgs = 1
SPECIFICATION Spec
INVARIANTS
    TypeOK
    OutcomeMatchesChain
    ReceiptStored
    RepliesReportStore
PROPERTIES
    Lifecycle
CHECK_DEADLOCK FALSE
