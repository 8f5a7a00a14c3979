CONSTANTS
    t1 = t1
    r1 = r1
    Txs = {t1}
    Reqs = {r1}
    Actions = {"Delete", "Suspend", "Resume", "Update"}
    Hashes = {1}
    MaxInFlight = 1
    Store = "postgres"
    Writers = 1
    Faults = {"write", "send", "history", "timeout", "track"}
    QueueLength = 2
    ChainTrackingMode = "full"
    Outcomes = {"ok", "fail"}
    MaxCrashes = 1
    MaxReorgs = 1
SPECIFICATION Spec
INVARIANTS
    SuccessIsFinal
    StaleWakesLoop
    OneReply
CHECK_DEADLOCK FALSE
