CONSTANTS
    Setups <- AllSetups
    Faults = {"number", "hash", "receipt", "gap", "timeout", "forget", "listener"}
    R = 1
    Txs = {t1}
    Workers = {w1, w2}
    UponEntry = FALSE
    BlockCap = 1
    NoteCap = 1
    MaxBlocks = 3
    MaxAdds = 1
    MaxChecks = 2
    MaxSessions = 2
SPECIFICATION Spec
INVARIANTS
    TypeOK
    ConfirmedFinal
PROPERTIES
    ConfirmationsLinked
CHECK_DEADLOCK FALSE
SYMMETRY WorkerSymmetry
