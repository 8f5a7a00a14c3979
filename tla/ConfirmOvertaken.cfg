CONSTANTS
    Setups <- EventsOnly
    Faults = {}
    R = 1
    Txs = {}
    Workers = {}
    UponEntry = FALSE
    BlockCap = 3
    NoteCap = 1
    MaxBlocks = 3
    MaxAdds = 1
    MaxChecks = 1
    MaxSessions = 1
SPECIFICATION Spec
INVARIANTS
    ConfirmedInOrder
CHECK_DEADLOCK FALSE
