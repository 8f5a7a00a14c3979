CONSTANTS
    Setups <- EventsOnly
    Faults = {}
    R = 2
    Txs = {}
    Workers = {}
    UponEntry = FALSE
    BlockCap = 5
    NoteCap = 1
    MaxBlocks = 5
    MaxAdds = 1
    MaxChecks = 2
    MaxSessions = 1
SPECIFICATION FairSpec
PROPERTIES
    EventsConfirmed
CHECK_DEADLOCK FALSE
