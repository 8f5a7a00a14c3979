CONSTANTS
    l1 = l1
    l2 = l2
    Setups <- Mixed
    Listeners = {l1, l2}
    Logs <- SomeLogs
    MaxPos = 3
    Admins = {a1}
    Conns = {c1}
    ReceiverCap = 2
    MaxConnects = 2
SPECIFICATION FairSpec
INVARIANTS
    EventStreamTypeOK
    NothingLost
    NoOvertaking
PROPERTIES
    EventsDelivered
CHECK_DEADLOCK FALSE
