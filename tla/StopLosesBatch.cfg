CONSTANTS
    l1 = l1
    l2 = l2
    Setups <- JustBlocking
    Listeners = {l1, l2}
    Logs <- SomeLogs
    MaxPos = 3
    Admins = {a1}
    Conns = {c1}
    ReceiverCap = 2
    MaxConnects = 2
SPECIFICATION Spec
INVARIANTS
    DiscardedWereDelivered
CHECK_DEADLOCK FALSE
