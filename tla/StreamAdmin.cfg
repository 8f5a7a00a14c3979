CONSTANTS
    s1 = s1
    s2 = s2
    l1 = l1
    l2 = l2
    a = a
    b = b
    q1 = q1
    q2 = q2
    q3 = q3
    Streams = {s1, s2}
    Listeners = {l1, l2}
    Names = {a, b}
    Signature = a
    Requests = {q1, q2, q3}
    Stores <- SomeStores
    MaxTrouble = 2
SPECIFICATION Spec
SYMMETRY Symmetric
INVARIANTS
    ManagementTypeOK
    ListenerNamesUnique
    ListenerIndexed
    NoOrphanListeners
    StreamNamesUnique
    
    DeletedIsGone
CHECK_DEADLOCK FALSE
