SPECIFICATION MCSpec
CONSTANTS
    Nodes = {n1}
    Senders = {s1}
    MaxGeneration = 2
    RegisterCap = 1
    UnregisterCap = 1
    BroadcastCap = 0
    InboxCap = 0
    HasDashboard = FALSE
    NoNode = NoNode
    LastLoop = 2
INVARIANTS
    StoreClosedLast
PROPERTIES
    ShutdownEnds
    HandlersLeave
    CloseDrains
CHECK_DEADLOCK FALSE
