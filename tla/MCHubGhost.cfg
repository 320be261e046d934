SPECIFICATION Spec
CONSTANTS
    Nodes = {n1}
    Senders = {s1}
    MaxGeneration = 1
    RegisterCap = 2
    UnregisterCap = 1
    BroadcastCap = 1
    InboxCap = 1
    HasDashboard = FALSE
    NoNode = NoNode
INVARIANT
    OnlineMeansConnected
CHECK_DEADLOCK FALSE
