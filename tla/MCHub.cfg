SPECIFICATION Spec
CONSTANTS
    Nodes = {n1}
    Senders = {s1}
    MaxGeneration = 2
    RegisterCap = 2
    UnregisterCap = 1
    BroadcastCap = 1
    InboxCap = 1
    HasDashboard = TRUE
    NoNode = NoNode
INVARIANTS
    TypeOK
    WriteGoesToNewest
    OpenConnectionIsCurrent
    DashboardConverges
    NoSocketOutlivesRun
PROPERTIES
    EntryNeverGoesBack
CHECK_DEADLOCK FALSE
