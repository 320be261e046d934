SPECIFICATION Spec
CONSTANTS
    MaxSeq = 2
    MaxConns = 2
    Upgrades = {1, 2}
    Events = {"break", "crash", "restart", "cancel", "grace", "metrics"}
    MaxEvents = 1
    MaxQueue = 1
INVARIANTS
    ServerTruth
    RetiredHasCause
PROPERTY
    ExecutionSpec
CHECK_DEADLOCK FALSE
