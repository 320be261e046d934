SPECIFICATION Spec
CONSTANTS
    MaxSeq = 2
    MaxConns = 2
    Upgrades = {1, 2}
    Events = {"break"}
    MaxEvents = 1
    MaxQueue = 4
INVARIANT
    AbortedRedelivered
CHECK_DEADLOCK FALSE
