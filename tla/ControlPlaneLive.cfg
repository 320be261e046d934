SPECIFICATION FairSpec
CONSTANTS
    MaxSeq = 2
    MaxConns = 2
    Upgrades = {1, 2}
    Events = {"restart"}
    MaxEvents = 1
    MaxQueue = 4
PROPERTY
    CommandsArrive
CHECK_DEADLOCK FALSE
