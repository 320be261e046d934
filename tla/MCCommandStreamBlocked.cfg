SPECIFICATION Spec
CONSTANTS
    Nodes = {n1}
    Jobs = {j1}
    Handlers = {h1}
    Reports = {"unknown"}
    Resolutions = {"failed"}
    MaxSeq = 1
    MaxTargets = 1
    NoNode = NoNode
    NoJob = NoJob
INVARIANT
    BlockedHasCause
CHECK_DEADLOCK FALSE
