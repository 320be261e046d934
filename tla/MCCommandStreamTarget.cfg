SPECIFICATION Spec
CONSTANTS
    Nodes = {n1}
    Jobs = {j1}
    Handlers = {h1, h2}
    Reports = {"accepted", "restarting", "succeeded", "unknown"}
    Resolutions = {"succeeded", "failed"}
    MaxSeq = 1
    MaxTargets = 1
    NoNode = NoNode
    NoJob = NoJob
INVARIANTS
    JobStatusFresh
PROPERTIES
    OutcomeKept
CHECK_DEADLOCK FALSE
