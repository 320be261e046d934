SPECIFICATION Spec
CONSTANTS
    Nodes = {n1}
    Jobs = {j1, j2}
    Handlers = {h1}
    Reports = {"unknown"}
    Resolutions = {"failed"}
    MaxSeq = 2
    MaxTargets = 2
    NoNode = NoNode
    NoJob = NoJob
SYMMETRY Symmetry
INVARIANTS
    TypeOK
    SequenceUnique
    NoSequenceLost
    UnknownIsolated
PROPERTIES
    WatermarkSkipsNothing
    LedgerSpec
CHECK_DEADLOCK FALSE
