SPECIFICATION Spec
CONSTANTS
    MaxSeq = 2
    OldBinary = b0
    NewBinary = b1
    Binaries = {b0, b1}
    Target <- MCTarget
    Released = {b1}
    Installed = b0
    Window = 2
    MaxFaults = 2
    MaxTails = 1
    Nothing = Nothing
INVARIANTS
    TypeOK
    OneRename
    RecordTruth
    CommitIsDurable
    UnknownBlocks
    WatermarkSkipsNothing
PROPERTIES
    LedgerSpec
    TaskEnds
