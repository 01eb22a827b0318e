SPECIFICATION Spec
CONSTANTS
    Jobs = {j1, j2}
    MaxSeq = 2
    ChannelCap = 2
    BatchLen = 2
SYMMETRY JobSymmetry
INVARIANTS
    TypeOK
    FinishAfterLines
    RunningIsOurs
    NoOrphanLines
CHECK_DEADLOCK FALSE
