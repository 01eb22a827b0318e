SPECIFICATION Spec
CONSTANTS
    Jobs = {"j1"}
    MaxSeq = 2
    ChannelCap = 2
    BatchLen = 2
    MemLines = 1
    ReplayCap = 1
    Limit = 1
    Times = {1}
    Callers = {"c1"}
PROPERTY
    PruneKeepsRecent
CHECK_DEADLOCK FALSE
