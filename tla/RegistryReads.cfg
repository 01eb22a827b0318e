SPECIFICATION Spec
CONSTANTS
    Jobs = {"j1", "j2"}
    MaxSeq = 2
    ChannelCap = 1
    BatchLen = 2
    MemLines = 2
    ReplayCap = 1
    Limit = 1
    Times = {1, 2}
    Callers = {"c1"}
CONSTRAINT Small
INVARIANTS
    TypeOK
    StreamHistory
    StoreReplayComplete
    ListSound
PROPERTY
    DoneIsLast
CHECK_DEADLOCK FALSE
