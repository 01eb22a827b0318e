SPECIFICATION Spec
CONSTANTS
    Writers = {"out", "err"}
    StreamOf <- SimpleStreams
    Background = {"err"}
    Watchers = {"w1"}
    Main = "main"
    Free = "free"
    MemLines = 1
    SubCap = 1
    MaxLines = 2
INVARIANTS
    TypeOK
    WatchComplete
    DoneIsFinal
    FinishIsLast
    StreamOrder
CHECK_DEADLOCK FALSE
CONSTRAINT
    Spared
