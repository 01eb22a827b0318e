SPECIFICATION Spec
CONSTANTS
    Writers = {"out"}
    StreamOf <- SimpleStreams
    Background = {"out"}
    Watchers = {"w1", "w2"}
    Main = "main"
    Free = "free"
    MemLines = 2
    SubCap = 1
    MaxLines = 1
PROPERTIES
    KilledIsNotDone
    JobEnds
    EarlyOrLateWatchEnds
CHECK_DEADLOCK FALSE
CONSTRAINT
    Small
