SPECIFICATION Spec
CONSTANTS
    Writers = {"out"}
    StreamOf <- SimpleStreams
    Background = {"out"}
    Watchers = {"w1"}
    Main = "main"
    Free = "free"
    MemLines = 2
    SubCap = 2
    MaxLines = 1
PROPERTY
    WatchEnds
CHECK_DEADLOCK FALSE
