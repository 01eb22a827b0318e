SPECIFICATION Spec
CONSTANTS
    Jobs = {j1, j2}
    MaxSeq = 1
    ChannelCap = 2
    BatchLen = 2
PROPERTIES
    LineLands
    TerminalIsStable
    ImplementsHistory
CHECK_DEADLOCK FALSE
