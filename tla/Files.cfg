SPECIFICATION Spec
CONSTANTS
    Callers = {r1, r2}
    Nodes <- AllNodes
    Root <- Workspace
    Requests <- Asked
    Before <- Initial
    Leads <- LinkTo
    Faults = TRUE
SYMMETRY CallerSymmetry
INVARIANTS
    PutResult
    QuerySound
    
CHECK_DEADLOCK FALSE
