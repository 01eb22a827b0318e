SPECIFICATION Spec
CONSTANTS
    Commands = {"c1"}
    Callers = {}
    Scenes <- BothPlatforms
    Vars = {"PATH", "SSL_CERT_FILE", "TOKEN", "SystemRoot", "X"}
    Pass = {"PATH", "SSL_CERT_FILE"}
    WinPass = {"SystemRoot"}
    Codes <- ByteCodes
    PipeCap = 1
    Iters = 1
INVARIANTS
    KilledTreeIsGone
CHECK_DEADLOCK FALSE
