SPECIFICATION Spec
CONSTANTS
    Commands = {"c1"}
    Callers = {"r1"}
    Scenes <- BothPlatforms
    Vars = {"PATH", "SSL_CERT_FILE", "TOKEN", "SystemRoot", "X"}
    Pass = {"PATH", "SSL_CERT_FILE"}
    WinPass = {"SystemRoot"}
    Codes <- ByteCodes
    PipeCap = 1
    Iters = 1
INVARIANTS
    EnvConfined
    StatusHonest
    KillTakesTree
    NothingAbandoned
    WaitFinal
PROPERTIES
    KillEnds
    WaitEnds
    StdinReleased
CHECK_DEADLOCK FALSE
