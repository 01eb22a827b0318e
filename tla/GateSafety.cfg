SPECIFICATION AccessSpec
CONSTANTS
    Clients = {c1, c2}
    Modes = {"disabled", "preauth", "enroll"}
    Disks = {"good", "faulty", "off"}
    MaxFailures = 2
    Lockout = 1
    MaxMinted = 4
    MaxTime = 3
    Called = {"Execute", "WatchJob", "Status"}
    MaxCallTime = 0
SYMMETRY ClientSymmetry
INVARIANTS
    TypeOK
    OwnerStaysAuthorized
    RevokedStaysRevoked
    OneWinnerPerCode
    RateLimit
    OwnerIsServed
    FailClosed
PROPERTY
    ImplementsOwnership
