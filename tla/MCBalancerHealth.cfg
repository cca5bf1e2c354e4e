SPECIFICATION Spec
CONSTANTS
    Endpoint = {1, 2}
    Seeds = {1, 2}
    Task = {t1, t2}
    Maintainer = M
    Key = {shared}
    SharedKey = shared
    Name <- OwnName
    Listings <- NoListings
    Policy = "random"
    IdleOrder = "lifo"
    MaxSize = 1
    EjectErrors = 2
    Discover = FALSE
    Database = TRUE
    ReadYourWrites = TRUE
    LatencyEjection = TRUE
    MinSamples = 0
    AffinityCap = 1
    Attempts = 2
    Usize = 8
    MaxReplay = 1
    SpawnMayFail = TRUE
SYMMETRY Tasks
INVARIANTS
    TypeOK
    ClosedKeepsNone
    IdleBounded
    InUseExact
    ProbingIsDue
    SomeUsable
    OneMaintainer
PROPERTIES
    OnlyProbesReEject
