SPECIFICATION Spec
CONSTANTS
    Endpoint = {1, 2}
    Seeds = {1}
    Task = {t1}
    Maintainer = M
    Key = {shared}
    SharedKey = shared
    Name <- OwnName
    Listings <- SeedLeaves
    Policy = "random"
    IdleOrder = "lifo"
    MaxSize = 1
    EjectErrors = 1
    Discover = TRUE
    Database = FALSE
    ReadYourWrites = FALSE
    LatencyEjection = FALSE
    MinSamples = 0
    AffinityCap = 1
    Attempts = 2
    Usize = 8
    MaxReplay = 0
    SpawnMayFail = FALSE
INVARIANTS
    PoolKept
    InUseBounded
    SeedRemains
