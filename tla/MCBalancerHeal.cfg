SPECIFICATION HealingSpec
CONSTANTS
    Endpoint = {1, 2}
    Seeds = {1, 2}
    Task = {t1}
    Maintainer = M
    Key = {shared, user}
    SharedKey = shared
    Name <- OwnName
    Listings <- NoListings
    Policy = "random"
    IdleOrder = "lifo"
    MaxSize = 1
    EjectErrors = 1
    Discover = FALSE
    Database = FALSE
    ReadYourWrites = TRUE
    LatencyEjection = FALSE
    MinSamples = 0
    AffinityCap = 1
    Attempts = 1
    Usize = 8
    MaxReplay = 0
    SpawnMayFail = FALSE
    Second = t2
PROPERTIES
    ReadsFollowWrites
    OpenWindowsKept
    EjectedIsProbed
    CallsReturn
