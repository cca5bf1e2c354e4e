SPECIFICATION PartsSpec
CONSTANTS
    Thread = {t1, t2, t3}
    Conn = {c1, c2, c3, c4, c5}
    MaxSize = 2
    NoConn = NoConn
    RoleName = {1, 2, 3}
    Privilege = {"use", "admin"}
    Admin = "admin"
    Object = {"global", "t", "col", "topic"}
    Global = "global"
    Column = {"col"}
    Topic = {"topic"}
    Grantable <- MCGrantable
    MaxGrants = 1
    MaxEdges = 3
    Dialer = {1, 2}
    Mechanisms <- MCMechanisms
    Password = {"", "p", "q"}
    NoPassword = ""
    Salt = {"r", "s"}
    Iterations = {1}
    CacheLimit = 1
    MaxLegs = 3
    MaxDials = 2
    MaxChanges = 1
    Caller = {11, 12}
    Slot = {1, 2, 3}
    MaxPromises = 2
    Reader = {1, 2}
    Background = 3
    Size = {10, 20}
    REFRESH = 2
    MaxClock = 5
    Fast = 1000
    Slow = 1200000
    Peers <- MCPeers
    Floor = 50000
    Factor = 3
    SeedSamples = 3
    MinSamples = 10
    Backoff = 5
    BackoffMax = 12
    Width = 2
    Few = 24
    MaxSamples = 30
    MaxTurns = 2
    MaxEjections = 3
CHECK_DEADLOCK FALSE
INVARIANTS
    TypeOK
    FollowsInheritance
    LoginMutual
    HandedOutLive
    FlagIsWalk
    OneSlowHarmless
    SlowIsOut
PROPERTIES
    KeepsPromise
    NothingRevived
    DialsEnd
