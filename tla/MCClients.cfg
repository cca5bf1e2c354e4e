\* Two handles over connections that hand out the same two ids, and every call
\* in progress, a failover inside a re-prepare included; sessions, pipelines and
\* streams without handles beside them.
SPECIFICATION FairClients
CONSTANTS
    Databases = {d1, d2}
    Endpoint = {e1, e2}
    Old = {}
    Statement = {s1, s2}
    Database = {}
    Rows = {0}
    Handle = {h1, h2}
    Ids = {1, 2}
    Batch = 1
    LargeAt = {1}
    Window = 1
    Chunks = 0
    None = None
INVARIANTS
    ClientTypeOK
    Positioned
    OwnAnswers
    RetriedOnce
    RetriedFaithfully
PROPERTY CallsReturn
