\* A failover of one call leaves the handles of the others behind.
SPECIFICATION Spec
CONSTANTS
    Endpoint = {e1, e2}
    Old = {}
    Statement = {s1, s2}
    Database = {}
    Rows = {0}
    Handle = {h1, h2}
    Ids = {1, 2}
    Batch = 1
    LargeAt = {}
    Window = 2
    Chunks = 0
    None = None
INVARIANT HandleRuns
