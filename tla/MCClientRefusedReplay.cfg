\* The new server refuses the session that reconnect puts back.
SPECIFICATION Spec
CONSTANTS
    Endpoint = {e1, e2}
    Old = {}
    Statement = {s1, s2}
    Database = {d1}
    Rows = {0}
    Handle = {}
    Ids = {}
    Batch = 1
    LargeAt = {}
    Window = 2
    Chunks = 0
    None = None
INVARIANT SessionKept
