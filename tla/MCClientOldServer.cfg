\* A pipeline meets a server that predates tagged requests.
SPECIFICATION Spec
CONSTANTS
    Endpoint = {e1, e2}
    Old = {e1, e2}
    Statement = {s1, s2}
    Database = {}
    Rows = {0}
    Handle = {}
    Ids = {}
    Batch = 2
    LargeAt = {}
    Window = 2
    Chunks = 0
    None = None
INVARIANT OwnAnswers
