\* A batch whose second statement is too large for a frame.
SPECIFICATION Spec
CONSTANTS
    Endpoint = {e1, e2}
    Old = {}
    Statement = {s1, s2}
    Database = {}
    Rows = {0}
    Handle = {}
    Ids = {}
    Batch = 2
    LargeAt = {2}
    Window = 2
    Chunks = 0
    None = None
INVARIANT OwnAnswers
