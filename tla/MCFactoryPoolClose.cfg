SPECIFICATION Spec
CONSTANTS
    Thread = {t1, t2}
    Conn = {c1, c2, c3}
    MaxSize = 1
    NoConn = NoConn
INVARIANT ClosedKeepsNone
