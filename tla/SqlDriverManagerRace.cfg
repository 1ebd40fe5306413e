SPECIFICATION Spec
CONSTANTS
    Thread = {t1, t2}
    Url = {u1}
    Conn = {c1, c2}
    Handle = {h1, h2}
    None = None
    Expire = 1
    MaxTime = 4
    MaxNest = 1
INVARIANTS UsedConnected
