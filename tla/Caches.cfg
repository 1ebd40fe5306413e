SPECIFICATION CachesSpec
CONSTANTS
    None = None
    Thread = {t1}
    Url = {u1, u2}
    Conn = {c1, c2}
    Handle = {h1, h2}
    Expire = 1
    MaxTime = 4
    MaxNest = 2
    Main = Main
    Part = Part
    External = External
    Method = Method
    ClassName = {"A", "B", "C"}
    MethodName = {"m", "n", "auto"}
    File <- MCFile
    Text <- MCText
    Plan <- MCPlan
    MaxEdits = 1
    MaxRequests = 1
INVARIANTS ExclusiveUse CacheHoldsUsable UsedConnected FreshStylesheet WholeWhenNested  ClassesWhole
CHECK_DEADLOCK FALSE
