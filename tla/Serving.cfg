SPECIFICATION ServingSpec
CONSTANTS
    Conn = {c1, c2, c3}
    Fd = {1, 2}
    Max = 1
    Modes = {"sequental", "threaded", "parallel"}
    MaxFaults = 1
    INVALID = INVALID
    None = None
    MaxDepth = 2
    MaxArms = 1
    Thread = {"a", "b"}
    Script <- SomeScripts
    Input = 2
    Capacity = 1
INVARIANTS CounterExact LimitHeld RefusedOnlyWhenBusy OwnSocket ProgramsHeard
PROPERTIES ImplementsLimit Drains InterruptNoticed WaitsEnd
CHECK_DEADLOCK FALSE
