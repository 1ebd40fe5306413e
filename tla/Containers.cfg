SPECIFICATION ContainersSpec
CONSTANTS
    NoPair = NoPair
    p1 = p1
    p2 = p2
    p3 = p3
    p4 = p4
    Key = {"a", "b", "c"}
    Value = {1}
    Code <- MCCode
    Allocates <- MCAllocates
    Pairs = {p1, p2, p3, p4}
    MaxFused = 3
    Element = {1, 2}
    MaxIndex = 3
    Others <- MCOthers
    Unready = {}
SYMMETRY Memory
INVARIANTS ListAgrees  CyclesVisit
 
CHECK_DEADLOCK FALSE
