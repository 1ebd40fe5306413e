SPECIFICATION TablesSpec
CONSTANTS
    Null = Null
    t1 = t1
    t2 = t2
    r1 = r1
    r2 = r2
    r3 = r3
    Tables = {t1, t2}
    Rows = {r1, r2, r3}
    Lists = {1}
    Cell = {0, 1}
    Name = {0}
    MaxRows = 2
    MaxCells = 1
    Word = 64
    Careless = {}
    Saved <- MCSaved
    Bodies <- MCBodies
SYMMETRY Objects
INVARIANTS RowsKept LocateFinds TextKept
CHECK_DEADLOCK FALSE
