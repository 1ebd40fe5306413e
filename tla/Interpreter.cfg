SPECIFICATION InterpreterSpec
CONSTANTS
    MaxDepth = 3
    MaxArms = 2
    KillProcess = FALSE
    LoopLimit = 3
    RecursionLimit = 5
    Programs <- MCPrograms
    Builds <- MCBuilds
    Parts <- MCPiece
    Langs <- MCLangs
    Other <- MCOther
    Dictionary <- MCDictionary
    Blanks <- MCWhite
    Delimiter <- MCDelimiter
    MaxLength = 5
    Twice <- AllTwice
    MaxStates = 100
INVARIANTS ThrownOncePerInterrupt   BuildsAgree StringsKept TokensAgree
PROPERTY ImplementsInterruption
CHECK_DEADLOCK FALSE
