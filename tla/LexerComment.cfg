SPECIFICATION InterpreterSpec
CONSTANTS
    MaxDepth = 1
    MaxArms = 0
    KillProcess = FALSE
    LoopLimit = 3
    RecursionLimit = 5
    Programs = {}
    Builds <- MCBuilds
    Parts <- MCPiece
    Langs <- MCLangs
    Other <- MCOther
    Dictionary <- MCDictionary
    Blanks <- MCWhite
    Delimiter <- MCDelimiter
    MaxLength = 0
    Twice <- MCComments
    MaxStates = 100
INVARIANT CommentEnds
CHECK_DEADLOCK FALSE
