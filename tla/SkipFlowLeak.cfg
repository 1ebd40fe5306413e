SPECIFICATION Spec
CONSTANTS
    MaxDepth = 4
    MaxArms = 0
    KillProcess = FALSE
INVARIANT SkipNeverOutsideCycle
