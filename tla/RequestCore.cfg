SPECIFICATION Spec
CONSTANTS
    Ranges <- SomeRanges
    UNSET = 9
    MaxSize = 3
    Block = 2
    MaxOps = 3
    MaxFails = 1
INVARIANTS OneAnswer EveryErrorLogged BodyAsPromised
 
