SPECIFICATION Spec
CONSTANTS
    NumCores = 3
    Weight <- MCWeight
    Refill = 1
    W = 1
    HalfWord = 3
    CountMax <- MCCountMax
    HalfToken = 2
    MaxLog = 0
    HalfTimer = 1
    MaxTime = 0
    Iterations = 1
    Kinds <- MCWritesOfTwo
    MaxAccesses = 1
INVARIANTS
    ChargedForOwn
CHECK_DEADLOCK FALSE
