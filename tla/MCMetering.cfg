SPECIFICATION Spec
CONSTANTS
    NumCores = 2
    Weight <- MCWeight
    Refill = 1
    W = 1
    HalfWord = 3
    CountMax <- MCCountMax
    HalfToken = 2
    MaxLog = 1
    HalfTimer = 2
    MaxTime = 2
    Iterations = 2
    Kinds <- MCKinds
    MaxAccesses = 2
INVARIANTS
    ChargedOnce
    StageNeverOverReports
    ElapsedExact
    BucketExact
    LogTruthful
PROPERTIES
    LossOnlyInWindow
CHECK_DEADLOCK FALSE
