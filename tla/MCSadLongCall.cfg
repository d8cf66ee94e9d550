SPECIFICATION Spec
CONSTANTS
    Program = "evu_test"
    Passes = 1
    Calls = 3
    MaxLogRecords = 4
    SlowCalls = TRUE
    SlowGaps = FALSE
    SlowStart = TRUE
    SlowEnd = TRUE
    Timely = TRUE
INVARIANTS
    LongCallKeepsItsTime
CHECK_DEADLOCK FALSE
