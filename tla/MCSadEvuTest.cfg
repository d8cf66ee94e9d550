SPECIFICATION Spec
CONSTANTS
    Program = "evu_test"
    Passes = 1
    Calls = 4
    MaxLogRecords = 4
    SlowCalls = TRUE
    SlowGaps = FALSE
    SlowStart = TRUE
    SlowEnd = TRUE
    Timely = FALSE
INVARIANTS
    LogNeverAhead
    EveryCallCounted
    RecordsDisjoint
CHECK_DEADLOCK FALSE
