SPECIFICATION FairSpec
CONSTANTS
    Program = "sad_profile"
    Passes = 2
    Calls = 3
    MaxLogRecords = 2
    SlowCalls = TRUE
    SlowGaps = TRUE
    SlowStart = TRUE
    SlowEnd = TRUE
    Timely = TRUE
INVARIANTS
    TypeOK
    CountersExact
    RecordsExact
    ResultComplete
PROPERTIES
    PassesEnd
CHECK_DEADLOCK FALSE
