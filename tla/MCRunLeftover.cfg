SPECIFICATION FairOneLeftoverSpec
CONSTANTS
    NumCores = 3
    Refill = 1
    W = 1
    Costs = {0}
    MaxTraffic = 2
    MaxOverdraft = 2
    MaxCount = 0
    StartPolls = 1
    ReadyPolls = 1
    DonePolls = 1
    Timely = {TRUE, FALSE}
INVARIANTS
    TypeOK
    NoStaleInterrupt
PROPERTIES
    SignalReachesWorkers
    PolicingStartsClean
CHECK_DEADLOCK FALSE
