SPECIFICATION FairSpec
CONSTANTS
    NumCores = 2
    Refill = 1
    W = 1
    Costs = {2}
    MaxTraffic = 2
    MaxOverdraft = 2
    MaxCount = 0
    StartPolls = 1
    ReadyPolls = 1
    DonePolls = 1
    Timely = {TRUE}
PROPERTIES
    WorkersEnd
CHECK_DEADLOCK FALSE
