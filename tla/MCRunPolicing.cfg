SPECIFICATION Spec
CONSTANTS
    NumCores = 2
    Refill = 1
    W = 1
    Costs = {3}
    MaxTraffic = 3
    MaxOverdraft = 2
    MaxCount = 0
    StartPolls = 1
    ReadyPolls = 1
    DonePolls = 1
    Timely = {TRUE}
INVARIANTS
    HandshakeKept
    DoneIsInert
    HangsOnlyParked
PROPERTIES
    PolicingAsPromised
CHECK_DEADLOCK FALSE
