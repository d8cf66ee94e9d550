SPECIFICATION FairSpec
CONSTANTS
    NumCores = 1
    Positions = {p1, p2}
    p1 = p1
    p2 = p2
    Wfi = wfi
    Zero = zero
    Refill = 1
    W = 2
    Costs = {0, 1, 2}
    MaxTraffic = 2
    MaxOverdraft = 2
    MaxCount = 2
    Spurious = FALSE
    Lossy = FALSE
INVARIANTS
    TypeOK
    ThrottleAgreement
    IrqAccounting
    IrqLogTruthful
PROPERTIES
    PausedResumes
    OverdraftPauses
    AbsFairSpec
