SPECIFICATION Spec
CONSTANTS
    NumCores = 2
    Positions = {p1}
    p1 = p1
    Wfi = wfi
    Zero = zero
    Refill = 1
    W = 1
    Costs = {3}
    MaxTraffic = 3
    MaxOverdraft = 2
    MaxCount = 1
    Spurious = TRUE
    Lossy = TRUE
INVARIANTS
    SafeReturn
    HandshakeInv
PROPERTIES
    CommandsObeyed
    AbsSpec
