SPECIFICATION FairSpec
CONSTANTS
    w1 = w1
    w2 = w2
    None = None
    Workers = {w1, w2}
    Strata <- MCStrata
    SetAside <- MCSetAside
    Pooled = "pooled_small"
    MinStratumSize = 2
    MinRate = 10
    MaxRate = 50
    LastCustomer = 3
    Params = {"p1"}
    Rates <- MCRates
    Hash <- MCHash
    WriteChunk = 2
    MaxFaults = 1
    MaxLostDiscards = 0
    MaxExpiries = 2
    MaxDrift = 0
INVARIANTS
    TypeOK
    CursorCovered
    ArmsMatchReference
    CountsMatchRows
PROPERTIES
    MembershipFrozen
    EventuallyComplete
