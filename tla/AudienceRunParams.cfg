SPECIFICATION Spec
CONSTANTS
    w1 = w1
    w2 = w2
    None = None
    Workers = {w1, w2}
    Strata <- MCStrata
    SetAside <- MCSetAside
    Pooled = "pooled_small"
    MinStratumSize = 2
    MinRate = 10
    MaxRate = 50
    LastCustomer = 3
    Params = {"p1", "p2"}
    Rates <- MCRates
    Hash <- MCHash
    WriteChunk = 2
    MaxFaults = 2
    MaxLostDiscards = 0
    MaxExpiries = 0
    MaxDrift = 0
SYMMETRY Symmetry
INVARIANTS
    OneRanking
PROPERTIES
    ImplementsFrozenCohort
