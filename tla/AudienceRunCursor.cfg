SPECIFICATION Spec
CONSTANTS
    w1 = w1
    w2 = w2
    None = None
    Workers = {w1, w2}
    Strata <- MCStrata
    SetAside <- MCSetAside
    Pooled = "pooled_small"
    MinStratumSize = 2
    MinRate = 10
    MaxRate = 50
    LastCustomer = 2
    Params = {"p1", "p2"}
    Rates <- MCRates
    Hash <- MCHash
    WriteChunk = 1
    MaxFaults = 0
    MaxLostDiscards = 1
    MaxExpiries = 1
    MaxDrift = 1
SYMMETRY Symmetry
PROPERTIES
    CursorNeverRetreats
