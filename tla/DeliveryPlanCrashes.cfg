SPECIFICATION Spec
CONSTANTS
    LastCustomer = 3
    Control = {2}
    COHORT_PAGE = 2
    ChunkSize = 2
    MAX_RECOVERIES = 1
    MaxCrashes = 1
    MaxFaults = 0
    MaxLosses = 1
    MaxPutOffs = 1
    MaxPauses = 1
INVARIANTS
    ControlUntouched
PROPERTIES
    ReconciliationComplete
CHECK_DEADLOCK FALSE
