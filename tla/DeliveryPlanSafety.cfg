SPECIFICATION FairSpec
CONSTANTS
    LastCustomer = 4
    Control = {2}
    COHORT_PAGE = 2
    ChunkSize = 2
    MAX_RECOVERIES = 1
    MaxCrashes = 0
    MaxFaults = 1
    MaxLosses = 0
    MaxPutOffs = 1
    MaxPauses = 0
INVARIANTS
    TypeOK
    NobodyDropped
    
    SentMeansAllAccepted

    
    
CHECK_DEADLOCK FALSE
