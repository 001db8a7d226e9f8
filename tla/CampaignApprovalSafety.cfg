SPECIFICATION FairSpec
CONSTANTS
    e1 = e1
    e2 = e2
    None = None
    Executions = {e1, e2}
    Attempts = 2
    MaxRequests = 2
    MaxEdits = 1
    MaxFaults = 1
INVARIANTS
    TypeOK
    
    
PROPERTIES
    ApprovalNotReplaced
    ClaimIsPlanned
CHECK_DEADLOCK FALSE
