SPECIFICATION Spec
CONSTANTS
    e1 = e1
    e2 = e2
    None = None
    Executions = {e1}
    Attempts = 1
    MaxRequests = 2
    MaxEdits = 0
    MaxFaults = 0
PROPERTIES
    CancelledStartsNoDelivery
CHECK_DEADLOCK FALSE
