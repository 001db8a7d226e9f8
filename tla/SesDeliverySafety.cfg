SPECIFICATION FairSpec
CONSTANTS
    c1 = c1
    c2 = c2
    c3 = c3
    None = None
    Calls = {c1, c2, c3}
    MaxFaults = 1
    MaxDuplicates = 1
INVARIANTS
    TypeOK
    AtMostOnce
    SentNamesTheMessage
PROPERTIES
    EventsApplyInOrder
    AcceptanceIsRecorded
CHECK_DEADLOCK FALSE
