SPECIFICATION FairSpec
CONSTANTS
    a = a
    m1 = m1
    m2 = m2
    m3 = m3
    Messages = {m1, m2, m3}
    Customers = {a}
    To <- MCTo
    Forced = {m1}
    Overriding = {m3}
    Limits <- MCLimits
    Gap = 1
    Oldest = 2
    DailyCap = 2
    Concurrency = 1
    MaxMishaps = 1
INVARIANTS
    TypeOK
    
    DailyCapHolds
PROPERTIES
    OptOutRespected
    
