SPECIFICATION Spec
CONSTANTS
    w1 = w1
    w2 = w2
    None = None
    Missing = Missing
    Workers = {w1, w2}
    Sources = {"listener"}
    Attempts <- MCAttempts
    Workflows <- MCWorkflows
    Kind <- MCKind
    first = first
    second = second
    Texts = {first, second}
    Contents <- MCContents
    Nights = {1, 2}
    MaxActs = 2
    MaxMishaps = 2
SYMMETRY Symmetry
INVARIANTS
    TypeOK
    EachEmailOnce
    InOrder

    
CHECK_DEADLOCK FALSE
