SPECIFICATION FairSpec
CONSTANTS
    d1 = d1
    d2 = d2
    l1 = l1
    l2 = l2
    a = a
    b = b
    None = None
    Document = {d1, d2}
    Partner = {p1, p2}
    Process = {w1}
    LineId = {l1, l2}
    Text = {a, b}
    Native <- MCNative
    Readings <- MCReadings
    Fallback = TRUE
    MaxCalls = 2
    MaxCost = 2
    MaxRetries = 1
    Estimates = {1}
    Costs = {1, 3}
    MaxBegun = 2
INVARIANTS
    TypeOK
    LinkedLineFits
    BudgetStopsCalls
    RequestsAreBounded
PROPERTY
    DocumentEnds
CHECK_DEADLOCK FALSE
