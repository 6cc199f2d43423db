SPECIFICATION Spec
CONSTANTS
    d1 = d1
    d2 = d2
    l1 = l1
    l2 = l2
    a = a
    b = b
    None = None
    Document = {d2}
    Partner = {p1, p2}
    Process = {w1, w2}
    LineId = {l1, l2}
    Text = {a, b}
    Native <- MCNative
    Readings <- MCReadings
    Fallback = TRUE
    MaxCalls = 2
    MaxCost = 2
    MaxRetries = 0
    Estimates = {1}
    Costs = {1}
    MaxBegun = 4
SYMMETRY MCSymmetry
INVARIANTS
    OneReadingStored
    FinishedIsLinked
CHECK_DEADLOCK FALSE
