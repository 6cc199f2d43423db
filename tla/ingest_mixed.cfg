SPECIFICATION Spec
CONSTANTS
    d1 = d1
    d2 = d2
    l1 = l1
    l2 = l2
    a = a
    b = b
    None = None
    Document = {d1}
    Partner = {p1, p2}
    Process = {w1, w2}
    LineId = {l1, l2}
    Text = {a, b}
    Native <- MCNative
    Readings <- MCReadings
    Fallback = FALSE
    MaxCalls = 0
    MaxCost = 0
    MaxRetries = 0
    Estimates = {1}
    Costs = {1}
    MaxBegun = 2
SYMMETRY MCSymmetry
INVARIANT
    LinkedLineFits
CHECK_DEADLOCK FALSE
