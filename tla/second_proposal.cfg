SPECIFICATION Spec
CONSTANTS
    c1 = c1
    c2 = c2
    p1 = p1
    p2 = p2
    Concept = {c1, c2}
    Product = {p1, p2}
    ReviewId = {r1, r2}
    Worker = {w1, w2}
    Reviewer = {v1}
    None = None
    Seed <- MCSeed
    Incoming <- MCPlain
    MaxLines = 2
    Deactivations = {}
    Verdicts = {"approve"}
    MaxFaults = 0
SYMMETRY MCSymmetry
INVARIANT
    OneProposalPerUnknown
CHECK_DEADLOCK FALSE
