SPECIFICATION Spec
CONSTANTS
    c1 = c1
    c2 = c2
    p1 = p1
    Concept = {c1, c2}
    Product = {p1}
    ReviewId = {r1, r2}
    Worker = {w1, w2}
    Reviewer = {v1}
    None = None
    Seed <- MCSeed
    Incoming <- MCPlain
    MaxLines = 2
    Deactivations = {}
    Verdicts = {"approve", "reject"}
    MaxFaults = 1
SYMMETRY MCSymmetry
INVARIANTS
    TypeOK
    OnePendingPerConcept
    OneModelCallPerReview
    LineCountedOnce
    NoUnownedLine
CHECK_DEADLOCK FALSE
