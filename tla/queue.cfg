SPECIFICATION Spec
CONSTANTS
    c1 = c1
    c2 = c2
    c3 = c3
    t1 = t1
    t2 = t2
    p1 = p1
    p2 = p2
    Concept = {c1, c2, c3}
    Product = {p1, p2}
    ReviewId = {r1, r2}
    None = None
    Seed <- MCSeed
    Tenant = {t1, t2}
    Owner <- MCOwner
    Reviewer = {v1, v2}
    Clerk = {v1, v2}
    Verdicts = {"approve"}
    Override = {None}
    Limit = 1
    MaxEdits = 2
    MaxCommands = 3
    MaxFaults = 1
SYMMETRY MCSymmetry
INVARIANTS
    QueueTypeOK
    ResolvedOnce
    
CHECK_DEADLOCK FALSE
