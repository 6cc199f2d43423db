SPECIFICATION FairSpec
CONSTANTS
    c1 = c1
    c2 = c2
    c3 = c3
    t1 = t1
    t2 = t2
    p1 = p1
    p2 = p2
    Concept = {c1, c2}
    Product = {p1, p2}
    ReviewId = {r1, r2}
    None = None
    Seed <- MCSeed
    Tenant = {t1, t2}
    Owner <- MCOwner
    Reviewer = {v1, v3}
    Clerk = {v1}
    Verdicts = {"reject"}
    Override = {None, p2}
    Limit = 1
    MaxEdits = 1
    MaxCommands = 2
    MaxFaults = 0
PROPERTY
    ActionsAreReset
CHECK_DEADLOCK FALSE
