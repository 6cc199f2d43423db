SPECIFICATION Spec
CONSTANTS
    None = None
    A = A
    B = B
    Tenant = {A, B}
    k1 = k1
    k2 = k2
    Concept = {k1, k2}
    r1 = r1
    r2 = r2
    ReviewId = {r1, r2}
    Currency = {"EUR", "UNSPECIFIED"}
    Unspecified = "UNSPECIFIED"
    Amount <- MCAmount
    MaxAmount = 3
    Score <- MCScore
    Placeholder = 0
    Rank <- MCRank
    MaxLines = 2
    Waiting <- MCWaiting
    Caller = {c1, c2}
    clerkA = clerkA
    bossB = bossB
    Token = {clerkA, bossB}
    Keys <- MCKeys
    Arriving <- MCArriving
    p0 = p0
    Product = {p0, p1}
    SeedProducts <- MCSeedProducts
    SeedAliases <- MCSeedAliases
SYMMETRY Symmetric
INVARIANTS
    TypeOK
    TenantsStayApart
    UrgentFirst
PROPERTIES
    OnlyReviewersResolve
    LinesOnlyRaise
