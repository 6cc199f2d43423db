SPECIFICATION FairSpec
CONSTANTS
    c1 = c1
    c2 = c2
    p1 = p1
    p2 = p2
    Concept = {c1, c2}
    Product = {p1, p2}
    ReviewId = {r1, r2}
    Worker = {w1}
    Reviewer = {v1}
    None = None
    Seed <- MCSeed
    Incoming <- MCMixed
    MaxLines = 2
    Verdicts = {"approve", "reject"}
    MaxFaults = 0
    Deactivations = {p1}
INVARIANTS
    ApprovedKnowledgeWins
    FlaggedTextStaysHome
    DecisionFitsReview
PROPERTIES
    KnowledgeIsReviewed
    PlaceholderSettles
    ApprovalReachesTrail
CHECK_DEADLOCK FALSE
