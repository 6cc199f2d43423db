SPECIFICATION Spec
CONSTANTS
    None = None
    Text <- MCText
    Product = {1, 2, 3}
    Tokens <- MCTokens
    Lexical <- MCLexical
    Trigram <- MCTrigram
    Terms <- MCTerms
    Attributes <- MCAttributes
    Category <- MCCategory
    Semantic <- MCSemantic
    SemanticWeight = 2
    TopK = 2
    ProposalThreshold = 600000
    MarginThreshold = 80000
    AutoThreshold = 920000
    AutoMargin = 80000
    Answers <- MCAnswers
    MaxChanges = 1
INVARIANTS
    TypeOK
    LoopFindsBest
    RouteIgnoresRowOrder
    NamedProductIsUnambiguous
PROPERTIES
    RivalsOnlyHinder
    LearningKeepsRoutes
CHECK_DEADLOCK FALSE
