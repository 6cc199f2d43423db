SPECIFICATION FairSpec
CONSTANTS
    None = None
    Malformed = Malformed
    Format = {"delimited", "sheet", "json", "text", "column"}
    Rows <- MCRows
    Written <- MCWritten
    Answers <- MCAnswers
    Financials <- MCFinancials
    MaxRows <- MCMaxRows
    MaxOwed = 1010000000
INVARIANTS
    TypeOK
    NothingIsLost
    PlainAmountsAreRead
    TotalsChain
PROPERTY
    ReadingEnds
CHECK_DEADLOCK FALSE
