SPECIFICATION FairSpec
CONSTANTS
    r1 = r1
    r2 = r2
    old = old
    a = a
    b = b
    c = c
    None = None
    Requests <- MCRequests
    Token <- MCOldToken
    Legacy <- MCLegacy
    Stores <- OtherStores
    TokenLife = 1
    RequestSpan = 0
    MarkTtl = 2
    MaxTime = 0
PROPERTIES EveryRequestEnds

CHECK_DEADLOCK FALSE
