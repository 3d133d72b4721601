SPECIFICATION Spec
CONSTANTS
    r1 = r1
    r2 = r2
    old = old
    a = a
    b = b
    c = c
    None = None
    Requests <- MCRequests
    Token <- MCToken
    Legacy = {}
    Stores <- SoundStores
    TokenLife = 2
    RequestSpan = 0
    MarkTtl = 1
    MaxTime = 2
INVARIANTS SingleUse
SYMMETRY Sym
CHECK_DEADLOCK FALSE
