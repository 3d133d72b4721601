SPECIFICATION Spec
CONSTANTS
    r1 = r1
    r2 = r2
    old = old
    a = a
    b = b
    c = c
    None = None
    Requests <- MCRequests
    Token <- MCToken
    Legacy = {}
    Stores <- SoundStores
    TokenLife = 1
    RequestSpan = 1
    MarkTtl = 2
    MaxTime = 1
INVARIANTS SingleUse OneLiveToken NoFalseAlarm
PROPERTIES RevokedStaysDead KeepsPromise
SYMMETRY Sym
CHECK_DEADLOCK FALSE
