SPECIFICATION ReadThroughSpec
CONSTANTS
    p1 = p1
    p2 = p2
    r1 = r1
    w1 = w1
    w2 = w2
    None = None
    Process <- MCProcess
    Reader <- MCReader
    Writer <- MCWriter
    Home <- MCHome
    Backends <- MCBackends
    CacheTtl = 1
    CallSpan = 1
    MaxVersion = 2
    MaxTime = 3
INVARIANTS StalenessBounded FreshAfterInvalidation
