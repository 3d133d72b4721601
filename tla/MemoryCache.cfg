SPECIFICATION MemorySpec
CONSTANTS
    k1 = k1
    k2 = k2
    k3 = k3
    big = big
    huge = huge
    None = None
    Key <- MCKey
    Value <- MCValue
    Size <- MCSize
    CounterSize = 1
    Ttls <- MCTtls
    DefaultTTL = 1
    MaxSize = 2
    MaxBytes = 3
    Policies <- MCPolicies
    Patterns <- MCPatterns
    MaxTime = 2
    MaxCount = 2
INVARIANTS MemoryInv ReadsLatest KeptUnlessEvicted ClaimsTruthful MissIsFinal
SYMMETRY Sym
CHECK_DEADLOCK FALSE
