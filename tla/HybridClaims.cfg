SPECIFICATION HybridSpec
CONSTANTS
    m1 = m1
    c1 = c1
    c2 = c2
    None = None
    Manager <- MCManager
    Call <- MCCall
    Hybrid = m1
    Modes <- MCModes
    GlobalThreshold = 2
    LocalThreshold = 1
    MaxPings = 1
    MaxLoose = 1
SYMMETRY MCSymmetric
INVARIANTS MarkIsFound ClaimStands ClaimsBounded
CHECK_DEADLOCK FALSE
