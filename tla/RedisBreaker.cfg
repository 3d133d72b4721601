SPECIFICATION BreakerFairSpec
CONSTANTS
    m1 = m1
    c1 = c1
    c2 = c2
    None = None
    Manager <- MCManager
    Call <- MCCall
    GlobalThreshold = 2
    LocalThreshold = 2
    MaxPings = 2
    MaxLoose = 1
INVARIANTS NeverStuck TripsAtThreshold
PROPERTIES Recovers
CHECK_DEADLOCK FALSE
