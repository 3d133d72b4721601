\* One key and one call more than the plan allows, and one tick past the expiry.
CONSTANTS
    Key = {k1, k2}
    Call = {c1, c2}
    Check = {v1}
    None = None
    MaxKeys = 1
    KeyLife = 0
    MaxTime = 1
SYMMETRY MCSymmetry
SPECIFICATION KeysSpec
INVARIANTS
    OvershootBounded
PROPERTIES
    RevocationHolds
    ExpiredKeysFail
    RotationFailsClean
CHECK_DEADLOCK FALSE
