\* One revocation against one validation.
CONSTANTS
    Key = {k1}
    Call = {c1}
    Check = {v1}
    None = None
    MaxKeys = 1
    KeyLife = 0
    MaxTime = 0
SPECIFICATION KeysSpec
PROPERTY RevokeIsCertain
CHECK_DEADLOCK FALSE
