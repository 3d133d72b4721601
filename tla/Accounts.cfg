SPECIFICATION AccountsSpec
CONSTANTS
    c1 = c1
    c2 = c2
    t1 = t1
    t2 = t2
    w1 = w1
    w2 = w2
    None = None
    Call <- MCCall
    Token <- MCToken
    Word <- MCWord
    Features <- MCFeatures
    TokenTtl <- MCTokenTtl
    MaxTime = 1
INVARIANTS SpentTokensDead LostTokensWorked OldPasswordDead LinksProven
SYMMETRY Sym
CHECK_DEADLOCK FALSE
