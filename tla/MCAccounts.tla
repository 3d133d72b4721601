------------------------------- MODULE MCAccounts -------------------------------
EXTENDS Accounts, TLC

CONSTANTS c1, c2, t1, t2, w1, w2

MCCall == {c1, c2}
MCToken == {t1, t2}
MCWord == {w1, w2}
MCFeatures == {"on", "off"}
MCTokenTtl == [k \in Kind |-> 0]
Sym == Permutations(MCCall) \cup Permutations(MCToken) \cup Permutations(MCWord)
==============================================================================
