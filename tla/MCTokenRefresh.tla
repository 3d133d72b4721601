--------------------------- MODULE MCTokenRefresh ---------------------------
EXTENDS TokenRefresh, TLC

CONSTANTS r1, r2, old, a, b, c

MCRequests == {r1, r2}
MCToken == {a, b, c}
MCOldToken == {old, a, b}
MCLegacy == {old}
Sym == Permutations(MCRequests)
SoundStores == [claim : {"nx", "serial"}, failOpen : {FALSE}, lossy : {FALSE}]
OtherStores == [claim : {"serial", "mark"}, failOpen : {FALSE}, lossy : BOOLEAN]
                   \cup {[claim |-> "nx", failOpen |-> TRUE, lossy |-> TRUE]}
==============================================================================
