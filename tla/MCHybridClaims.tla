--------------------------- MODULE MCHybridClaims ---------------------------
EXTENDS HybridClaims, TLC

CONSTANTS m1, c1, c2

MCManager == {m1}
MCCall == {c1, c2}
MCSymmetric == Permutations(MCCall)
MCModes == {[fallback |-> TRUE, toMemory |-> TRUE], [fallback |-> FALSE, toMemory |-> FALSE]}
==============================================================================
