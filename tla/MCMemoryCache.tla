----------------------------- MODULE MCMemoryCache -----------------------------
EXTENDS MemoryCache, TLC

CONSTANTS k1, k2, k3, big, huge

MCKey == {k1, k2, k3}
MCValue == {big, huge}
MCSize == big :> 2 @@ huge :> 4
MCPolicies == {"lru", "fifo", "ttl"}
MCPatterns == {{k} : k \in MCKey} \cup {MCKey}
MCTtls == {1}
Sym == Permutations(MCKey)
==============================================================================
