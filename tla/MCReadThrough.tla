----------------------------- MODULE MCReadThrough -----------------------------
EXTENDS ReadThrough, TLC

CONSTANTS p1, p2, r1, w1, w2

MCProcess == {p1, p2}
MCReader == {r1}
MCWriter == {w1, w2}
MCHome == r1 :> p1 @@ w1 :> p1 @@ w2 :> p2
MCBackends == {"hybrid", "redis", "memory", "none"}
==============================================================================
