--------------------------- MODULE MCRedisBreaker ---------------------------
EXTENDS RedisBreaker

CONSTANTS m1, c1, c2

MCManager == {m1}
MCCall == {c1, c2}
==============================================================================
