----------------------------- MODULE HybridClaims -----------------------------
(***************************************************************************)
(* What the two levels of a HybridCacheManager (backend "hybrid") make of  *)
(* the marks a token store keeps in it: one key that is set, claimed       *)
(* (setIfNotExists) and looked up (get, exists) by the calls of one        *)
(* process while Redis comes and goes behind the breakers of RedisBreaker. *)
(*                                                                         *)
(* A command takes effect in Redis at some moment before its reply, or     *)
(* before the error that stands for its lost reply.  The memory cache is   *)
(* synchronous.  Only the presence of the key matters: it is neither       *)
(* deleted nor expired, the memory cache is below its capacity, so that it *)
(* evicts nothing, and the process does not restart.                       *)
(***************************************************************************)
EXTENDS RedisBreaker

CONSTANTS Hybrid, \* the manager
          Modes   \* the configurations to consider

\* fallback: fallbackOnRedisError; toMemory: writeToMemory.
ModeConfig == [fallback : BOOLEAN, toMemory : BOOLEAN]

ASSUME HybridConstantsOK == Hybrid \in Manager /\ Modes \subseteq ModeConfig

VARIABLES
    mode,            \* the configuration in use
    redis, memory,   \* is the key present there?
    reply,           \* per call: what Redis answered, "none" while it did not
    result,          \* history, per call: the outcome of the last one
    kept,            \* history: a set or a claim has succeeded
    wins,            \* history: the claims that succeeded, by where
    began,           \* history, per call: kept, and a claim won in Redis, at its start
    calm             \* history: no command has failed or found no client

dataVars == <<mode, redis, memory, reply, result, kept, wins, began, calm>>
hybridVars == <<breakerVars, dataVars>>

Methods == {"get", "exists", "set", "setIfNotExists"}
Lookups == {"get", "exists"}
NoWins == [redis |-> 0, memory |-> 0]

HybridInit ==
    /\ BreakerInit
    /\ mode \in Modes
    /\ redis = FALSE /\ memory = FALSE
    /\ reply = [c \in Call |-> "none"]
    /\ result = [c \in Call |-> "none"]
    /\ kept = FALSE /\ wins = NoWins
    /\ began = [c \in Call |-> [kept |-> FALSE, claimed |-> FALSE]]
    /\ calm = TRUE

------------------------------------------------------------------------------
(* Helpers.                                                                *)

Began(c) == began' = [began EXCEPT ![c] = [kept |-> kept, claimed |-> wins.redis > 0]]

\* Call c returns r.
Return(c, r) ==
    /\ result' = [result EXCEPT ![c] = r]
    /\ kept' = (kept \/ r \in {"stored", "won"})
    /\ reply' = [reply EXCEPT ![c] = "none"]

Won(where) == wins' = [wins EXCEPT ![where] = @ + 1]

\* Faulty variant: the fallback does not look before it stores.
InMemoryBlindly(c, o) ==
    \/ /\ o \in Lookups
       /\ Return(c, IF memory THEN "hit" ELSE "miss")
       /\ UNCHANGED <<memory, wins>>
    \/ /\ o = "set" /\ Return(c, "stored")
       /\ memory' = TRUE /\ UNCHANGED wins
    \/ /\ o = "setIfNotExists" /\ Return(c, "won") /\ Won("memory")
       /\ memory' = TRUE

\* Method o served by the memory cache, in one go.
InMemory(c, o) ==
    \/ /\ o \in Lookups
       /\ Return(c, IF memory THEN "hit" ELSE "miss")
       /\ UNCHANGED <<memory, wins>>
    \/ /\ o = "set" /\ Return(c, "stored")
       /\ memory' = TRUE /\ UNCHANGED wins
    \/ /\ o = "setIfNotExists" /\ memory /\ Return(c, "lost")
       /\ UNCHANGED <<memory, wins>>
    \/ /\ o = "setIfNotExists" /\ ~memory /\ Return(c, "won") /\ Won("memory")
       /\ memory' = TRUE

------------------------------------------------------------------------------
(* Actions.                                                                *)

\* getEffectiveBackend is "memory": a breaker is open.
CallMemory(c, o) ==
    /\ op[c] = "none" /\ ~RedisUsable(Hybrid)
    /\ Began(c) /\ InMemory(c, o)
    /\ UNCHANGED <<breakerVars, mode, redis, calm>>

\* Faulty variant: set writes to memory once Redis has answered, and so never.
CallRedisOnly(c, o) ==
    /\ Send(c, Hybrid, o)
    /\ Began(c) /\ result' = [result EXCEPT ![c] = "none"]
    /\ UNCHANGED <<mode, redis, memory, reply, kept, wins, calm>>

\* The command is sent; a set writes to memory in the same turn.
CallRedis(c, o) ==
    /\ Send(c, Hybrid, o)
    /\ Began(c) /\ result' = [result EXCEPT ![c] = "none"]
    /\ memory' = (memory \/ (o = "set" /\ mode.toMemory))
    /\ UNCHANGED <<mode, redis, reply, kept, wins, calm>>

\* There is no client: set returns all the same, having written to memory.
CallInVain(c, o) ==
    /\ SendInVain(c, Hybrid, o)
    /\ Began(c) /\ calm' = FALSE
    /\ \/ /\ o = "set" /\ Return(c, "stored")
          /\ memory' = (memory \/ mode.toMemory)
       \/ /\ o # "set" /\ result' = [result EXCEPT ![c] = "none"]
          /\ UNCHANGED <<memory, reply, kept>>
    /\ UNCHANGED <<mode, redis, wins>>

\* Redis executes the command.  A claim that stored the key may be answered
\* "no" all the same: the client repeats a command whose reply got lost.
Execute(c) ==
    /\ op[c] # "none" /\ thrown[c] = "none" /\ reply[c] = "none" /\ up
    /\ \/ /\ op[c] \in Lookups
          /\ reply' = [reply EXCEPT ![c] = IF redis THEN "yes" ELSE "no"]
          /\ UNCHANGED redis
       \/ /\ op[c] = "set"
          /\ reply' = [reply EXCEPT ![c] = "yes"] /\ redis' = TRUE
       \/ /\ op[c] = "setIfNotExists"
          /\ \/ ~redis /\ reply' = [reply EXCEPT ![c] = "yes"]
             \/ reply' = [reply EXCEPT ![c] = "no"]
          /\ redis' = TRUE
    /\ UNCHANGED <<breakerVars, mode, memory, result, kept, wins, began, calm>>

\* Faulty variant: a claim won in Redis leaves no trace in memory.
RememberNothing == UNCHANGED memory

\* A claim that stored the key in Redis is written to memory too.
RememberClaim == memory' = (memory \/ mode.toMemory)

\* The reply arrives.  A miss in Redis is looked up in memory.
Reply(c) ==
    /\ reply[c] # "none" /\ Answered(c, reply[c] = "yes")
    /\ \/ op[c] \in Lookups /\ reply[c] = "no" /\ InMemory(c, op[c])
       \/ /\ op[c] \in Lookups /\ reply[c] = "yes" /\ Return(c, "hit")
          /\ UNCHANGED <<memory, wins>>
       \/ op[c] = "set" /\ Return(c, "stored") /\ UNCHANGED <<memory, wins>>
       \/ /\ op[c] = "setIfNotExists" /\ reply[c] = "yes"
          /\ Return(c, "won") /\ Won("redis")
          /\ RememberClaim
       \/ /\ op[c] = "setIfNotExists" /\ reply[c] = "no" /\ Return(c, "lost")
          /\ UNCHANGED <<memory, wins>>
    /\ UNCHANGED <<mode, redis, began, calm>>

\* The command fails, before or after it took effect; a set has swallowed the
\* error and returns.
Fail(c) ==
    /\ Failed(c)
    /\ \/ op[c] = "set" /\ Return(c, "stored")
       \/ /\ op[c] # "set" /\ reply' = [reply EXCEPT ![c] = "none"]
          /\ UNCHANGED <<result, kept>>
    /\ calm' = FALSE
    /\ UNCHANGED <<mode, redis, memory, wins, began>>

\* The error arrives.  A lookup and, if allowed, a claim fall back to memory.
FallBack(c) ==
    /\ Handled(c)
    /\ \/ op[c] \in Lookups /\ InMemory(c, op[c])
       \/ op[c] = "setIfNotExists" /\ mode.fallback /\ InMemory(c, op[c])
       \/ /\ op[c] = "setIfNotExists" /\ ~mode.fallback /\ Return(c, "threw")
          /\ UNCHANGED <<memory, wins>>
    /\ UNCHANGED <<mode, redis, began, calm>>

HybridNext ==
    \/ \E c \in Call, o \in Methods : CallMemory(c, o) \/ CallRedis(c, o) \/ CallInVain(c, o)
    \/ \E c \in Call : Execute(c) \/ Reply(c) \/ Fail(c) \/ FallBack(c)
    \/ Background /\ UNCHANGED dataVars

HybridSpec == HybridInit /\ [][HybridNext]_hybridVars

------------------------------------------------------------------------------
(* Properties.                                                             *)

\* Types, and: the commands of this cache are its four methods, sent on behalf
\* of the one manager.
HybridTypeOK ==
    /\ BreakerTypeOK
    /\ mode \in Modes
    /\ redis \in BOOLEAN /\ memory \in BOOLEAN /\ kept \in BOOLEAN
    /\ calm \in BOOLEAN
    /\ reply \in [Call -> {"none", "yes", "no"}]
    /\ result \in [Call -> {"none", "hit", "miss", "stored", "won", "lost", "threw"}]
    /\ wins \in [{"redis", "memory"} -> Nat]
    /\ began \in [Call -> [kept : BOOLEAN, claimed : BOOLEAN]]
    /\ \A c \in Call : op[c] \in Methods \cup {"none"} /\ by[c] \in {Hybrid, None}

\* With writeToMemory a mark, once a set or a claim has returned, is found by
\* every later lookup of the process, through outages and recoveries, even if
\* Redis never got it: a used or revoked token is not taken for a good one.
MarkIsFound ==
    mode.toMemory => \A c \in Call : result[c] = "miss" => ~began[c].kept

\* With writeToMemory a claim that Redis granted stands: no later claim is
\* granted by either level, also when Redis is gone by then.
ClaimStands ==
    mode.toMemory => \A c \in Call : result[c] = "won" => ~began[c].claimed

\* Each level grants a claim once at most, however the calls interleave, and
\* memory none before the first command has failed: a key that is claimed
\* twice costs an outage in between, and is never claimed three times.
ClaimsBounded ==
    /\ wins.redis <= 1 /\ wins.memory <= 1
    /\ calm => wins.memory = 0
==============================================================================
