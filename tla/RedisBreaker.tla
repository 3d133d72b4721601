----------------------------- MODULE RedisBreaker -----------------------------
(***************************************************************************)
(* The two circuit breakers in front of Redis in one process: the global   *)
(* one of cache-redis.ts, and the local one every HybridCacheManager keeps *)
(* (backend "hybrid").  Commands run concurrently: a reply may arrive long *)
(* after a breaker opened or closed, and it still resets or counts.        *)
(*                                                                         *)
(* An error that RedisCacheManager has reported and thrown on reaches the  *)
(* HybridCacheManager in a later turn, and is reported by it once more.    *)
(* Each call fails with an error object of its own.                        *)
(*                                                                         *)
(* A timer handle that is overwritten without clearTimeout leaves a timer  *)
(* nobody can cancel any more ("loose").  Error messages, times and        *)
(* metrics are left out, and so are delete, deletePattern and expire,      *)
(* whose outcome touches no breaker.                                       *)
(***************************************************************************)
EXTENDS Integers, FiniteSets

CONSTANTS Manager,         \* the HybridCacheManager instances of the process
          Call,            \* Redis commands that can be in flight together
          None,            \* no manager
          GlobalThreshold, \* redisErrorThresholdGlobal
          LocalThreshold,  \* redisErrorThresholdLocal
          MaxPings,        \* bound on the reconnect attempts in flight
          MaxLoose         \* bound on the loose timers of a manager

ASSUME BreakerConstantsOK ==
    /\ None \notin Manager
    /\ GlobalThreshold \in Nat \ {0} /\ LocalThreshold \in Nat \ {0}
    /\ MaxPings \in Nat \ {0} /\ MaxLoose \in Nat

VARIABLES
    up,        \* environment: every command and PING is answered
    disabled, errors, timer, pings,
               \* global: isDisabled, errorCount, a reconnect timer is pending,
               \* attempts in flight
    off, failures, armed, loose, probes,
               \* per manager: isRedisTemporarilyDisabled, redisErrorCount,
               \* the timer of the handle is pending, pending timers no handle
               \* refers to, attempts in flight
    destroyed, \* managers whose destroy() was called
    op, by,    \* per call: the command in flight, and on whose behalf
    thrown,    \* per call: the error on its way to the manager, if any: of the
               \* command, or of RedisCacheManager for want of a client
    counted,   \* countedRedisErrors: the calls whose latest error is in it
    failed     \* history: failures since an answer closed the global breaker

globalVars == <<disabled, errors, timer, pings>>
localVars == <<off, failures, armed, loose, probes>>
callVars == <<op, by, thrown, counted>>
breakerVars == <<up, globalVars, localVars, destroyed, callVars, failed>>

Ops == {"get", "exists", "set", "setIfNotExists", "increment", "checkConnection"}

\* The methods whose errors RedisCacheManager passes on.
Throwing == {"get", "exists", "setIfNotExists"}

BreakerInit ==
    /\ up = TRUE
    /\ disabled = FALSE /\ errors = 0 /\ timer = FALSE /\ pings = 0
    /\ off = [m \in Manager |-> FALSE]
    /\ failures = [m \in Manager |-> 0]
    /\ armed = [m \in Manager |-> FALSE]
    /\ loose = [m \in Manager |-> 0]
    /\ probes = [m \in Manager |-> 0]
    /\ destroyed = {}
    /\ op = [c \in Call |-> "none"]
    /\ by = [c \in Call |-> None]
    /\ thrown = [c \in Call |-> "none"]
    /\ counted = {}
    /\ failed = 0

------------------------------------------------------------------------------
(* What the handlers are made of.                                          *)

\* getEffectiveBackend is not "memory".
RedisUsable(m) == ~disabled /\ ~off[m]

\* notifyRedisError for an error not seen before, with disableRedisGlobally.
CountError ==
    /\ errors' = errors + 1
    /\ disabled' = (disabled \/ errors + 1 >= GlobalThreshold)
    /\ timer' = (timer \/ (~disabled /\ errors + 1 >= GlobalThreshold))
    /\ UNCHANGED pings

\* Faulty variant: every report counts, as before countedRedisErrors.
NotifyEveryReport(c) ==
    counted' = counted \cup {c} /\ CountError

\* notifyRedisError for the error of call c.
NotifyRedisError(c) ==
    \/ c \in counted /\ UNCHANGED <<globalVars, counted>>
    \/ c \notin counted /\ counted' = counted \cup {c} /\ CountError

ResetRedisGlobalState ==
    disabled' = FALSE /\ errors' = 0 /\ timer' = FALSE

\* A new timer takes the handle; a pending one is not cleared.
LoseHandle(m) == IF armed[m] THEN loose[m] + 1 ELSE loose[m]
Arm(m) ==
    /\ armed' = [armed EXCEPT ![m] = TRUE]
    /\ loose' = [loose EXCEPT ![m] = LoseHandle(m)]

\* handleRedisError: count, and disableRedisTemporarily at the threshold.
HandleRedisError(m) ==
    /\ failures' = [failures EXCEPT ![m] = @ + 1]
    /\ \/ /\ failures[m] + 1 >= LocalThreshold /\ ~off[m]
          /\ off' = [off EXCEPT ![m] = TRUE]
          /\ Arm(m)
       \/ /\ failures[m] + 1 < LocalThreshold \/ off[m]
          /\ UNCHANGED <<off, armed, loose>>
    /\ UNCHANGED probes

ResetRedisErrorState(m) ==
    /\ off' = [off EXCEPT ![m] = FALSE]
    /\ failures' = [failures EXCEPT ![m] = 0]
    /\ armed' = [armed EXCEPT ![m] = FALSE]
    /\ UNCHANGED <<loose, probes>>

\* A call begins; an error it may end with is a new object.
BeginCall(c, m, o, error) ==
    /\ op' = [op EXCEPT ![c] = o]
    /\ by' = [by EXCEPT ![c] = m]
    /\ thrown' = [thrown EXCEPT ![c] = error]
    /\ counted' = counted \ {c}

EndCall(c) ==
    /\ op' = [op EXCEPT ![c] = "none"]
    /\ by' = [by EXCEPT ![c] = None]
    /\ thrown' = [thrown EXCEPT ![c] = "none"]

------------------------------------------------------------------------------
(* Commands.                                                               *)

\* A method of manager m sends its command to Redis.
Send(c, m, o) ==
    /\ op[c] = "none" /\ RedisUsable(m) /\ loose[m] < MaxLoose
    /\ BeginCall(c, m, o, "none")
    /\ UNCHANGED <<up, globalVars, localVars, destroyed, failed>>

\* It finds no Redis client: not configured, or asked for before it was.  set
\* and increment return as if they had worked; checkConnection does nothing.
SendInVain(c, m, o) ==
    /\ op[c] = "none" /\ RedisUsable(m) /\ loose[m] < MaxLoose /\ ~up
    /\ \/ o \in Throwing /\ BeginCall(c, m, o, "client") /\ UNCHANGED localVars
       \/ o \in {"set", "increment"} /\ ResetRedisErrorState(m) /\ UNCHANGED callVars
    /\ UNCHANGED <<up, globalVars, destroyed, failed>>

\* Redis answers, be it late; a read hits or misses.  RedisCacheManager closes
\* the global breaker after get, set and setIfNotExists, and the manager its
\* own after anything but a miss.
Answered(c, hit) ==
    /\ op[c] # "none" /\ thrown[c] = "none"
    /\ \/ /\ op[c] \in {"get", "set", "setIfNotExists"}
          /\ ResetRedisGlobalState /\ failed' = 0
       \/ /\ op[c] \in {"exists", "increment", "checkConnection"}
          /\ UNCHANGED <<disabled, errors, timer, failed>>
    /\ \/ /\ hit \/ op[c] \notin {"get", "exists"}
          /\ ResetRedisErrorState(by[c])
       \/ ~hit /\ op[c] \in {"get", "exists"} /\ UNCHANGED localVars
    /\ EndCall(c)
    /\ UNCHANGED <<up, pings, destroyed, counted>>

\* The command fails: RedisCacheManager reports the error and, from most
\* methods, throws it on.  set and increment swallow it, so their manager
\* takes them for a success; increment does not even report it.
Failed(c) ==
    /\ op[c] # "none" /\ thrown[c] = "none" /\ ~up
    /\ \/ /\ op[c] \in Throwing
          /\ NotifyRedisError(c) /\ failed' = failed + 1
          /\ thrown' = [thrown EXCEPT ![c] = "command"]
          /\ UNCHANGED <<localVars, op, by>>
       \/ /\ op[c] = "set"
          /\ NotifyRedisError(c) /\ failed' = failed + 1
          /\ ResetRedisErrorState(by[c]) /\ EndCall(c)
       \/ /\ op[c] = "increment"
          /\ ResetRedisErrorState(by[c]) /\ EndCall(c)
          /\ UNCHANGED <<globalVars, counted, failed>>
       \/ /\ op[c] = "checkConnection" /\ EndCall(c)
          /\ UNCHANGED <<globalVars, localVars, counted, failed>>
    /\ UNCHANGED <<up, destroyed>>

\* The error arrives at the manager, which counts it and reports it: again, if
\* the command had failed.
Handled(c) ==
    /\ thrown[c] # "none"
    /\ HandleRedisError(by[c]) /\ NotifyRedisError(c)
    /\ failed' = IF thrown[c] = "client" THEN failed + 1 ELSE failed
    /\ EndCall(c)
    /\ UNCHANGED <<up, destroyed>>

------------------------------------------------------------------------------
(* Reconnection.                                                           *)

\* The global timer fires: tryReconnectRedisGlobally sends a PING, or sets the
\* timer again if Redis is not configured.
Reconnect ==
    /\ timer /\ pings < MaxPings
    /\ \/ timer' = FALSE /\ pings' = pings + 1
       \/ ~up /\ UNCHANGED <<timer, pings>>
    /\ UNCHANGED <<up, disabled, errors, localVars, destroyed, callVars, failed>>

\* Faulty variant: a failed attempt is not followed by another.
ReconnectEndsOnce ==
    /\ pings > 0
    /\ \/ ResetRedisGlobalState /\ failed' = 0
       \/ ~up /\ UNCHANGED <<disabled, errors, timer, failed>>
    /\ pings' = pings - 1
    /\ UNCHANGED <<up, localVars, destroyed, callVars>>

\* The PING returns; scheduleNextReconnect replaces a pending timer.
ReconnectEnds ==
    /\ pings > 0
    /\ \/ ResetRedisGlobalState /\ failed' = 0
       \/ ~up /\ timer' = TRUE /\ UNCHANGED <<disabled, errors, failed>>
    /\ pings' = pings - 1
    /\ UNCHANGED <<up, localVars, destroyed, callVars>>

\* Which pending timer of m fires: the one of the handle, or a loose one.
TimerFires(m) ==
    \/ armed[m] /\ armed' = [armed EXCEPT ![m] = FALSE] /\ UNCHANGED loose
    \/ loose[m] > 0 /\ loose' = [loose EXCEPT ![m] = @ - 1] /\ UNCHANGED armed

\* tryReconnectRedis asks checkConnection, which pings if there is a client.
Probe(m) ==
    /\ ~disabled /\ probes[m] < MaxPings
    /\ TimerFires(m)
    /\ probes' = [probes EXCEPT ![m] = @ + 1]
    /\ UNCHANGED <<up, globalVars, off, failures, destroyed, callVars, failed>>

\* No client, as while the global breaker is open: the attempt fails at once and
\* the handle gets the next timer, also when another one is still pending.
ProbeInVain(m) ==
    /\ disabled \/ ~up
    /\ \/ armed[m] /\ UNCHANGED <<armed, loose>>
       \/ /\ loose[m] > 0 /\ armed' = [armed EXCEPT ![m] = TRUE]
          /\ loose' = [loose EXCEPT ![m] = LoseHandle(m) - 1]
    /\ UNCHANGED <<up, globalVars, off, failures, probes, destroyed, callVars, failed>>

\* Faulty variant: the timer is not set again when the ping fails.
ProbeEndsOnce(m) ==
    /\ probes[m] > 0
    /\ \/ /\ off' = [off EXCEPT ![m] = FALSE]
          /\ failures' = [failures EXCEPT ![m] = 0]
          /\ armed' = [armed EXCEPT ![m] = FALSE]
          /\ UNCHANGED loose
       \/ ~up /\ UNCHANGED <<off, failures, armed, loose>>
    /\ probes' = [probes EXCEPT ![m] = @ - 1]
    /\ UNCHANGED <<up, globalVars, destroyed, callVars, failed>>

ProbeEnds(m) ==
    /\ probes[m] > 0
    /\ \/ /\ off' = [off EXCEPT ![m] = FALSE]
          /\ failures' = [failures EXCEPT ![m] = 0]
          /\ armed' = [armed EXCEPT ![m] = FALSE]
          /\ UNCHANGED loose
       \/ ~up /\ Arm(m) /\ UNCHANGED <<off, failures>>
    /\ probes' = [probes EXCEPT ![m] = @ - 1]
    /\ UNCHANGED <<up, globalVars, destroyed, callVars, failed>>

\* destroy clears the timer of the handle, and nothing else.
Destroy(m) ==
    /\ m \notin destroyed
    /\ destroyed' = destroyed \cup {m}
    /\ armed' = [armed EXCEPT ![m] = FALSE]
    /\ UNCHANGED <<up, globalVars, off, failures, loose, probes, callVars, failed>>

\* Redis goes down or comes back.
Outage ==
    /\ up' = ~up
    /\ UNCHANGED <<globalVars, localVars, destroyed, callVars, failed>>

\* What happens without a call.
Background ==
    \/ Reconnect \/ ReconnectEnds
    \/ \E m \in Manager : Probe(m) \/ ProbeInVain(m) \/ ProbeEnds(m) \/ Destroy(m)
    \/ Outage

BreakerNext ==
    \/ \E c \in Call :
           \/ \E hit \in BOOLEAN : Answered(c, hit)
           \/ Failed(c) \/ Handled(c)
           \/ \E m \in Manager, o \in Ops : Send(c, m, o) \/ SendInVain(c, m, o)
    \/ Background

BreakerSpec == BreakerInit /\ [][BreakerNext]_breakerVars

\* Timers fire and a PING returns one way or the other.  Nothing is assumed
\* about the commands: users may stop calling.
BreakerFairness ==
    /\ WF_breakerVars(Reconnect) /\ WF_breakerVars(ReconnectEnds)
    /\ \A m \in Manager : WF_breakerVars(Probe(m)) /\ WF_breakerVars(ProbeEnds(m))

BreakerFairSpec == BreakerSpec /\ BreakerFairness

------------------------------------------------------------------------------
(* Properties.                                                             *)

\* Types, and: a command in flight belongs to a manager, which its reply will
\* reset or count against.
BreakerTypeOK ==
    /\ up \in BOOLEAN
    /\ disabled \in BOOLEAN /\ errors \in Nat /\ timer \in BOOLEAN /\ pings \in Nat
    /\ off \in [Manager -> BOOLEAN]
    /\ failures \in [Manager -> Nat]
    /\ armed \in [Manager -> BOOLEAN]
    /\ loose \in [Manager -> Nat]
    /\ probes \in [Manager -> Nat]
    /\ destroyed \subseteq Manager
    /\ op \in [Call -> Ops \cup {"none"}]
    /\ by \in [Call -> Manager \cup {None}]
    /\ thrown \in [Call -> {"none", "command", "client"}]
    /\ counted \subseteq Call
    /\ \A c \in Call : /\ op[c] # "none" => by[c] \in Manager
                       /\ thrown[c] # "none" => op[c] \in Throwing
    /\ failed \in Nat

\* An open breaker is on its way back: a timer is pending or an attempt in
\* flight, whatever late replies did in between.  Only destroy() gives up.
NeverStuck ==
    /\ disabled => timer \/ pings > 0
    /\ \A m \in Manager \ destroyed :
           off[m] => armed[m] \/ loose[m] > 0 \/ probes[m] > 0

\* Redis is given up exactly when GlobalThreshold failures have come in with no
\* answer that resets the count in between.  A failed command is one failure, of
\* the moment RedisCacheManager learns of it, although it is reported once more
\* when the error arrives at the HybridCacheManager, and answers to other calls
\* may have closed the breaker by then; a call that found no client is one too,
\* although only the HybridCacheManager reports it.
TripsAtThreshold == disabled <=> failed >= GlobalThreshold

\* Once Redis stays up, every breaker closes and stays closed, even if nobody
\* uses the cache.
Recovers ==
    <>[]up => <>[](~disabled /\ \A m \in Manager \ destroyed : ~off[m])
==============================================================================
