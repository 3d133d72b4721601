----------------------------- MODULE CacheSetup -----------------------------
(***************************************************************************)
(* How a process gets its caches: the configuration registry filled by     *)
(* initialize(), the Redis client remembered for the life of the process,  *)
(* the managers kept once per prefix, and the factory that hands them out. *)
(* None of these calls awaits anything, so each is one step; what is hard  *)
(* is the order in which an application makes them, around an outage, a    *)
(* failed initialize() and the teardown calls.                             *)
(*                                                                         *)
(* Names follow the source.  A manager kept in a variable by the           *)
(* application is "held" by a holder; the module constants cache and       *)
(* geoCache ask the factory again at every use (UseLazily).                *)
(***************************************************************************)
EXTENDS Integers, FiniteSets, Sequences

CONSTANTS
  Inputs,        \* the names of the ToolkitConfig values the application has
  PartOf,        \* [Inputs -> the modules an input has a part for, and the settings given in it]
  CacheOf,       \* [Inputs -> CacheConfigInput]: see CacheConfigs
  Prefixes,      \* cache prefixes
  Holders,       \* variables of the application that keep a manager
  PrefixOf,      \* [Holders -> Prefixes]: the prefix each asks for
  Urls,          \* Redis endpoints
  Unset,         \* a module that is not configured, a client not yet asked for
  NoRedis,       \* no Redis endpoint: none configured, or no client for good
  MaxMade        \* bound: managers made

\* The modules of initialize(), in the order in which it configures them.
Modules == << "common", "logger", "auth", "cache", "storage", "geolocation", "cors" >>
ModuleNames == { Modules[i] : i \in DOMAIN Modules }

\* The settings the initializers look at; all others have defaults.
Settings ==
  {"jwtSecret", "cookieHostPrefix", "cookieSecure", "redis", "redis.url", "redis.token",
   "accountId", "accessKeyId", "secretAccessKey", "bucketName", "allowedOrigins"}

\* A cache configuration: caching as a whole, the prefixes whose category is
\* switched off, the endpoint, and the two levels' switches.
CacheConfigs ==
  [on : BOOLEAN, off : SUBSET Prefixes, redis : Urls \cup {NoRedis}, redisOn : BOOLEAN, memoryOn : BOOLEAN]

ASSUME InputsAssumption ==
  /\ PartOf \in [Inputs -> SUBSET (ModuleNames \cup Settings)]
  /\ CacheOf \in [Inputs -> CacheConfigs]
  /\ \A i \in Inputs : "common" \in PartOf[i] /\ (CacheOf[i].redis # NoRedis => "redis" \in PartOf[i])
  /\ PrefixOf \in [Holders -> Prefixes]
  /\ Unset \notin Inputs \cup Urls /\ NoRedis \notin Urls /\ Unset # NoRedis
  /\ MaxMade \in Nat

VARIABLES
  registry,      \* globalThis.__withwiz_config: the input each module was configured from
  disabled,      \* isRedisGloballyDisabled()
  client,        \* _redisInitialized and _redisClient: Unset, NoRedis or an endpoint
  redisMade,     \* prefixes that have a RedisCacheManager
  memory,        \* the InMemoryCacheManager registered for a prefix, 0 for none
  hybrid,        \* the HybridCacheManager registered for a prefix, 0 for none
  level,         \* of each hybrid manager made: its memory level
  attached,      \* the hybrid managers that have a Redis manager
  made,          \* managers made so far
  held,          \* what each holder keeps
  torn,          \* history: an initialize() threw or left modules out, or one was reset alone
  early,         \* history: the client was asked for before a usable configuration, or one was reset
  dated,         \* history: holders whose manager was taken unconfigured, in an outage or before a teardown
  apart          \* history: memory managers torn down without the hybrid ones

caches == << redisMade, memory, hybrid, level, attached, made >>
vars == << registry, disabled, client, redisMade, memory, hybrid, level, attached, made, held, torn, early, dated, apart >>

Nothing == [kind |-> "nothing", id |-> 0]
Noop == [kind |-> "noop", id |-> 0]
RedisManager == [kind |-> "redis", id |-> 0]
MemoryManager(n) == [kind |-> "memory", id |-> n]
HybridManager(n) == [kind |-> "hybrid", id |-> n]

\* The variables that keep a manager now.
Holding == { h \in Holders : held[h] # Nothing }

CacheSetupInit ==
  /\ registry = [m \in ModuleNames |-> Unset]
  /\ disabled = FALSE /\ client = Unset /\ redisMade = {}
  /\ memory = [p \in Prefixes |-> 0] /\ hybrid = [p \in Prefixes |-> 0]
  /\ level = [n \in 1..MaxMade |-> 0] /\ attached = {} /\ made = 0
  /\ held = [h \in Holders |-> Nothing]
  /\ torn = FALSE /\ early = FALSE /\ dated = {} /\ apart = FALSE

-----------------------------------------------------------------------------
(* The registry *)

\* What each initializer refuses; common, logger and geolocation take anything.
AuthRefuses(s) == "jwtSecret" \notin s \/ ("cookieHostPrefix" \in s /\ "cookieSecure" \notin s)
CacheRefuses(s) == "redis" \in s /\ ~({"redis.url", "redis.token"} \subseteq s)
StorageRefuses(s) == ~({"accountId", "accessKeyId", "secretAccessKey", "bucketName"} \subseteq s)
CorsRefuses(s) == "allowedOrigins" \notin s

Refused(m, s) ==
  \/ m = "auth" /\ AuthRefuses(s)
  \/ m = "cache" /\ CacheRefuses(s)
  \/ m = "storage" /\ StorageRefuses(s)
  \/ m = "cors" /\ CorsRefuses(s)

\* An initializer throws only while its module has no configuration yet: a
\* second call returns before it validates anything.
RefusedParts == [i \in Inputs |-> { m \in ModuleNames \cap PartOf[i] : Refused(m, PartOf[i]) }]
Throws(i, m) == m \in RefusedParts[i] /\ registry[m] = Unset

\* The modules initialize() reaches: all those before the first that throws.
Reached(i) ==
  LET throwing == { k \in DOMAIN Modules : Throws(i, Modules[k]) }
  IN  { Modules[k] : k \in { k \in DOMAIN Modules : \A j \in throwing : k < j } }

\* Faulty variant: one initializer does not look whether it has run before.
RegisteredAgain(i, reached) ==
  [m \in ModuleNames |->
     IF m \in reached \cap PartOf[i] /\ (registry[m] = Unset \/ m = "storage") THEN i ELSE registry[m]]

\* The first configuration of a module is kept.
Registered(i, reached) ==
  [m \in ModuleNames |->
     IF m \in reached \cap PartOf[i] /\ registry[m] = Unset THEN i ELSE registry[m]]

\* initialize(i)
Initialize(i) ==
  LET reached == Reached(i) IN
  /\ registry' = Registered(i, reached)
  /\ torn' = (torn \/ reached \cap PartOf[i] # ModuleNames)
  /\ UNCHANGED << disabled, client, caches, held, early, dated, apart >>

\* resetConfig() forgets everything, resetCache() and its like one module;
\* neither touches the client or the managers.
Reset(ms) ==
  /\ registry' = [m \in ModuleNames |-> IF m \in ms THEN Unset ELSE registry[m]]
  /\ torn' = (ms # ModuleNames)
  /\ early' = (early \/ "cache" \in ms)
  /\ dated' = IF "cache" \in ms THEN dated \cup Holding ELSE dated
  /\ UNCHANGED << disabled, client, caches, held, apart >>

Configured == registry["cache"] # Unset
Config == CacheOf[registry["cache"]]

-----------------------------------------------------------------------------
(* The Redis client *)

\* isCacheEnabled() && isRedisAvailable(): both throw without a configuration.
Usable == Configured /\ Config.on /\ Config.redis # NoRedis

IsRedisAvailableNow == ~disabled /\ Usable

\* Faulty variant: the answer of an outage is remembered too.
GetRedisClientInOutage ==
  IF client # Unset THEN client ELSE IF IsRedisAvailableNow THEN Config.redis ELSE NoRedis

\* getRedisClient(): the first answer outside an outage is final, and it is
\* NoRedis when there is no usable configuration yet (also when the lookup throws).
GetRedisClient ==
  IF disabled \/ client # Unset THEN client ELSE IF Usable THEN Config.redis ELSE NoRedis

\* The client is asked for, or not.
Asking(asked) ==
  /\ client' = IF asked THEN GetRedisClient ELSE client
  /\ early' = (early \/ (asked /\ ~disabled /\ client = Unset /\ ~Usable))

-----------------------------------------------------------------------------
(* The factory *)

\* getEffectiveCacheBackend()
GetEffectiveCacheBackend ==
  LET redisEnabled == Config.redis # NoRedis /\ Config.redisOn
  IN  CASE redisEnabled /\ ~disabled -> IF Config.memoryOn THEN "hybrid" ELSE "redis"
        [] OTHER -> IF Config.memoryOn THEN "memory" ELSE "none"

\* The kind of manager getCacheManager(p) returns now.
KindFor(p) ==
  IF ~Configured \/ ~Config.on \/ p \in Config.off \/ GetEffectiveCacheBackend = "none"
  THEN "noop" ELSE GetEffectiveCacheBackend

\* The manager itself, once it exists.
Current(p) ==
  CASE KindFor(p) = "memory" -> MemoryManager(memory[p])
    [] KindFor(p) = "hybrid" -> HybridManager(hybrid[p])
    [] KindFor(p) = "redis" -> RedisManager
    [] OTHER -> Noop

\* InMemoryCacheManager.getInstance(p): the manager of the prefix or a new one.
MemoryFor(p) == IF memory[p] = 0 THEN made + 1 ELSE memory[p]

\* Faulty variant: the hybrid manager makes a memory level of its own.
MemoryOfItsOwn(p) == made + 1

\* The memory level of a hybrid manager made for p.
LevelFor(p) == MemoryFor(p)

\* Faulty variant: an existing hybrid manager stays without the Redis manager.
WithRedisAtFirst(p, ask) == IF hybrid[p] = 0 /\ ask THEN {made + 2} ELSE {}

\* HybridCacheManager.getInstance(p) gives a Redis manager to a new instance,
\* or to an existing one that was made without.
WithRedis(p, ask) ==
  IF ~ask THEN {} ELSE IF hybrid[p] = 0 THEN {made + 2} ELSE {hybrid[p]}

\* The singletons after a manager of this kind was obtained; withRedis says
\* whether the hybrid configuration carries a Redis manager.  The first
\* RedisCacheManager of a prefix asks for the client (in its log line).
Obtain(p, kind, withRedis) ==
  LET new == kind = "hybrid" /\ hybrid[p] = 0
      wantsRedis == kind = "redis" \/ (kind = "hybrid" /\ withRedis)
  IN  /\ made + 2 <= MaxMade
      /\ Asking(wantsRedis /\ p \notin redisMade)
      /\ redisMade' = IF wantsRedis THEN redisMade \cup {p} ELSE redisMade
      /\ memory' = IF kind = "memory" \/ new THEN [memory EXCEPT ![p] = MemoryFor(p)] ELSE memory
      /\ hybrid' = IF new THEN [hybrid EXCEPT ![p] = made + 2] ELSE hybrid
      /\ level' = IF new THEN [level EXCEPT ![made + 2] = LevelFor(p)] ELSE level
      /\ attached' = attached \cup (IF kind = "hybrid" THEN WithRedis(p, withRedis) ELSE {})
      /\ made' = IF new THEN made + 2
                 ELSE IF kind = "memory" /\ memory[p] = 0 THEN made + 1 ELSE made

\* getCacheManager(prefix), its result kept in a variable.
GetCacheManager(h) ==
  LET p == PrefixOf[h] IN
  /\ Obtain(p, KindFor(p), IsRedisAvailableNow)
  /\ dated' = IF Configured /\ ~disabled THEN dated \ {h} ELSE dated \cup {h}
  /\ UNCHANGED << registry, disabled, torn, apart >>
  /\ held' = [held EXCEPT ![h] = Current(p)']

\* The application makes the hybrid manager itself, without Redis.
GetHybridAlone(p) ==
  /\ Configured
  /\ Obtain(p, "hybrid", FALSE)
  /\ UNCHANGED << registry, disabled, held, torn, dated, apart >>

\* RedisCacheManager.getInstance(p), called by the application itself: it needs no
\* configuration, and its log line may be what asks for the client first.
GetRedisAlone(p) ==
  /\ Obtain(p, "redis", FALSE)
  /\ UNCHANGED << registry, disabled, held, torn, dated, apart >>

\* cache.get(...) or geoCache.get(...): the lazy object asks the factory and uses
\* what it gets, which asks for the client if it reaches Redis.
UseLazily(p) ==
  /\ Obtain(p, KindFor(p), IsRedisAvailableNow)
  /\ UNCHANGED << registry, disabled, held, torn, dated, apart >>

\* An operation of a held manager: a Redis manager asks for the client when
\* caching is on and there is no outage, a hybrid one only if it has one.
UseHeld(h) ==
  /\ held[h].kind = "redis" \/ held[h].id \in attached
  /\ Configured /\ Config.on
  /\ Asking(~disabled)
  /\ UNCHANGED << registry, disabled, caches, held, torn, dated, apart >>

\* getRedisClient() or logRedisInitialization(), called by the application itself.
AskClient ==
  /\ Asking(TRUE)
  /\ UNCHANGED << registry, disabled, caches, held, torn, dated, apart >>

-----------------------------------------------------------------------------
(* Outages and teardown *)

\* notifyRedisError() reached the threshold, by errors of this module's client or
\* of a Redis manager of the application's own; or tryReconnectRedisGlobally()
\* succeeded, with a client it makes for the purpose.
Outage ==
  /\ Configured
  /\ disabled => Config.redis # NoRedis
  /\ disabled' = ~disabled
  /\ UNCHANGED << registry, client, caches, held, torn, early, dated, apart >>

\* HybridCacheManager.destroyAll(): both kinds of manager.
DestroyAll ==
  /\ hybrid' = [p \in Prefixes |-> 0] /\ memory' = [p \in Prefixes |-> 0]
  /\ dated' = dated \cup Holding /\ apart' = FALSE
  /\ UNCHANGED << registry, disabled, client, redisMade, level, attached, made, held, torn, early >>

\* HybridCacheManager.clearInstances(): the memory levels stay registered.
ClearHybrids ==
  /\ hybrid' = [p \in Prefixes |-> 0]
  /\ dated' = dated \cup Holding
  /\ UNCHANGED << registry, disabled, client, redisMade, memory, level, attached, made, held, torn, early, apart >>

\* InMemoryCacheManager.destroyAll() or clearInstances() alone.
DestroyMemories ==
  /\ memory' = [p \in Prefixes |-> 0]
  /\ dated' = dated \cup Holding
  /\ apart' = (apart \/ \E p \in Prefixes : hybrid[p] # 0)
  /\ UNCHANGED << registry, disabled, client, redisMade, hybrid, level, attached, made, held, torn, early >>

CacheSetupNext ==
  \/ \E i \in Inputs : Initialize(i)
  \/ \E ms \in {{"cache"}, ModuleNames} : Reset(ms)
  \/ \E h \in Holders : GetCacheManager(h) \/ UseHeld(h)
  \/ \E p \in Prefixes : GetHybridAlone(p) \/ GetRedisAlone(p) \/ UseLazily(p)
  \/ AskClient \/ Outage
  \/ DestroyAll \/ ClearHybrids \/ DestroyMemories

CacheSetupSpec == CacheSetupInit /\ [][CacheSetupNext]_vars

-----------------------------------------------------------------------------
(* Properties *)

\* The modules are configured from one input, unless an initialize() threw
\* halfway or left modules out, or a module was reset by itself: a failed
\* initialize() repeated with another input leaves a mixture, and the first
\* input's modules win.
OneConfiguration ==
  ~torn => \A m, n \in ModuleNames :
             registry[m] # Unset /\ registry[n] # Unset => registry[m] = registry[n]

\* The client the process has is the one its configuration names.  An outage
\* never costs the process its client: only asking before a usable
\* configuration, or a reset, leaves it with none or with an old one.
ClientOfConfig == ~early /\ client # Unset => Usable /\ client = Config.redis

MemoryOf(manager) == IF manager.kind = "hybrid" THEN level[manager.id] ELSE manager.id

\* One memory level per prefix: whatever order managers were obtained in, and
\* with Redis up or down, the hybrid manager of a prefix and the memory manager
\* handed out in an outage are over the same entries, so that what one wrote the
\* other reads.  Only destroying the memory managers alone splits them.
OneMemoryLevel ==
  ~apart => \A p \in Prefixes : hybrid[p] # 0 => level[hybrid[p]] = memory[p]

\* A manager kept in a variable is the one the factory would hand out now (and
\* has its Redis manager), unless it was taken before the configuration, in an
\* outage or before a teardown, or Redis is away now: an eagerly taken
\* manager of an outage stays a memory one for ever, the lazy object does not.
HeldIsCurrent ==
  \A h \in Holders \ dated : held[h] # Nothing /\ ~disabled =>
    /\ held[h] = Current(PrefixOf[h])
    /\ held[h].kind = "hybrid" => held[h].id \in attached
=============================================================================
