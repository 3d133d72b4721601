------------------------------ MODULE ReadThrough ------------------------------
(***************************************************************************)
(* withCache over the managers that cache-factory chooses, and the         *)
(* invalidation of one key whose source changes: several processes, each   *)
(* with a memory level and breakers of its own, share one Redis.           *)
(*                                                                         *)
(* A command to Redis takes effect at one moment and its caller goes on at *)
(* that moment; a command that fails may have taken effect all the same.   *)
(* The breakers are those of RedisBreaker seen from afar: they may open at *)
(* a failure, close at a success, and close by themselves.  Neither level  *)
(* evicts (MemoryCache does), and "no value" is a value like others,       *)
(* because withCache wraps null.                                           *)
(***************************************************************************)
EXTENDS Integers

CONSTANTS
    Process,
    Reader, Writer, \* the calls of withCache, and of an update with invalidation
    Home,           \* per call: its process
    Backends,       \* the backends the environment may configure
    CacheTtl,
    CallSpan,       \* how long a call of withCache can take
    None,
    MaxVersion,     \* bound of the model: the last version of the source
    MaxTime         \* bound of the model: the last instant

ASSUME ReadThroughConstantsOK ==
    /\ Home \in [Reader \cup Writer -> Process]
    /\ Reader \cap Writer = {}
    /\ Backends \subseteq {"hybrid", "redis", "memory", "none"}
    /\ CacheTtl \in Nat \ {0} /\ CallSpan \in Nat
    /\ MaxVersion \in Nat /\ MaxTime \in Nat
    /\ None \notin Nat /\ None \notin [ver : Nat, until : Nat, missed : BOOLEAN]

VARIABLES
    backend,    \* CACHE_REDIS_ENABLED and CACHE_INMEMORY_ENABLED
    source,     \* the version of the source
    redis,      \* the entry in Redis, or None
    memory,     \* per process: the entry in its memory level, or None
    open,       \* per process: a breaker keeps it from using Redis
    pc,         \* per call: where it is
    manager,    \* per reader: the manager that getCacheManager returned
    val,        \* per reader: the version it fetched, and then its answer;
                \* per writer: the version it wrote
    since,      \* per reader: the instant of the call
    now,
    replaced,   \* history, per version: the instant its successor came
    done,       \* history, per process: the latest version invalidated there
    base,       \* history, per reader: done, when it began
    overtaken   \* history, per reader: its answer is from an entry marked "missed"

cacheVars == <<redis, memory, open>>
localVars == <<manager, val, since, base, overtaken>>
readVars == <<backend, source, now, cacheVars, pc, localVars, replaced, done>>

Versions == 0 .. MaxVersion
CacheEntry == [ver : Versions, until : Nat, missed : BOOLEAN]
Call == Reader \cup Writer

ReadThroughInit ==
    /\ backend \in Backends
    /\ source = 0 /\ now = 0
    /\ redis = None /\ memory = [p \in Process |-> None] /\ open = [p \in Process |-> FALSE]
    /\ pc = [c \in Call |-> "idle"]
    /\ manager = [r \in Reader |-> "none"] /\ val = [c \in Call |-> 0]
    /\ since = [r \in Reader |-> 0]
    /\ replaced = [v \in Versions |-> 0] /\ done = [p \in Process |-> 0]
    /\ base = [r \in Reader |-> 0] /\ overtaken = [r \in Reader |-> FALSE]

------------------------------------------------------------------------------
(* The managers.                                                           *)

\* getCacheManager: while a breaker of Redis is open, what is left of "hybrid"
\* is memory and of "redis" nothing; if it is the breaker of the hybrid manager
\* itself, that manager is returned all the same.
Managers(p) ==
    IF backend = "hybrid" THEN IF open[p] THEN {"hybrid", "memory"} ELSE {"hybrid"}
    ELSE IF backend = "redis" /\ open[p] THEN {"none"} ELSE {backend}

\* A manager looks at its breakers whenever it is called.
UsesRedis(m, p) == m \in {"hybrid", "redis"} /\ ~open[p]
UsesMemory(m) == m \in {"hybrid", "memory"}

Found(e) == e # None /\ now <= e.until

\* "missed" is a history flag of entries: the version was replaced before it
\* was written, or an invalidation left the entry where it was.
NewCached(v) == [ver |-> v, until |-> now + CacheTtl, missed |-> v < source]
PassedBy(e) == IF e = None THEN None ELSE [e EXCEPT !.missed = TRUE]

MayOpen(p) == open' \in {open, [open EXCEPT ![p] = TRUE]}
MayClose(p) == open' \in {open, [open EXCEPT ![p] = FALSE]}

------------------------------------------------------------------------------
(* withCache.                                                              *)

At(c, label) == pc' = [pc EXCEPT ![c] = label]

\* The answer is what the entry holds.
Hit(r, e) ==
    /\ At(r, "answered")
    /\ val' = [val EXCEPT ![r] = e.ver] /\ overtaken' = [overtaken EXCEPT ![r] = e.missed]

Miss(r) == At(r, "fetch") /\ UNCHANGED <<val, overtaken>>

LookIn(r, e) == IF Found(e) THEN Hit(r, e) ELSE Miss(r)

\* getCacheManager, and get as far as the command to Redis if there is one.
WithCache(r) ==
    LET p == Home[r] IN
    /\ pc[r] = "idle"
    /\ since' = [since EXCEPT ![r] = now] /\ base' = [base EXCEPT ![r] = done[p]]
    /\ \E m \in Managers(p) :
        /\ manager' = [manager EXCEPT ![r] = m]
        /\ IF UsesRedis(m, p) THEN At(r, "get") /\ UNCHANGED <<val, overtaken>>
           ELSE IF UsesMemory(m) THEN LookIn(r, memory[p]) ELSE Miss(r)
    /\ UNCHANGED <<backend, source, now, cacheVars, replaced, done>>

\* Faulty variant: the hybrid manager keeps a hit of Redis in memory for a TTL.
GetPromoting(r) ==
    /\ pc[r] = "get" /\ Found(redis) /\ Hit(r, redis)
    /\ memory' = [memory EXCEPT ![Home[r]] = [redis EXCEPT !.until = now + CacheTtl]]
    /\ UNCHANGED <<backend, source, now, redis, open, manager, since, base, replaced, done>>

\* Redis answers.  Its miss is looked up in memory by the hybrid manager.
GetAnswered(r) ==
    /\ pc[r] = "get"
    /\ IF Found(redis) THEN Hit(r, redis)
       ELSE IF manager[r] = "hybrid" THEN LookIn(r, memory[Home[r]]) ELSE Miss(r)
    /\ MayClose(Home[r])
    /\ UNCHANGED <<backend, source, now, redis, memory, manager, since, base, replaced, done>>

\* Redis does not: the hybrid manager falls back to memory, the other one
\* reports a miss.
GetFailed(r) ==
    /\ pc[r] = "get"
    /\ IF manager[r] = "hybrid" THEN LookIn(r, memory[Home[r]]) ELSE Miss(r)
    /\ MayOpen(Home[r])
    /\ UNCHANGED <<backend, source, now, redis, memory, manager, since, base, replaced, done>>

\* The fetch function reads the source, or throws to the caller.
Fetch(r) ==
    /\ pc[r] = "fetch"
    /\ \/ At(r, "store") /\ val' = [val EXCEPT ![r] = source]
       \/ At(r, "thrown") /\ UNCHANGED val
    /\ UNCHANGED <<backend, source, now, cacheVars, manager, since, base, overtaken,
                    replaced, done>>

\* set of the manager chosen at the start: the memory level takes the value
\* in the same turn, and if Redis is in use the command is sent.
Store(r) ==
    LET p == Home[r] IN
    /\ pc[r] = "store"
    /\ memory' = IF UsesMemory(manager[r])
                 THEN [memory EXCEPT ![p] = NewCached(val[r])] ELSE memory
    /\ IF UsesRedis(manager[r], p) THEN At(r, "set") ELSE At(r, "answered")
    /\ UNCHANGED <<backend, source, now, redis, open, localVars, replaced, done>>

\* SET takes effect or not, and its reply arrives or not.  RedisCacheManager
\* swallows the failure, so that the hybrid manager closes its breaker.
StoreInRedis(r) ==
    /\ pc[r] = "set"
    /\ redis' \in {redis, NewCached(val[r])}
    /\ MayClose(Home[r]) \/ MayOpen(Home[r])
    /\ At(r, "answered")
    /\ UNCHANGED <<backend, source, now, memory, localVars, replaced, done>>

\* The caller has the answer, or the exception.
Return(r) ==
    /\ pc[r] \in {"answered", "thrown"}
    /\ At(r, "idle")
    /\ manager' = [manager EXCEPT ![r] = "none"] /\ val' = [val EXCEPT ![r] = 0]
    /\ since' = [since EXCEPT ![r] = 0] /\ base' = [base EXCEPT ![r] = 0]
    /\ overtaken' = [overtaken EXCEPT ![r] = FALSE]
    /\ UNCHANGED <<backend, source, now, cacheVars, replaced, done>>

------------------------------------------------------------------------------
(* Updates and invalidateCache.                                            *)

Update(w) ==
    /\ pc[w] = "idle" /\ source < MaxVersion
    /\ source' = source + 1 /\ replaced' = [replaced EXCEPT ![source] = now]
    /\ At(w, "invalidate") /\ val' = [val EXCEPT ![w] = source + 1]
    /\ UNCHANGED <<backend, now, cacheVars, manager, since, base, overtaken, done>>

Invalidated(w) ==
    /\ At(w, "idle") /\ val' = [val EXCEPT ![w] = 0]
    /\ done' = [done EXCEPT ![Home[w]] = IF @ < val[w] THEN val[w] ELSE @]

\* Faulty variant: the memory level is left to its TTL.
ForgetNowhere(p) == UNCHANGED memory

\* The memory level of p forgets the key; those of the other processes do not.
ForgetInMemory(p) == memory' = [memory EXCEPT ![p] = None]

\* delete (or deletePattern) of the manager that is chosen now: memory in the
\* same turn, and Redis only if its breakers are closed.
Invalidate(w) ==
    LET p == Home[w] IN
    /\ pc[w] = "invalidate"
    /\ ForgetInMemory(p)
    /\ IF UsesRedis(backend, p) THEN At(w, "delete") /\ UNCHANGED <<redis, val, done>>
       ELSE Invalidated(w) /\ redis' = PassedBy(redis)
    /\ UNCHANGED <<backend, source, now, open, manager, since, base, overtaken, replaced>>

\* DEL takes effect, or fails; RedisCacheManager swallows and does not count
\* the error.
DeleteInRedis(w) ==
    /\ pc[w] = "delete"
    /\ redis' \in {None, PassedBy(redis)}
    /\ Invalidated(w)
    /\ UNCHANGED <<backend, source, now, memory, open, manager, since, base, overtaken, replaced>>

------------------------------------------------------------------------------
(* The environment.                                                        *)

\* A breaker closes after an outage.
Reconnected(p) ==
    /\ open[p] /\ open' = [open EXCEPT ![p] = FALSE]
    /\ UNCHANGED <<backend, source, now, redis, memory, pc, localVars, replaced, done>>

Tick ==
    /\ now < MaxTime
    /\ \A r \in Reader : pc[r] # "idle" => now < since[r] + CallSpan
    /\ now' = now + 1
    /\ UNCHANGED <<backend, source, cacheVars, pc, localVars, replaced, done>>

ReadThroughNext ==
    \/ \E r \in Reader :
        \/ WithCache(r) \/ GetAnswered(r) \/ GetFailed(r)
        \/ Fetch(r) \/ Store(r) \/ StoreInRedis(r) \/ Return(r)
    \/ \E w \in Writer : Update(w) \/ Invalidate(w) \/ DeleteInRedis(w)
    \/ \E p \in Process : Reconnected(p)
    \/ Tick

ReadThroughSpec == ReadThroughInit /\ [][ReadThroughNext]_readVars

------------------------------------------------------------------------------
(* Properties.                                                             *)

\* Every variable has its type.
ReadThroughTypeOK ==
    /\ backend \in Backends
    /\ source \in Versions /\ now \in Nat
    /\ redis \in CacheEntry \cup {None}
    /\ memory \in [Process -> CacheEntry \cup {None}]
    /\ open \in [Process -> BOOLEAN]
    /\ pc \in [Call -> {"idle", "get", "fetch", "store", "set", "answered", "thrown",
                        "invalidate", "delete"}]
    /\ manager \in [Reader -> {"hybrid", "redis", "memory", "none"}]
    /\ val \in [Call -> Versions] /\ since \in [Reader -> Nat]
    /\ replaced \in [Versions -> Nat]
    /\ done \in [Process -> Versions] /\ base \in [Reader -> Versions]
    /\ overtaken \in [Reader -> BOOLEAN]

\* How stale an entry can be, whatever overtakes what and whichever process
\* or level it is in: it ends a TTL and one call after its value was
\* replaced, at the latest.  Entries are never copied from one level to the
\* other, which would let them live on.
Bounded(e) ==
    e # None /\ e.ver < source => e.until <= replaced[e.ver] + CacheTtl + CallSpan

StalenessBounded == Bounded(redis) /\ \A p \in Process : Bounded(memory[p])

\* A call that begins after an update was invalidated in its process gets the
\* update, unless the entry it reads was written by a fetch that the update
\* overtook, or stayed in Redis because the invalidation did not reach it: a
\* breaker was open, or DEL failed.
FreshAfterInvalidation ==
    \A r \in Reader : pc[r] = "answered" /\ val[r] < base[r] => overtaken[r]

\* An entry that is not marked so is not older than what was invalidated:
\* anywhere, for the entry in Redis, and in its process, for one in memory.
EntriesAccountedFor ==
    \A p \in Process :
        /\ redis # None /\ ~redis.missed => redis.ver >= done[p]
        /\ memory[p] # None /\ ~memory[p].missed => memory[p].ver >= done[p]
==============================================================================
