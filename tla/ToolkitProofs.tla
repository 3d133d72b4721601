----------------------------- MODULE ToolkitProofs -----------------------------
(***************************************************************************)
(* Proofs about CacheSetup, for any inputs, prefixes and holders; about    *)
(* BatchRuns, for any number of items and any configurations; and about    *)
(* PasswordRules, for any policies and hasher settings.                    *)
(***************************************************************************)
EXTENDS CacheSetup, BatchRuns, PasswordRules, FiniteSetTheorems, TLAPS

------------------------------------------------------------------------------
(* CacheSetup: what is known of its state.                                 *)

ManagerKinds == {"nothing", "noop", "redis", "memory", "hybrid"}

SetupTypeOK ==
    /\ registry \in [ModuleNames -> Inputs \cup {Unset}]
    /\ disabled \in BOOLEAN /\ client \in Urls \cup {Unset, NoRedis}
    /\ redisMade \in SUBSET Prefixes /\ attached \in SUBSET Nat
    /\ made \in Nat
    /\ memory \in [Prefixes -> Nat] /\ hybrid \in [Prefixes -> Nat]
    /\ level \in [1 .. MaxMade -> Nat]
    /\ held \in [Holders -> [kind : ManagerKinds, id : Nat]]
    /\ torn \in BOOLEAN /\ early \in BOOLEAN /\ apart \in BOOLEAN
    /\ dated \in SUBSET Holders

\* The modules are all without a configuration, or all have the same.
OneInput == ~torn => \E i \in Inputs \cup {Unset} : \A m \in ModuleNames : registry[m] = i

\* The registered managers have been made, and a hybrid manager has the
\* memory level of its prefix, which is registered.
LevelsShared ==
    \A p \in Prefixes :
        /\ memory[p] <= made /\ hybrid[p] <= made /\ hybrid[p] <= MaxMade
        /\ ~apart /\ hybrid[p] # 0 => memory[p] # 0 /\ level[hybrid[p]] = memory[p]

\* The kind of manager for p without an outage, and the manager.
KindUp(p) ==
    IF ~Config.on \/ p \in Config.off THEN "noop"
    ELSE IF Config.redis # NoRedis /\ Config.redisOn
         THEN IF Config.memoryOn THEN "hybrid" ELSE "redis"
         ELSE IF Config.memoryOn THEN "memory" ELSE "noop"

CurrentUp(p) ==
    CASE KindUp(p) = "memory" -> MemoryManager(memory[p])
      [] KindUp(p) = "hybrid" -> HybridManager(hybrid[p])
      [] KindUp(p) = "redis" -> RedisManager
      [] OTHER -> Noop

\* The holder h has what the factory gives without an outage, and it is
\* registered: neither an outage nor a later call replaces it.
Kept(h) ==
    LET p == PrefixOf[h] IN
    /\ Configured
    /\ held[h] = CurrentUp(p)
    /\ KindUp(p) = "memory" => memory[p] # 0
    /\ KindUp(p) = "hybrid" => hybrid[p] # 0 /\ hybrid[p] \in attached

HeldAsUp == \A h \in Holders \ dated : held[h] # Nothing => Kept(h)

------------------------------------------------------------------------------
(* CacheSetup: the steps.                                                  *)

\* The modules of initialize(), as a set.
LEMMA SetOfModules ==
    /\ ModuleNames = {"common", "logger", "auth", "cache", "storage", "geolocation", "cors"}
    /\ "cache" \in ModuleNames /\ {"cache"} # ModuleNames
  <1>1. DOMAIN Modules = 1 .. 7
    BY DEF Modules
  <1>2. ModuleNames = { Modules[1], Modules[2], Modules[3], Modules[4], Modules[5], Modules[6], Modules[7] }
    BY <1>1 DEF ModuleNames
  <1>3. ModuleNames = {"common", "logger", "auth", "cache", "storage", "geolocation", "cors"}
    BY <1>2 DEF Modules
  <1> QED
    BY <1>3

\* A configured cache has the configuration of one of the inputs.
LEMMA ConfigOfInput ==
    ASSUME SetupTypeOK, Configured
    PROVE  registry["cache"] \in Inputs /\ Config \in CacheConfigs
  BY InputsAssumption, SetOfModules DEF SetupTypeOK, Configured, Config

\* The client is asked for or not: it keeps its type.
LEMMA AskingTyped ==
    ASSUME SetupTypeOK, NEW asked \in BOOLEAN, Asking(asked)
    PROVE  client' \in Urls \cup {Unset, NoRedis} /\ early' \in BOOLEAN
  <1>1. client' \in Urls \cup {Unset, NoRedis}
    <2>1. Usable => Config.redis \in Urls \cup {NoRedis}
      BY ConfigOfInput DEF Usable, CacheConfigs
    <2> QED
      BY <2>1 DEF Asking, GetRedisClient, SetupTypeOK
  <1>2. early' \in BOOLEAN
    BY DEF Asking, SetupTypeOK
  <1> QED
    BY <1>1, <1>2

\* What obtaining a manager does to the singletons: it makes some of its own
\* prefix, and replaces none.
LEMMA ObtainEffect ==
    ASSUME SetupTypeOK, NEW p \in Prefixes, NEW kind, NEW ask \in BOOLEAN, Obtain(p, kind, ask)
    PROVE  /\ client' \in Urls \cup {Unset, NoRedis} /\ early' \in BOOLEAN
           /\ redisMade' \in SUBSET Prefixes /\ attached' \in SUBSET Nat
           /\ made' \in Nat /\ made <= made'
           /\ memory' \in [Prefixes -> Nat] /\ hybrid' \in [Prefixes -> Nat]
           /\ level' \in [1 .. MaxMade -> Nat]
           /\ attached \subseteq attached'
           /\ \A q \in Prefixes : memory[q] # 0 => memory'[q] = memory[q]
           /\ \A q \in Prefixes : hybrid[q] # 0 => hybrid'[q] = hybrid[q]
           /\ \A q \in Prefixes \ {p} : memory'[q] = memory[q] /\ hybrid'[q] = hybrid[q]
           /\ kind = "memory" => memory'[p] # 0
           /\ kind = "hybrid" => hybrid'[p] # 0 /\ (ask => hybrid'[p] \in attached')
  <1> DEFINE new == kind = "hybrid" /\ hybrid[p] = 0
             wantsRedis == kind = "redis" \/ (kind = "hybrid" /\ ask)
  <1>1. /\ client' \in Urls \cup {Unset, NoRedis} /\ early' \in BOOLEAN
    <2>1. Asking(wantsRedis /\ p \notin redisMade)
      BY DEF Obtain
    <2> QED
      BY <2>1, AskingTyped
  <1>2. redisMade' \in SUBSET Prefixes
    BY DEF Obtain, SetupTypeOK
  <1>3. MemoryFor(p) \in Nat \ {0} /\ (memory[p] # 0 => MemoryFor(p) = memory[p])
    BY DEF MemoryFor, SetupTypeOK
  <1>4. made + 2 \in 1 .. MaxMade /\ made + 2 \in Nat /\ made + 1 \in Nat
    BY InputsAssumption DEF Obtain, SetupTypeOK
  <1>5. /\ memory' \in [Prefixes -> Nat]
        /\ \A q \in Prefixes : memory[q] # 0 => memory'[q] = memory[q]
        /\ \A q \in Prefixes \ {p} : memory'[q] = memory[q]
        /\ kind = "memory" => memory'[p] # 0
    BY <1>3 DEF Obtain, SetupTypeOK
  <1>6. /\ hybrid' \in [Prefixes -> Nat]
        /\ \A q \in Prefixes : hybrid[q] # 0 => hybrid'[q] = hybrid[q]
        /\ \A q \in Prefixes \ {p} : hybrid'[q] = hybrid[q]
        /\ kind = "hybrid" => hybrid'[p] # 0
    BY <1>4 DEF Obtain, SetupTypeOK
  <1>7. level' \in [1 .. MaxMade -> Nat]
    BY <1>3, <1>4 DEF Obtain, SetupTypeOK, LevelFor
  <1>8. made' \in Nat /\ made <= made'
    BY DEF Obtain, SetupTypeOK
  <1>9. /\ attached' \in SUBSET Nat /\ attached \subseteq attached'
        /\ kind = "hybrid" /\ ask => hybrid'[p] \in attached'
    <2>1. WithRedis(p, ask) \subseteq Nat
      BY <1>4 DEF WithRedis, SetupTypeOK
    <2>2. kind = "hybrid" /\ ask => hybrid'[p] \in WithRedis(p, ask)
      BY DEF WithRedis, Obtain, SetupTypeOK
    <2>3. attached' = attached \cup (IF kind = "hybrid" THEN WithRedis(p, ask) ELSE {})
      BY DEF Obtain
    <2> QED
      BY <2>1, <2>2, <2>3 DEF SetupTypeOK
  <1> QED
    BY <1>1, <1>2, <1>5, <1>6, <1>7, <1>8, <1>9

LEMMA SetupTypeStep ==
    ASSUME SetupTypeOK, [CacheSetupNext]_vars
    PROVE  SetupTypeOK'
  <1>1. ASSUME NEW i \in Inputs, Initialize(i) PROVE SetupTypeOK'
    BY <1>1 DEF SetupTypeOK, Initialize, Registered, caches
  <1>2. ASSUME NEW ms \in {{"cache"}, ModuleNames}, Reset(ms) PROVE SetupTypeOK'
    BY <1>2 DEF SetupTypeOK, Reset, caches, Holding
  <1>3. ASSUME NEW h \in Holders, GetCacheManager(h) PROVE SetupTypeOK'
    <2> DEFINE p == PrefixOf[h]
    <2>1. p \in Prefixes
      BY InputsAssumption
    <2>2. IsRedisAvailableNow \in BOOLEAN /\ Obtain(p, KindFor(p), IsRedisAvailableNow)
      BY <1>3 DEF GetCacheManager, IsRedisAvailableNow
    <2>3. registry' = registry /\ disabled' = disabled /\ torn' = torn /\ apart' = apart
          /\ dated' \in SUBSET Holders
      BY <1>3 DEF GetCacheManager, SetupTypeOK
    <2>4. held' = [held EXCEPT ![h] = Current(p)']
      BY <1>3 DEF GetCacheManager
    <2> HIDE DEF p
    <2>5. /\ client' \in Urls \cup {Unset, NoRedis} /\ early' \in BOOLEAN
          /\ redisMade' \in SUBSET Prefixes /\ attached' \in SUBSET Nat /\ made' \in Nat
          /\ memory' \in [Prefixes -> Nat] /\ hybrid' \in [Prefixes -> Nat]
          /\ level' \in [1 .. MaxMade -> Nat]
      BY <2>1, <2>2, ObtainEffect
    <2>6. Current(p)' \in [kind : ManagerKinds, id : Nat]
      <3>1. memory'[p] \in Nat /\ hybrid'[p] \in Nat
        BY <2>1, <2>5
      <3>2. \A n \in Nat : MemoryManager(n) \in [kind : ManagerKinds, id : Nat]
                           /\ HybridManager(n) \in [kind : ManagerKinds, id : Nat]
        BY DEF MemoryManager, HybridManager, ManagerKinds
      <3>3. RedisManager \in [kind : ManagerKinds, id : Nat] /\ Noop \in [kind : ManagerKinds, id : Nat]
        BY DEF RedisManager, Noop, ManagerKinds
      <3> QED
        BY <3>1, <3>2, <3>3 DEF Current, p
    <2>7. held' \in [Holders -> [kind : ManagerKinds, id : Nat]]
      BY <2>4, <2>6 DEF SetupTypeOK
    <2> QED
      BY <2>3, <2>5, <2>7 DEF SetupTypeOK
  <1>4. ASSUME NEW h \in Holders, UseHeld(h) PROVE SetupTypeOK'
    <2>1. Asking(~disabled)
      BY <1>4 DEF UseHeld
    <2>2. client' \in Urls \cup {Unset, NoRedis} /\ early' \in BOOLEAN
      BY <2>1, AskingTyped
    <2> QED
      BY <1>4, <2>2 DEF UseHeld, SetupTypeOK, caches
  <1>5. ASSUME NEW p \in Prefixes, NEW kind, NEW ask \in BOOLEAN, Obtain(p, kind, ask),
               UNCHANGED << registry, disabled, held, torn, dated, apart >>
        PROVE  SetupTypeOK'
    <2>1. /\ client' \in Urls \cup {Unset, NoRedis} /\ early' \in BOOLEAN
          /\ redisMade' \in SUBSET Prefixes /\ attached' \in SUBSET Nat /\ made' \in Nat
          /\ memory' \in [Prefixes -> Nat] /\ hybrid' \in [Prefixes -> Nat]
          /\ level' \in [1 .. MaxMade -> Nat]
      BY <1>5, ObtainEffect
    <2> QED
      BY <1>5, <2>1 DEF SetupTypeOK
  <1>6. ASSUME NEW p \in Prefixes, GetHybridAlone(p) \/ GetRedisAlone(p) PROVE SetupTypeOK'
    BY <1>5, <1>6 DEF GetHybridAlone, GetRedisAlone
  <1>7. ASSUME NEW p \in Prefixes, UseLazily(p) PROVE SetupTypeOK'
    BY <1>5, <1>7 DEF UseLazily, IsRedisAvailableNow
  <1>8. CASE AskClient
    <2>1. client' \in Urls \cup {Unset, NoRedis} /\ early' \in BOOLEAN
      BY <1>8, AskingTyped DEF AskClient
    <2> QED
      BY <1>8, <2>1 DEF AskClient, SetupTypeOK, caches
  <1>9. CASE Outage
    BY <1>9 DEF Outage, SetupTypeOK, caches
  <1>10. CASE DestroyAll
    BY <1>10 DEF DestroyAll, SetupTypeOK, Holding
  <1>11. CASE ClearHybrids
    BY <1>11 DEF ClearHybrids, SetupTypeOK, Holding
  <1>12. CASE DestroyMemories
    BY <1>12 DEF DestroyMemories, SetupTypeOK, Holding
  <1>13. CASE UNCHANGED vars
    BY <1>13 DEF vars, caches, SetupTypeOK
  <1> QED
    BY <1>1, <1>2, <1>3, <1>4, <1>6, <1>7, <1>8, <1>9, <1>10, <1>11, <1>12, <1>13 DEF CacheSetupNext

LEMMA SetupTypeInit == CacheSetupInit => SetupTypeOK
  <1> SUFFICES ASSUME CacheSetupInit PROVE SetupTypeOK
    OBVIOUS
  <1>1. Nothing \in [kind : ManagerKinds, id : Nat]
    BY DEF Nothing, ManagerKinds
  <1>2. held \in [Holders -> [kind : ManagerKinds, id : Nat]]
    BY <1>1 DEF CacheSetupInit
  <1>3. registry \in [ModuleNames -> Inputs \cup {Unset}] /\ level \in [1 .. MaxMade -> Nat]
    BY DEF CacheSetupInit
  <1>4. memory \in [Prefixes -> Nat] /\ hybrid \in [Prefixes -> Nat]
    BY DEF CacheSetupInit
  <1> QED
    BY <1>2, <1>3, <1>4 DEF CacheSetupInit, SetupTypeOK

\* Every reachable state of the registry, the client and the managers is well
\* typed, whatever the application calls in whatever order.
THEOREM SetupTypeCorrect == CacheSetupSpec => []SetupTypeOK
  BY SetupTypeInit, SetupTypeStep, PTL DEF CacheSetupSpec


------------------------------------------------------------------------------
(* CacheSetup: the registry and the client.                                *)

\* A step that neither initializes nor resets keeps the registry, and asks for
\* the client at most once.
LEMMA RegistrySteps ==
    ASSUME [CacheSetupNext]_vars
    PROVE  \/ \E i \in Inputs : Initialize(i)
           \/ \E ms \in {{"cache"}, ModuleNames} : Reset(ms)
           \/ /\ UNCHANGED << registry, torn >>
              /\ \/ UNCHANGED << client, early >>
                 \/ \E asked \in BOOLEAN : Asking(asked)
  <1> DEFINE Asks == UNCHANGED << registry, torn >> /\ \E asked \in BOOLEAN : Asking(asked)
             Keeps == UNCHANGED << registry, torn, client, early >>
  <1>1. ASSUME NEW p, NEW kind, NEW ask \in BOOLEAN, Obtain(p, kind, ask),
               UNCHANGED << registry, torn >>
        PROVE  Asks
    BY <1>1 DEF Obtain
  <1>2. ASSUME NEW h \in Holders, GetCacheManager(h) PROVE Asks
    BY <1>1, <1>2 DEF GetCacheManager, IsRedisAvailableNow
  <1>3. ASSUME NEW h \in Holders, UseHeld(h) PROVE Asks
    BY <1>3 DEF UseHeld
  <1>4. ASSUME NEW p \in Prefixes, GetHybridAlone(p) \/ GetRedisAlone(p) \/ UseLazily(p) PROVE Asks
    BY <1>1, <1>4 DEF GetHybridAlone, GetRedisAlone, UseLazily, IsRedisAvailableNow
  <1>5. ASSUME AskClient PROVE Asks
    BY <1>5 DEF AskClient
  <1>6. ASSUME Outage \/ DestroyAll \/ ClearHybrids \/ DestroyMemories PROVE Keeps
    BY <1>6 DEF Outage, DestroyAll, ClearHybrids, DestroyMemories
  <1>7. ASSUME UNCHANGED vars PROVE Keeps
    BY <1>7 DEF vars
  <1> QED
    BY <1>2, <1>3, <1>4, <1>5, <1>6, <1>7 DEF CacheSetupNext

\* An initialize() that reaches all modules configures all those that had no
\* configuration, which are none of them or all.
LEMMA OneInputStep ==
    ASSUME SetupTypeOK, OneInput, [CacheSetupNext]_vars
    PROVE  OneInput'
  <1>1. ASSUME NEW i \in Inputs, Initialize(i) PROVE OneInput'
    <2> DEFINE reached == Reached(i)
    <2>1. /\ registry' = [m \in ModuleNames |->
                            IF m \in reached \cap PartOf[i] /\ registry[m] = Unset THEN i ELSE registry[m]]
          /\ torn' = (torn \/ reached \cap PartOf[i] # ModuleNames)
      BY <1>1 DEF Initialize, Registered
    <2> HIDE DEF reached
    <2> SUFFICES ASSUME ~torn' PROVE \E j \in Inputs \cup {Unset} : \A m \in ModuleNames : registry'[m] = j
      BY DEF OneInput
    <2>2. ~torn /\ reached \cap PartOf[i] = ModuleNames
      BY <2>1
    <2>3. PICK j \in Inputs \cup {Unset} : \A m \in ModuleNames : registry[m] = j
      BY <2>2 DEF OneInput
    <2>4. CASE j = Unset
      BY <2>1, <2>2, <2>3, <2>4
    <2>5. CASE j # Unset
      BY <2>1, <2>2, <2>3, <2>5
    <2> QED
      BY <2>4, <2>5
  <1>2. ASSUME NEW ms \in {{"cache"}, ModuleNames}, Reset(ms) PROVE OneInput'
    BY <1>2, SetOfModules DEF Reset, OneInput
  <1>3. ASSUME UNCHANGED << registry, torn >> PROVE OneInput'
    BY <1>3 DEF OneInput
  <1> QED
    BY <1>1, <1>2, <1>3, RegistrySteps

\* However often initialize() is called and with whatever inputs, fails or leaves
\* modules out, and however configurations are reset: a process whose modules come
\* from two inputs has seen an initialize() fail or a module reset alone.
THEOREM ModulesAgree == CacheSetupSpec => []OneConfiguration
  <1>1. CacheSetupInit => OneInput
    BY DEF CacheSetupInit, OneInput
  <1>2. OneInput => OneConfiguration
    BY DEF OneInput, OneConfiguration
  <1> QED
    BY <1>1, <1>2, OneInputStep, SetupTypeCorrect, PTL DEF CacheSetupSpec

\* The configuration of the cache is replaced by a reset only.
LEMMA ClientStep ==
    ASSUME SetupTypeOK, ClientOfConfig, [CacheSetupNext]_vars
    PROVE  ClientOfConfig'
  <1>0. SetupTypeOK /\ "cache" \in ModuleNames
    BY SetOfModules
  <1>1. ASSUME UNCHANGED << client, early >>, Usable => Usable' /\ Config' = Config
        PROVE  ClientOfConfig'
    BY <1>1 DEF ClientOfConfig
  <1>2. ASSUME NEW i \in Inputs, Initialize(i) PROVE ClientOfConfig'
    <2>1. registry["cache"] # Unset => registry'["cache"] = registry["cache"]
      BY <1>0, <1>2 DEF Initialize, Registered
    <2>2. Usable => Usable' /\ Config' = Config
      BY <2>1 DEF Usable, Configured, Config
    <2> QED
      BY <1>1, <1>2, <2>2 DEF Initialize
  <1>3. ASSUME NEW ms \in {{"cache"}, ModuleNames}, Reset(ms) PROVE ClientOfConfig'
    BY <1>0, <1>3 DEF Reset, ClientOfConfig
  <1>4. ASSUME registry' = registry PROVE (Usable' = Usable) /\ Config' = Config
    BY <1>4 DEF Usable, Configured, Config
  <1>5. ASSUME UNCHANGED << registry, client, early >> PROVE ClientOfConfig'
    BY <1>1, <1>4, <1>5
  <1>6. ASSUME NEW asked \in BOOLEAN, Asking(asked), registry' = registry PROVE ClientOfConfig'
    <2>1. ASSUME ~early', client' # Unset PROVE Usable /\ client' = Config.redis
      BY <1>6, <2>1 DEF Asking, GetRedisClient, ClientOfConfig
    <2> QED
      BY <1>4, <1>6, <2>1 DEF ClientOfConfig
  <1> QED
    BY <1>2, <1>3, <1>5, <1>6, RegistrySteps

\* No order of outages, initializations and uses of managers costs the process
\* its Redis client or leaves it with one of another endpoint: that takes a
\* question before there was a usable configuration, or a reset.
THEOREM ClientIsConfigured == CacheSetupSpec => []ClientOfConfig
  <1>1. CacheSetupInit => ClientOfConfig
    BY DEF CacheSetupInit, ClientOfConfig
  <1> QED
    BY <1>1, ClientStep, SetupTypeCorrect, PTL DEF CacheSetupSpec


------------------------------------------------------------------------------
(* CacheSetup: the managers.                                               *)

\* A new hybrid manager has a number of its own and the memory level of its
\* prefix; a memory manager is new only where the prefix has no hybrid one.
LEMMA ObtainShares ==
    ASSUME SetupTypeOK, LevelsShared, NEW p \in Prefixes, NEW kind, NEW ask \in BOOLEAN,
           Obtain(p, kind, ask), apart' = apart
    PROVE  LevelsShared'
  <1>0. SetupTypeOK /\ MaxMade \in Nat
    BY InputsAssumption
  <1>1. /\ made' \in Nat /\ made <= made'
        /\ memory' \in [Prefixes -> Nat] /\ hybrid' \in [Prefixes -> Nat]
        /\ \A q \in Prefixes \ {p} : memory'[q] = memory[q] /\ hybrid'[q] = hybrid[q]
    BY ObtainEffect
  <1>2. made + 2 <= MaxMade
    BY DEF Obtain
  <1>3. CASE kind = "hybrid" /\ hybrid[p] = 0
    <2>1. /\ memory' = [memory EXCEPT ![p] = MemoryFor(p)] /\ hybrid' = [hybrid EXCEPT ![p] = made + 2]
          /\ level' = [level EXCEPT ![made + 2] = MemoryFor(p)] /\ made' = made + 2
      BY <1>3 DEF Obtain, LevelFor
    <2>2. MemoryFor(p) \in Nat \ {0} /\ MemoryFor(p) <= made + 2
      BY DEF MemoryFor, SetupTypeOK, LevelsShared
    <2>3. \A n \in 1 .. MaxMade : n <= made => level'[n] = level[n]
      BY <2>1 DEF SetupTypeOK
    <2>4. level'[made + 2] = MemoryFor(p)
      BY <1>0, <1>2, <2>1 DEF SetupTypeOK
    <2>5. ASSUME NEW q \in Prefixes \ {p}
          PROVE  /\ memory'[q] <= made' /\ hybrid'[q] <= made' /\ hybrid'[q] <= MaxMade
                 /\ ~apart' /\ hybrid'[q] # 0 => memory'[q] # 0 /\ level'[hybrid'[q]] = memory'[q]
      <3>1. memory'[q] = memory[q] /\ hybrid'[q] = hybrid[q] /\ memory[q] \in Nat /\ hybrid[q] \in Nat
        BY <1>1 DEF SetupTypeOK
      <3>2. hybrid[q] # 0 => hybrid[q] \in 1 .. MaxMade /\ hybrid[q] <= made
        BY <1>0, <3>1 DEF LevelsShared
      <3> QED
        BY <1>0, <1>1, <2>3, <3>1, <3>2 DEF LevelsShared, SetupTypeOK
    <2>6. /\ memory'[p] <= made' /\ hybrid'[p] <= made' /\ hybrid'[p] <= MaxMade
          /\ memory'[p] # 0 /\ level'[hybrid'[p]] = memory'[p]
      BY <1>0, <1>2, <2>1, <2>2, <2>4 DEF SetupTypeOK
    <2> QED
      BY <2>5, <2>6 DEF LevelsShared
  <1>4. CASE ~ (kind = "hybrid" /\ hybrid[p] = 0)
    <2>1. hybrid' = hybrid /\ level' = level
      BY <1>4 DEF Obtain
    <2>2. CASE kind = "memory" /\ memory[p] = 0
      <3>1. memory' = [memory EXCEPT ![p] = made + 1] /\ made' = made + 1
        BY <1>4, <2>2 DEF Obtain, MemoryFor
      <3> QED
        BY <1>0, <2>1, <2>2, <3>1 DEF LevelsShared, SetupTypeOK
    <2>3. CASE ~ (kind = "memory" /\ memory[p] = 0)
      <3>1. memory' = memory /\ made' = made
        BY <1>4, <2>3 DEF Obtain, MemoryFor, SetupTypeOK
      <3> QED
        BY <2>1, <3>1 DEF LevelsShared
    <2> QED
      BY <2>2, <2>3
  <1> QED
    BY <1>3, <1>4

LEMMA LevelsSharedStep ==
    ASSUME SetupTypeOK, LevelsShared, [CacheSetupNext]_vars
    PROVE  LevelsShared'
  <1>1. ASSUME UNCHANGED << memory, hybrid, level, made, apart >> PROVE LevelsShared'
    BY <1>1 DEF LevelsShared
  <1>2. ASSUME NEW h \in Holders, GetCacheManager(h) PROVE LevelsShared'
    <2>1. PrefixOf[h] \in Prefixes /\ IsRedisAvailableNow \in BOOLEAN
      BY InputsAssumption DEF IsRedisAvailableNow
    <2> QED
      BY <1>2, <2>1, ObtainShares DEF GetCacheManager
  <1>3. ASSUME NEW p \in Prefixes, GetHybridAlone(p) \/ GetRedisAlone(p) PROVE LevelsShared'
    BY <1>3, ObtainShares DEF GetHybridAlone, GetRedisAlone
  <1>4. ASSUME NEW p \in Prefixes, UseLazily(p) PROVE LevelsShared'
    <2>1. IsRedisAvailableNow \in BOOLEAN
      BY DEF IsRedisAvailableNow
    <2> QED
      BY <1>4, <2>1, ObtainShares DEF UseLazily
  <1>5. ASSUME DestroyAll \/ ClearHybrids PROVE LevelsShared'
    BY <1>5, InputsAssumption DEF DestroyAll, ClearHybrids, LevelsShared, SetupTypeOK
  <1>6. ASSUME DestroyMemories PROVE LevelsShared'
    <2>1. ~apart' => \A p \in Prefixes : hybrid[p] = 0
      BY <1>6 DEF DestroyMemories
    <2>2. /\ \A p \in Prefixes : memory'[p] = 0 /\ 0 <= made
          /\ hybrid' = hybrid /\ made' = made
      BY <1>6 DEF DestroyMemories, SetupTypeOK
    <2> QED
      BY <2>1, <2>2 DEF LevelsShared
  <1>7. ASSUME \/ \E i \in Inputs : Initialize(i)
               \/ \E ms \in {{"cache"}, ModuleNames} : Reset(ms)
               \/ \E h \in Holders : UseHeld(h)
               \/ AskClient \/ Outage \/ UNCHANGED vars
        PROVE  LevelsShared'
    BY <1>1, <1>7 DEF Initialize, Reset, UseHeld, AskClient, Outage, vars, caches
  <1> QED
    BY <1>2, <1>3, <1>4, <1>5, <1>6, <1>7 DEF CacheSetupNext

\* Whatever managers were obtained in whatever order, before, in or after an
\* outage, lazily, eagerly or by the application itself: unless the memory
\* managers were destroyed alone, a prefix has one memory level.
THEOREM MemoryLevelsAreOne == CacheSetupSpec => []OneMemoryLevel
  <1>1. CacheSetupInit => LevelsShared
    BY InputsAssumption DEF CacheSetupInit, LevelsShared
  <1>2. LevelsShared => OneMemoryLevel
    BY DEF LevelsShared, OneMemoryLevel
  <1> QED
    BY <1>1, <1>2, LevelsSharedStep, SetupTypeCorrect, PTL DEF CacheSetupSpec

\* Without an outage the factory gives the manager of CurrentUp.
LEMMA UpIsCurrent ==
    ASSUME Configured, ~disabled, NEW p
    PROVE  CurrentUp(p) = Current(p) /\ KindUp(p) = KindFor(p)
  <1>1. KindUp(p) = KindFor(p)
    BY DEF KindUp, KindFor, GetEffectiveCacheBackend
  <1> QED
    BY <1>1 DEF CurrentUp, Current

\* A held manager stays current as long as its configuration and the registered
\* managers of its prefix stay.
LEMMA KeptStays ==
    ASSUME NEW h \in Holders, Kept(h),
           registry'["cache"] = registry["cache"], held'[h] = held[h],
           memory[PrefixOf[h]] # 0 => memory'[PrefixOf[h]] = memory[PrefixOf[h]],
           hybrid[PrefixOf[h]] # 0 => hybrid'[PrefixOf[h]] = hybrid[PrefixOf[h]],
           attached \subseteq attached'
    PROVE  Kept(h)'
  <1> DEFINE p == PrefixOf[h]
  <1>1. Config' = Config /\ Configured'
    BY DEF Config, Configured, Kept
  <1>2. KindUp(p)' = KindUp(p)
    BY <1>1 DEF KindUp
  <1>3. CurrentUp(p)' = CurrentUp(p)
    BY <1>2 DEF CurrentUp, Kept, MemoryManager, HybridManager
  <1> QED
    BY <1>1, <1>2, <1>3 DEF Kept

\* What the factory hands out without an outage is current, and a hybrid
\* manager has its Redis manager: Redis is available whenever one is handed out.
LEMMA ObtainedIsKept ==
    ASSUME SetupTypeOK, NEW h \in Holders, GetCacheManager(h), Configured, ~disabled
    PROVE  Kept(h)'
  <1> DEFINE p == PrefixOf[h]
  <1>1. p \in Prefixes /\ IsRedisAvailableNow \in BOOLEAN /\ Obtain(p, KindFor(p), IsRedisAvailableNow)
    BY InputsAssumption DEF GetCacheManager, IsRedisAvailableNow
  <1>2. registry' = registry /\ disabled' = disabled /\ held'[h] = Current(p)'
    BY DEF GetCacheManager, SetupTypeOK
  <1>3. Configured' /\ Config' = Config
    BY <1>2 DEF Configured, Config
  <1>4. KindFor(p) = "hybrid" => IsRedisAvailableNow
    BY DEF KindFor, GetEffectiveCacheBackend, IsRedisAvailableNow, Usable
  <1>5. /\ KindFor(p) = "memory" => memory'[p] # 0
        /\ KindFor(p) = "hybrid" => hybrid'[p] # 0 /\ hybrid'[p] \in attached'
    BY <1>1, <1>4, ObtainEffect
  <1>6. KindUp(p) = KindFor(p) /\ KindUp(p)' = KindUp(p)
    <2>1. KindUp(p)' = KindUp(p)
      BY <1>3 DEF KindUp
    <2> QED
      BY <2>1, UpIsCurrent
  <1>7. CurrentUp(p)' = Current(p)'
    <2>1. KindFor(p)' = KindFor(p)
      BY <1>2, <1>3 DEF KindFor, GetEffectiveCacheBackend
    <2> QED
      BY <1>6, <2>1 DEF CurrentUp, Current
  <1> QED
    BY <1>2, <1>3, <1>5, <1>6, <1>7 DEF Kept

LEMMA HeldStep ==
    ASSUME SetupTypeOK, HeldAsUp, [CacheSetupNext]_vars
    PROVE  HeldAsUp'
  <1>0. SetupTypeOK /\ "cache" \in ModuleNames
    BY SetOfModules
  <1>1. ASSUME registry'["cache"] = registry["cache"] \/ registry["cache"] = Unset,
               UNCHANGED << memory, hybrid, attached, held, dated >>
        PROVE  HeldAsUp'
    <2> SUFFICES ASSUME NEW h \in Holders \ dated, held[h] # Nothing PROVE Kept(h)'
      BY <1>1 DEF HeldAsUp
    <2>1. Kept(h)
      BY DEF HeldAsUp
    <2>2. registry'["cache"] = registry["cache"]
      BY <1>1, <2>1 DEF Kept, Configured
    <2> QED
      BY <1>1, <2>1, <2>2, KeptStays
  <1>2. ASSUME NEW i \in Inputs, Initialize(i) PROVE HeldAsUp'
    BY <1>0, <1>1, <1>2 DEF Initialize, Registered, caches
  \* A step that leaves nobody's manager undated.
  <1>3. ASSUME held' = held, Holding \subseteq dated' PROVE HeldAsUp'
    BY <1>3 DEF HeldAsUp, Holding
  <1>4. ASSUME NEW ms \in {{"cache"}, ModuleNames}, Reset(ms) PROVE HeldAsUp'
    BY <1>0, <1>3, <1>4 DEF Reset
  \* A manager is obtained for nobody, or for a holder other than h.
  <1>5. ASSUME NEW h \in Holders \ dated, held[h] # Nothing, registry' = registry, held'[h] = held[h],
               NEW p \in Prefixes, NEW kind, NEW ask \in BOOLEAN, Obtain(p, kind, ask)
        PROVE  Kept(h)'
    <2>1. PrefixOf[h] \in Prefixes
      BY InputsAssumption
    <2>2. /\ memory[PrefixOf[h]] # 0 => memory'[PrefixOf[h]] = memory[PrefixOf[h]]
          /\ hybrid[PrefixOf[h]] # 0 => hybrid'[PrefixOf[h]] = hybrid[PrefixOf[h]]
          /\ attached \subseteq attached'
      BY <1>5, <2>1, ObtainEffect
    <2>3. Kept(h)
      BY <1>5 DEF HeldAsUp
    <2> QED
      BY <1>5, <2>2, <2>3, KeptStays
  <1>6. ASSUME NEW p \in Prefixes, GetHybridAlone(p) \/ GetRedisAlone(p) \/ UseLazily(p) PROVE HeldAsUp'
    <2>1. UNCHANGED << registry, held, dated >> /\ \E kind : \E ask \in BOOLEAN : Obtain(p, kind, ask)
      BY <1>6 DEF GetHybridAlone, GetRedisAlone, UseLazily, IsRedisAvailableNow
    <2> QED
      BY <1>5, <2>1 DEF HeldAsUp
  <1>7. ASSUME NEW h \in Holders, GetCacheManager(h) PROVE HeldAsUp'
    <2>1. PrefixOf[h] \in Prefixes /\ IsRedisAvailableNow \in BOOLEAN
          /\ Obtain(PrefixOf[h], KindFor(PrefixOf[h]), IsRedisAvailableNow)
      BY <1>7, InputsAssumption DEF GetCacheManager, IsRedisAvailableNow
    <2> SUFFICES ASSUME NEW g \in Holders \ dated', held'[g] # Nothing PROVE Kept(g)'
      BY DEF HeldAsUp
    <2>2. CASE g = h
      <3>1. Configured /\ ~disabled
        BY <1>7, <2>2 DEF GetCacheManager
      <3> QED
        BY <1>7, <2>2, <3>1, ObtainedIsKept
    <2>3. CASE g # h
      <3>1. g \in Holders \ dated /\ held'[g] = held[g] /\ registry' = registry
        BY <1>7, <2>3 DEF GetCacheManager, SetupTypeOK
      <3> QED
        BY <1>5, <2>1, <3>1
    <2> QED
      BY <2>2, <2>3
  <1>8. ASSUME DestroyAll \/ ClearHybrids \/ DestroyMemories PROVE HeldAsUp'
    BY <1>3, <1>8 DEF DestroyAll, ClearHybrids, DestroyMemories
  <1>9. ASSUME \/ \E h \in Holders : UseHeld(h)
               \/ AskClient \/ Outage \/ UNCHANGED vars
        PROVE  HeldAsUp'
    BY <1>1, <1>9 DEF UseHeld, AskClient, Outage, vars, caches
  <1> QED
    BY <1>2, <1>4, <1>6, <1>7, <1>8, <1>9 DEF CacheSetupNext

\* A manager that was taken with a configuration and without an outage is the one
\* that the factory would give, whatever outages, managers and attempts to
\* configure came in between, until a teardown or a reset.
THEOREM HeldStaysCurrent == CacheSetupSpec => []HeldIsCurrent
  <1>1. CacheSetupInit => HeldAsUp
    BY DEF CacheSetupInit, HeldAsUp
  <1>2. HeldAsUp => HeldIsCurrent
    <2> SUFFICES ASSUME HeldAsUp, NEW h \in Holders \ dated, held[h] # Nothing, ~disabled
                 PROVE  /\ held[h] = Current(PrefixOf[h])
                        /\ held[h].kind = "hybrid" => held[h].id \in attached
      BY DEF HeldIsCurrent
    <2> DEFINE p == PrefixOf[h]
    <2>1. Kept(h)
      BY DEF HeldAsUp
    <2>2. held[h] = Current(p)
      BY <2>1, UpIsCurrent DEF Kept
    <2>3. held[h] = CurrentUp(p) /\ (KindUp(p) = "hybrid" => hybrid[p] \in attached)
      BY <2>1 DEF Kept
    <2>4. held[h].kind = "hybrid" => KindUp(p) = "hybrid" /\ held[h].id = hybrid[p]
      BY <2>3 DEF CurrentUp, MemoryManager, HybridManager, RedisManager, Noop
    <2> QED
      BY <2>2, <2>3, <2>4
  <1> QED
    BY <1>1, <1>2, HeldStep, SetupTypeCorrect, PTL DEF CacheSetupSpec


------------------------------------------------------------------------------
(* BatchRuns: what is known of its state.                                  *)

Modes == {"plain", "retry", "concurrent"}
Phases == {"loop", "call", "skip", "backoff", "pause", "group", "stopped"}

ResultRecord == [processed : Int, successful : Int, failed : Int]

BatchTypeOK ==
    /\ config \in BatchConfigs /\ mode \in Modes /\ phase \in Phases
    /\ at \in Nat /\ batch \in SUBSET Item /\ attempt \in Nat
    /\ groups \in Seq(SUBSET SUBSET Item) /\ waiting \in SUBSET SUBSET Item /\ lost \in SUBSET SUBSET Item
    /\ result \in ResultRecord
    /\ handed \in [Item -> Nat]
    /\ resized \in BOOLEAN /\ jolted \in Nat /\ skipped \in Nat
    /\ returned \in Nat /\ surplus \in Int

\* The items below f were handed out once each, and no other.
HandedBelow(f) == \A j \in Item : handed[j] = IF j < f THEN 1 ELSE 0

\* The items below f are accounted for, and no other.
Totals(f) ==
    LET n == IF f < N THEN f ELSE N IN
    /\ result.successful + result.failed = n + jolted - skipped + surplus
    /\ result.processed = n - (IF mode = "plain" THEN result.failed - jolted ELSE 0)

\* How far a run has come with its batch, and how far its numbers have.
Reach == IF phase = "loop" THEN at ELSE at + config.size
Counting == IF phase = "pause" THEN at + config.size ELSE at

\* One batch after the other: while the size stays, the batch in flight is the
\* slice at the index, and what was handed out lies below the end of it, all of
\* it unless a batch was skipped.
InTurn ==
    /\ phase \in {"skip", "backoff"} => mode = "retry"
    /\ phase = "group" => mode = "concurrent"
    /\ mode # "concurrent" /\ ~resized =>
         /\ phase \notin {"loop", "stopped"} => at < N /\ batch = SliceAt(at, config.size)
         /\ \A j \in Item : handed[j] <= 1 /\ (handed[j] > 0 => j < Reach)
         /\ skipped = 0 => HandedBelow(Reach) \/ (phase \in {"skip", "stopped"} /\ HandedBelow(at))
         /\ phase # "stopped" => Totals(Counting)

\* The items of a group, and the items whose group is still to come.
Members(g) == UNION g
ToCome == UNION {Members(groups[k]) : k \in DOMAIN groups}

\* No two batches share an item.
Apart(batches) == \A b, c \in batches : b # c => b \cap c = {}

\* What the batches of a group in flight will still add to the numbers, or keep from
\* them: the results that came, and an item each for the batches that are out or lost.
Pending == IF phase = "call" THEN returned + Cardinality(UNION (waiting \cup lost)) ELSE 0

\* All groups are cut before the first is started: an item is still to come
\* or was handed out once, and comes before all the items of later groups.
ByGroups ==
    mode = "concurrent" =>
        /\ phase \in {"group", "call", "stopped"} /\ jolted = 0 /\ skipped = 0
        /\ \A j \in Item : handed[j] = IF j \in ToCome THEN 0 ELSE 1
        /\ \A k, l \in DOMAIN groups : \A x \in Members(groups[k]), y \in Members(groups[l]) : k < l => x < y
        /\ \A x \in Item \ ToCome, y \in ToCome : x < y
        /\ \A k \in DOMAIN groups : Apart(groups[k])
        /\ phase = "call" => Apart(waiting \cup lost) /\ waiting \cap lost = {}
        /\ LET flying == IF phase = "call" THEN Cardinality(batch) ELSE 0 IN
           phase # "stopped" =>
             /\ result.successful + result.failed + Pending = Cardinality(HandedOut) + surplus
             /\ result.processed = Cardinality(HandedOut) - flying


------------------------------------------------------------------------------
(* BatchRuns: slices and groups.                                           *)

LEMMA ConfigNumbers ==
    ASSUME BatchTypeOK
    PROVE  config.size \in Nat \ {0} /\ config.group \in Nat \ {0} /\ config.tries \in Nat
  BY BatchConstantsAssumption DEF BatchTypeOK

LEMMA Items ==
    /\ N \in Nat /\ IsFiniteSet(Item) /\ Cardinality(Item) = N
    /\ \A j : j \in Item <=> j \in Nat /\ j < N
    /\ \A S \in SUBSET Item : IsFiniteSet(S) /\ Cardinality(S) \in Nat
  <1>1. N \in Nat
    BY BatchConstantsAssumption
  <1>2. IsFiniteSet(Item) /\ Cardinality(Item) = N
    BY <1>1, FS_Interval DEF Item
  <1>3. \A j : j \in Item <=> j \in Nat /\ j < N
    BY <1>1 DEF Item
  <1>4. \A S \in SUBSET Item : IsFiniteSet(S) /\ Cardinality(S) \in Nat
    BY <1>2, FS_Subset, FS_CardinalityType
  <1> QED
    BY <1>1, <1>2, <1>3, <1>4

\* A slice that begins inside of the items is not empty, and ends with them.
LEMMA SliceSize ==
    ASSUME NEW i \in Nat, i < N, NEW size \in Nat \ {0}
    PROVE  /\ SliceAt(i, size) \in SUBSET Item
           /\ Cardinality(SliceAt(i, size)) = (IF i + size < N THEN i + size ELSE N) - i
  <1> DEFINE end == IF i + size < N THEN i + size ELSE N
  <1>1. end \in Nat /\ i < end
    BY Items
  <1>2. SliceAt(i, size) = i .. (end - 1)
    BY Items DEF SliceAt
  <1>3. Cardinality(i .. (end - 1)) = end - i
    <2> HIDE DEF end
    <2>1. end - 1 \in Nat /\ ~ (i > end - 1) /\ (end - 1) - i + 1 = end - i
      BY <1>1
    <2>2. Cardinality(i .. (end - 1)) = (end - 1) - i + 1
      BY <2>1, FS_Interval
    <2> QED
      BY <2>1, <2>2
  <1> QED
    BY <1>2, <1>3 DEF SliceAt

LEMMA Division ==
    ASSUME NEW a \in Nat, NEW d \in Nat \ {0}
    PROVE  a \div d \in Nat /\ d * (a \div d) <= a /\ a < d * (a \div d) + d
  <1>1. a \div d \in Nat
    OBVIOUS
  <1>2. d * (a \div d) <= a /\ a < d * (a \div d) + d
    OBVIOUS
  <1> QED
    BY <1>1, <1>2

LEMMA DivisionUnique ==
    ASSUME NEW a \in Nat, NEW d \in Nat \ {0}, NEW q \in Nat, d * q <= a, a < d * q + d
    PROVE  a \div d = q
  OBVIOUS

LEMMA DivisionMonotone ==
    ASSUME NEW a \in Nat, NEW b \in Nat, a <= b, NEW d \in Nat \ {0}
    PROVE  a \div d <= b \div d
  <1> DEFINE p == a \div d
             q == b \div d
  <1>1. p \in Nat /\ q \in Nat /\ d * p <= a /\ b < d * q + d
    BY Division
  <1> HIDE DEF p, q
  <1>2. CASE q + 1 <= p
    <2>1. d * (q + 1) <= d * p
      BY <1>1, <1>2
    <2>2. d * (q + 1) = d * q + d
      BY <1>1
    <2>3. d * p \in Int /\ d * q \in Int
      BY <1>1
    <2> QED
      BY <1>1, <2>1, <2>2, <2>3
  <1>3. p <= q
    BY <1>1, <1>2
  <1> QED
    BY <1>3 DEF p, q

\* The group of an item: that of the slice it is in.
GroupOf(j, size, width) == (j \div size) \div width + 1

\* The slice of an item begins at a multiple of the size.
LEMMA ItemOfSlice ==
    ASSUME NEW size \in Nat \ {0}, NEW i \in Item, i % size = 0, NEW j \in Item
    PROVE  j \in SliceAt(i, size) <=> i \div size = j \div size
  <1>1. i \in Nat /\ j \in Nat
    BY Items
  <1> DEFINE p == i \div size
             q == j \div size
  <1>2. i = size * p /\ p \in Nat
    BY <1>1
  <1>3. q \in Nat /\ size * q <= j /\ j < size * q + size
    BY <1>1, Division
  <1>4. size * p <= j /\ j < size * p + size => q = p
    BY <1>1, <1>2, DivisionUnique
  <1> HIDE DEF p, q
  <1>5. j \in SliceAt(i, size) <=> size * p <= j /\ j < size * p + size
    BY <1>2 DEF SliceAt
  <1>6. p = q <=> j \in SliceAt(i, size)
    BY <1>3, <1>4, <1>5
  <1> QED
    BY <1>6 DEF p, q

\* The first item of a slice is the one it was cut at.
LEMMA FirstOfSlice ==
    ASSUME NEW size \in Nat \ {0}, NEW i \in Item
    PROVE  First(SliceAt(i, size)) = i
  <1>1. i \in SliceAt(i, size) /\ \A j \in SliceAt(i, size) : i <= j
    BY Items DEF SliceAt
  <1>2. \A k \in SliceAt(i, size) : k \in Nat
    BY Items DEF SliceAt
  <1>3. \E k \in SliceAt(i, size) : \A j \in SliceAt(i, size) : k <= j
    BY <1>1
  <1>4. /\ First(SliceAt(i, size)) \in SliceAt(i, size)
        /\ \A j \in SliceAt(i, size) : First(SliceAt(i, size)) <= j
    BY <1>3 DEF First
  <1> QED
    BY <1>1, <1>2, <1>4, Items

\* The groups: every item is in one, and later items in later ones.
LEMMA GroupsCut ==
    ASSUME NEW size \in Nat \ {0}, NEW width \in Nat \ {0}
    PROVE  /\ GroupsOf(size, width) \in Seq(SUBSET SUBSET Item)
           /\ \A j \in Item : GroupOf(j, size, width) \in DOMAIN GroupsOf(size, width)
           /\ \A g \in DOMAIN GroupsOf(size, width) :
                Members(GroupsOf(size, width)[g]) = {j \in Item : GroupOf(j, size, width) = g}
           /\ \A x, y \in Item : GroupOf(x, size, width) < GroupOf(y, size, width) => x < y
           /\ \A g \in DOMAIN GroupsOf(size, width) : Apart(GroupsOf(size, width)[g])
  <1> DEFINE K == (N + size * width - 1) \div (size * width)
             G == GroupsOf(size, width)
             sw == size * width
             inGroup(g) == { b \in Batches(size) : (First(b) \div size) \div width = g }
  <1>0. N \in Nat
    BY Items
  <1>1. sw \in Nat \ {0}
    OBVIOUS
  <1>2. N + sw - 1 \in Nat
    <2> HIDE DEF sw
    <2> QED
      BY <1>0, <1>1
  <1>3. K \in Nat /\ sw * K <= N + sw - 1 /\ N + sw - 1 < sw * K + sw
    BY <1>1, <1>2, Division
  <1>4. G = [g \in 1 .. K |-> inGroup(g - 1)]
    BY DEF GroupsOf
  <1>5. Batches(size) \in SUBSET SUBSET Item
    BY DEF Batches, SliceAt
  <1>6. G \in Seq(SUBSET SUBSET Item) /\ DOMAIN G = 1 .. K
    <2>1. \A g \in 1 .. K : inGroup(g - 1) \in SUBSET SUBSET Item
      BY <1>5
    <2> HIDE DEF inGroup, K
    <2> QED
      BY <1>3, <1>4, <2>1
  <1>7. ASSUME NEW j \in Item PROVE GroupOf(j, size, width) \in 1 .. K
    <2> DEFINE q == j \div size
               r == q \div width
    <2>1. j \in Nat /\ j < N
      BY Items
    <2>2. q \in Nat /\ size * q <= j
      BY <2>1, Division
    <2>3. r \in Nat /\ width * r <= q
      BY <2>2, Division
    <2> HIDE DEF q, r, K, sw
    <2>4. size * (width * r) <= size * q
      BY <2>2, <2>3
    <2>5. sw * r <= j
      <3>1. sw * r = size * (width * r)
        BY <2>3 DEF sw
      <3>2. size * q \in Int /\ size * (width * r) \in Int
        BY <2>2, <2>3
      <3> QED
        BY <2>1, <2>2, <2>4, <3>1, <3>2
    <2>6. ASSUME K <= r PROVE FALSE
      <3>1. sw * K <= sw * r
        BY <1>1, <1>3, <2>3, <2>6
      <3>2. sw * K \in Int /\ sw * r \in Int
        BY <1>1, <1>3, <2>3
      <3> QED
        BY <1>0, <1>1, <1>3, <2>1, <2>5, <3>1, <3>2
    <2>7. r + 1 \in 1 .. K
      BY <1>3, <2>3, <2>6
    <2> QED
      BY <2>7 DEF GroupOf, q, r
  <1>8. ASSUME NEW g \in 1 .. K PROVE Members(G[g]) = {j \in Item : GroupOf(j, size, width) = g}
    <2>1. G[g] = inGroup(g - 1)
      BY <1>4
    <2>2. ASSUME NEW i \in Item, i % size = 0 PROVE (First(SliceAt(i, size)) \div size) \div width = (i \div size) \div width
      BY FirstOfSlice
    <2>3. ASSUME NEW j \in Members(G[g]) PROVE j \in Item /\ GroupOf(j, size, width) = g
      <3>1. PICK b \in inGroup(g - 1) : j \in b
        BY <2>1 DEF Members
      <3>2. PICK i \in Item : i % size = 0 /\ b = SliceAt(i, size)
        BY DEF Batches
      <3>3. (i \div size) \div width = g - 1
        BY <2>2, <3>2
      <3>4. j \in Item
        BY <3>1, <3>2 DEF SliceAt
      <3>5. i \div size = j \div size
        BY <3>1, <3>2, <3>4, ItemOfSlice
      <3>6. (j \div size) \div width = g - 1
        BY <3>3, <3>5
      <3> QED
        BY <1>3, <3>4, <3>6 DEF GroupOf
    <2>4. ASSUME NEW j \in Item, GroupOf(j, size, width) = g PROVE j \in Members(G[g])
      <3> DEFINE q == j \div size
                 i == size * q
      <3>1. j \in Nat /\ j < N
        BY Items
      <3>2. q \in Nat /\ size * q <= j /\ j < size * q + size
        BY <3>1, Division
      <3>3. i \in Nat /\ i <= j
        BY <3>1, <3>2
      <3>4. i \in Item
        BY <3>1, <3>3, Items
      <3>5. i % size = 0 /\ i \div size = q
        <4> HIDE DEF q
        <4> QED
          BY <3>2
      <3>6. j \in SliceAt(i, size)
        BY <3>4, <3>5, ItemOfSlice
      <3>7. (q \div width) + 1 = g
        BY <2>4 DEF GroupOf
      <3>8. q \div width = g - 1
        <4>1. q \div width \in Nat
          BY <3>2, Division
        <4> HIDE DEF q
        <4> QED
          BY <3>7, <4>1
      <3>9. (First(SliceAt(i, size)) \div size) \div width = g - 1
        BY <3>4, <3>5, <3>8, FirstOfSlice
      <3>10. SliceAt(i, size) \in inGroup(g - 1)
        BY <3>4, <3>5, <3>9 DEF Batches
      <3> QED
        BY <2>1, <3>6, <3>10 DEF Members
    <2> QED
      BY <2>3, <2>4
  <1>9. ASSUME NEW x \in Item, NEW y \in Item, GroupOf(x, size, width) < GroupOf(y, size, width)
        PROVE  x < y
    <2>1. x \in Nat /\ y \in Nat
      BY Items
    <2>2. CASE y <= x
      <3>1. y \div size <= x \div size /\ y \div size \in Nat /\ x \div size \in Nat
        BY <2>1, <2>2, Division, DivisionMonotone
      <3>2. (y \div size) \div width <= (x \div size) \div width
        BY <3>1, DivisionMonotone
      <3>3. (y \div size) \div width \in Nat /\ (x \div size) \div width \in Nat
        BY <3>1, Division
      <3> QED
        BY <1>9, <3>2, <3>3 DEF GroupOf
    <2> QED
      BY <2>1, <2>2
  <1>10. ASSUME NEW g \in 1 .. K PROVE Apart(G[g])
    <2>1. G[g] \subseteq Batches(size)
      BY <1>4
    <2>2. ASSUME NEW b \in Batches(size), NEW c \in Batches(size), NEW j \in Item, j \in b, j \in c
          PROVE  b = c
      <3>1. PICK i \in Item : i % size = 0 /\ b = SliceAt(i, size)
        BY DEF Batches
      <3>2. PICK k \in Item : k % size = 0 /\ c = SliceAt(k, size)
        BY DEF Batches
      <3>3. i \div size = j \div size /\ k \div size = j \div size
        BY <2>2, <3>1, <3>2, ItemOfSlice
      <3>4. \A x \in Item : x \in b <=> x \in c
        BY <3>1, <3>2, <3>3, ItemOfSlice
      <3> QED
        BY <1>5, <3>4
    <2> QED
      BY <1>5, <2>1, <2>2 DEF Apart
  <1> HIDE DEF K
  <1> QED
    BY <1>6, <1>7, <1>8, <1>9, <1>10


------------------------------------------------------------------------------
(* BatchRuns: the steps.                                                   *)

\* The numbers of a result after a batch is counted.
LEMMA CountedFields ==
    ASSUME BatchTypeOK, NEW n \in Nat, NEW failures \in Nat
    PROVE  /\ Counted(n, failures) \in ResultRecord
           /\ Counted(n, failures).processed = result.processed + Cardinality(batch)
           /\ Counted(n, failures).successful = result.successful + n
           /\ Counted(n, failures).failed = result.failed + failures
  <1>1. Cardinality(batch) \in Nat
    BY Items DEF BatchTypeOK
  <1>2. result.processed \in Int /\ result.successful \in Int /\ result.failed \in Int
    BY DEF BatchTypeOK, ResultRecord
  <1> QED
    BY <1>1, <1>2 DEF Counted, ResultRecord

\* A processor returns a number of results.
LEMMA ReturnsNumbers == \A S \in SUBSET Item : Returns(S) \subseteq Nat
  BY Items, BatchConstantsAssumption DEF Returns

\* The numbers after a batch is counted as failed.
LEMMA FailedFields ==
    ASSUME BatchTypeOK, NEW failures \in Nat
    PROVE  /\ [result EXCEPT !.failed = @ + failures] \in ResultRecord
           /\ [result EXCEPT !.failed = @ + failures].processed = result.processed
           /\ [result EXCEPT !.failed = @ + failures].successful = result.successful
           /\ [result EXCEPT !.failed = @ + failures].failed = result.failed + failures
  <1>1. result \in ResultRecord
    BY DEF BatchTypeOK
  <1> QED
    BY <1>1 DEF ResultRecord

LEMMA SettleTyped ==
    ASSUME BatchTypeOK, NEW n \in Nat, Settle(n)
    PROVE  /\ result' \in ResultRecord
           /\ jolted' \in Nat /\ at' \in Nat /\ batch' \in SUBSET Item /\ attempt' \in Nat
           /\ phase' \in Phases
  <1>1. Cardinality(batch) \in Nat
    BY Items DEF BatchTypeOK
  <1>2. Counted(n, 0) \in ResultRecord /\ Counted(n, Cardinality(batch)) \in ResultRecord
    BY <1>1, CountedFields
  <1>3. result' = Counted(n, 0) \/ result' = Counted(n, Cardinality(batch))
    BY DEF Settle
  <1>4. result' \in ResultRecord
    BY <1>2, <1>3
  <1>5. jolted' \in Nat
    BY <1>1 DEF Settle, BatchTypeOK
  <1>6. at' \in Nat /\ batch' \in SUBSET Item /\ attempt' \in Nat /\ phase' \in Phases
    BY ConfigNumbers DEF Settle, Advance, StepOn, BatchTypeOK, Phases
  <1> QED
    BY <1>4, <1>5, <1>6

LEMMA HandingTyped ==
    ASSUME BatchTypeOK, NEW items, Handing(items)
    PROVE  handed' \in [Item -> Nat]
           /\ \A j \in Item : handed'[j] = handed[j] + IF j \in items THEN 1 ELSE 0
  BY DEF Handing, BatchTypeOK

LEMMA BatchTypeStep ==
    ASSUME BatchTypeOK, [BatchNext]_batchVars
    PROVE  BatchTypeOK'
  <1>0. BatchTypeOK
    OBVIOUS
  <1>1. ASSUME NEW m \in {"plain", "retry", "concurrent"}, Begin(m) PROVE BatchTypeOK'
    <2>1. groups' \in Seq(SUBSET SUBSET Item)
      <3>1. GroupsOf(config.size, config.group) \in Seq(SUBSET SUBSET Item)
        BY ConfigNumbers, GroupsCut
      <3> QED
        BY <1>1, <3>1 DEF Begin
    <2>2. handed' \in [Item -> Nat] /\ result' \in ResultRecord
      BY <1>1 DEF Begin, NoResult, ResultRecord
    <2>3. mode' \in Modes /\ phase' \in Phases
      BY <1>1 DEF Begin, Modes, Phases
    <2>4. /\ config' = config /\ at' = 0 /\ batch' = {} /\ attempt' = 0 /\ waiting' = {} /\ lost' = {}
          /\ returned' = 0 /\ resized' = FALSE /\ jolted' = 0 /\ skipped' = 0 /\ surplus' = 0
      BY <1>1 DEF Begin
    <2>5. config' \in BatchConfigs
      BY <2>4 DEF BatchTypeOK
    <2>6. batch' \in SUBSET Item /\ waiting' \in SUBSET SUBSET Item /\ lost' \in SUBSET SUBSET Item
      BY <2>4
    <2>7. at' \in Nat /\ attempt' \in Nat /\ returned' \in Nat /\ jolted' \in Nat /\ skipped' \in Nat /\ surplus' \in Int
      BY <2>4
    <2>8. resized' \in BOOLEAN
      BY <2>4
    <2> QED
      BY <2>1, <2>2, <2>3, <2>5, <2>6, <2>7, <2>8 DEF BatchTypeOK
  <1>2. CASE Slice
    <2>1. batch' \in SUBSET Item /\ handed' \in [Item -> Nat]
      BY <1>2, HandingTyped DEF Slice, SliceAt, BatchTypeOK
    <2>2. phase' \in Phases
      BY <1>2 DEF Slice, Phases
    <2> QED
      BY <1>2, <2>1, <2>2 DEF Slice, group, BatchTypeOK
  <1>3. CASE Skip
    <2>1. Settle(0) /\ skipped' \in Nat
      BY <1>3, Items DEF Skip, BatchTypeOK
    <2>2. /\ result' \in ResultRecord
          /\ jolted' \in Nat /\ at' \in Nat /\ batch' \in SUBSET Item /\ attempt' \in Nat
          /\ phase' \in Phases
      BY <2>1, SettleTyped
    <2> QED
      BY <1>3, <2>1, <2>2 DEF Skip, group, BatchTypeOK
  <1>4. CASE Answer
    <2>0. PICK n \in Returns(batch) : Settle(n) /\ surplus' = surplus + n - Cardinality(batch)
      BY <1>4 DEF Answer
    <2>1. n \in Nat /\ surplus' \in Int
      BY <2>0, ReturnsNumbers, Items DEF BatchTypeOK
    <2>2. /\ result' \in ResultRecord
          /\ jolted' \in Nat /\ at' \in Nat /\ batch' \in SUBSET Item /\ attempt' \in Nat
          /\ phase' \in Phases
      BY <2>0, <2>1, SettleTyped
    <2> QED
      BY <1>4, <2>1, <2>2 DEF Answer, group, BatchTypeOK
  <1>5. CASE Throw
    <2>1. /\ result' \in ResultRecord
          /\ at' \in Nat /\ batch' \in SUBSET Item /\ attempt' \in Nat
      <3>1. Cardinality(batch) \in Nat /\ result \in ResultRecord
        BY Items DEF BatchTypeOK
      <3>2. [result EXCEPT !.failed = @ + Cardinality(batch)] \in ResultRecord
        BY <3>1, FailedFields
      <3>3. result' \in ResultRecord
        BY <1>5, <3>1, <3>2 DEF Throw
      <3> QED
        BY <1>5, <3>3, ConfigNumbers DEF Throw, Advance, StepOn, BatchTypeOK
    <2>2. phase' \in Phases
      BY <1>5 DEF Throw, Advance, Phases
    <2> QED
      BY <1>5, <2>1, <2>2 DEF Throw, group, BatchTypeOK
  <1>6. CASE Retry
    <2>1. phase' \in Phases
      BY <1>6 DEF Retry, Phases
    <2> QED
      BY <1>6, <2>1 DEF Retry, group, BatchTypeOK
  <1>7. CASE Resume
    <2>1. phase' \in Phases /\ at' \in Nat
      BY <1>7, ConfigNumbers DEF Resume, Advance, StepOn, Phases, BatchTypeOK
    <2> QED
      BY <1>7, <2>1 DEF Resume, Advance, group, BatchTypeOK
  <1>8. CASE StartGroup
    <2>1. CASE groups = << >>
      BY <1>8, <2>1 DEF StartGroup, group, BatchTypeOK, Phases
    <2>2. CASE groups # << >>
      <3>1. Head(groups) \in SUBSET SUBSET Item /\ Tail(groups) \in Seq(SUBSET SUBSET Item)
        BY <2>2 DEF BatchTypeOK
      <3>2. /\ groups' = Tail(groups) /\ waiting' = Head(groups) /\ lost' = {} /\ returned' = 0
            /\ batch' = UNION Head(groups) /\ Handing(batch') /\ phase' = "call"
            /\ UNCHANGED << config, mode, at, attempt, result, resized, jolted, skipped, surplus >>
        BY <1>8, <2>2 DEF StartGroup, NextGroup
      <3>3. handed' \in [Item -> Nat]
        BY <3>2, HandingTyped
      <3>4. batch' \in SUBSET Item
        BY <3>1, <3>2
      <3> QED
        BY <3>1, <3>2, <3>3, <3>4 DEF BatchTypeOK, Phases
    <2> QED
      BY <2>1, <2>2
  <1>9. CASE EndGroup
    <2>1. result' \in ResultRecord
      <3>1. UNION lost \in SUBSET Item
        BY DEF BatchTypeOK
      <3>2. Cardinality(UNION lost) \in Nat /\ Cardinality(batch) \in Nat
        BY <3>1, Items DEF BatchTypeOK
      <3> QED
        BY <1>9, <3>2 DEF EndGroup, BatchTypeOK, ResultRecord
    <2>2. phase' \in Phases
      BY <1>9 DEF EndGroup, Phases
    <2> QED
      BY <1>9, <2>1, <2>2 DEF EndGroup, group, BatchTypeOK
  <1>10. ASSUME NEW b \in waiting, EndBatch(b) PROVE BatchTypeOK'
    <2>1. b \in SUBSET Item /\ Cardinality(b) \in Nat
      BY Items DEF BatchTypeOK
    <2>2. returned' \in Nat /\ surplus' \in Int
      BY <1>10, <2>1, ReturnsNumbers DEF EndBatch, BatchTypeOK
    <2>3. lost' \in SUBSET SUBSET Item /\ waiting' \in SUBSET SUBSET Item
      BY <1>10, <2>1 DEF EndBatch, BatchTypeOK
    <2> QED
      BY <1>10, <2>2, <2>3 DEF EndBatch, BatchTypeOK
  <1>11. CASE UpdateConfig
    BY <1>11 DEF UpdateConfig, group, BatchTypeOK
  <1>12. CASE UNCHANGED batchVars
    BY <1>12 DEF batchVars, BatchTypeOK
  <1> QED
    BY <1>1, <1>2, <1>3, <1>4, <1>5, <1>6, <1>7, <1>8, <1>9, <1>10, <1>11, <1>12 DEF BatchNext

\* Every reachable state of a batch run is well typed, for any number of items
\* and whatever the configuration becomes meanwhile.
THEOREM BatchTypeCorrect == BatchSpec => []BatchTypeOK
  <1>1. BatchInit => BatchTypeOK
    <2> SUFFICES ASSUME BatchInit PROVE BatchTypeOK
      OBVIOUS
    <2>1. result \in ResultRecord /\ handed \in [Item -> Nat]
      BY DEF BatchInit, NoResult, ResultRecord
    <2>2. groups \in Seq(SUBSET SUBSET Item)
      BY DEF BatchInit
    <2>3. mode \in Modes /\ phase \in Phases
      BY DEF BatchInit, Modes, Phases
    <2>4. /\ config \in BatchConfigs /\ at = 0 /\ batch = {} /\ attempt = 0 /\ waiting = {} /\ lost = {}
          /\ returned = 0 /\ resized = FALSE /\ jolted = 0 /\ skipped = 0 /\ surplus = 0
      BY DEF BatchInit
    <2>5. batch \in SUBSET Item /\ waiting \in SUBSET SUBSET Item /\ lost \in SUBSET SUBSET Item
      BY <2>4
    <2>6. at \in Nat /\ attempt \in Nat /\ returned \in Nat /\ jolted \in Nat /\ skipped \in Nat /\ surplus \in Int
      BY <2>4
    <2>7. resized \in BOOLEAN
      BY <2>4
    <2> QED
      BY <2>1, <2>2, <2>3, <2>4, <2>5, <2>6, <2>7 DEF BatchTypeOK
  <1> QED
    BY <1>1, BatchTypeStep, PTL DEF BatchSpec


------------------------------------------------------------------------------
(* BatchRuns: one batch after the other.                                   *)

\* A batch is done with at the end of its call or of its skip: the numbers grow
\* by its items, and the index goes on now or after the pause.
LEMMA DoneInTurn ==
    ASSUME BatchTypeOK, InTurn, mode # "concurrent", phase \in {"call", "skip"},
           UNCHANGED << config, mode, handed, resized >>,
           skipped' \in Nat, phase = "call" => skipped' = skipped,
           phase = "skip" => skipped' = skipped + Cardinality(batch),
           \/ Advance
           \/ phase' = "stopped" /\ UNCHANGED << at, batch >>
           \/ phase' = "pause" /\ at + config.size < N /\ UNCHANGED << at, batch >>,
           phase' # "stopped" =>
             /\ result'.successful + result'.failed
                  = result.successful + result.failed + Cardinality(batch)
                    + (jolted' - jolted) - (skipped' - skipped) + (surplus' - surplus)
             /\ result'.processed - (IF mode = "plain" THEN jolted' - result'.failed ELSE 0)
                  = result.processed - (IF mode = "plain" THEN jolted - result.failed ELSE 0)
                    + Cardinality(batch),
           result' \in ResultRecord, jolted' \in Nat, surplus' \in Int
    PROVE  InTurn'
  <1> DEFINE size == config.size
             c == Cardinality(batch)
             F(r) == r.failed
  <1>0. /\ N \in Nat /\ at \in Nat /\ jolted \in Nat /\ skipped \in Nat /\ size \in Nat \ {0}
        /\ surplus \in Int
        /\ result.processed \in Int /\ result.successful \in Int /\ result.failed \in Int
        /\ result'.processed \in Int /\ result'.successful \in Int /\ result'.failed \in Int
        /\ config' = config /\ mode' = mode /\ handed' = handed /\ resized' = resized
    BY Items, ConfigNumbers DEF BatchTypeOK, ResultRecord
  <1>1. phase' \in {"loop", "stopped", "pause"}
    BY DEF Advance
  <1>2. ASSUME resized PROVE InTurn'
    BY <1>0, <1>1, <1>2 DEF InTurn
  <1> SUFFICES ASSUME ~resized PROVE InTurn'
    BY <1>2
  <1>3. at < N /\ batch = SliceAt(at, size)
    BY DEF InTurn
  <1>4. c = (IF at + size < N THEN at + size ELSE N) - at /\ c \in Nat \ {0}
    BY <1>0, <1>3, SliceSize
  <1>5. phase' = "loop" => at' = at + size
    BY DEF Advance, StepOn
  <1>6. phase' # "loop" => at' = at /\ batch' = batch
    BY DEF Advance
  <1>7. \A j \in Item : handed[j] <= 1 /\ (handed[j] > 0 => j < at + size)
    BY DEF InTurn, Reach
  <1>8. skipped' = 0 => HandedBelow(at + size)
    <2>1. CASE phase = "call"
      BY <2>1 DEF InTurn, Reach
    <2>2. CASE phase = "skip"
      <3>1. skipped' # 0
        <4> HIDE DEF c
        <4> QED
          BY <1>0, <1>4, <2>2 DEF c
      <3> QED
        BY <3>1
    <2> QED
      BY <2>1, <2>2
  <1>9. Reach' = at + size
    BY <1>0, <1>5, <1>6 DEF Reach
  <1>10. \A j \in Item : handed'[j] <= 1 /\ (handed'[j] > 0 => j < Reach')
    BY <1>0, <1>7, <1>9
  <1>11. skipped' = 0 => HandedBelow(Reach)'
    BY <1>0, <1>8, <1>9 DEF HandedBelow
  <1>12. phase' = "pause" => at' < N /\ batch' = SliceAt(at', config'.size)
    BY <1>0, <1>3, <1>6
  <1>13. ASSUME phase' # "stopped" PROVE Totals(Counting)'
    <2>1. Counting' = at + size
      BY <1>0, <1>1, <1>5, <1>6, <1>13 DEF Counting
    <2>2. /\ result.successful + result.failed = at + jolted - skipped + surplus
          /\ result.processed = at - (IF mode = "plain" THEN result.failed - jolted ELSE 0)
      BY <1>3 DEF InTurn, Totals, Counting
    <2> HIDE DEF c
    <2>3. /\ result'.successful + result'.failed = (at + c) + jolted' - skipped' + surplus'
          /\ result'.processed = (at + c) - (IF mode = "plain" THEN result'.failed - jolted' ELSE 0)
      BY <1>0, <1>4, <1>13, <2>2 DEF c
    <2>4. at + c = IF at + size < N THEN at + size ELSE N
      BY <1>0, <1>4
    <2> QED
      BY <1>0, <2>1, <2>3, <2>4 DEF Totals
  <1> QED
    BY <1>0, <1>1, <1>10, <1>11, <1>12, <1>13 DEF InTurn


\* A batch that is settled with n results: what they are more or fewer than its items
\* is surplus, or was skipped.
LEMMA SettleInTurn ==
    ASSUME BatchTypeOK, InTurn, mode # "concurrent", phase \in {"call", "skip"}, NEW n \in Nat,
           UNCHANGED << config, mode, handed, resized >>, skipped' \in Nat, surplus' \in Int,
           phase = "call" => surplus' = surplus + n - Cardinality(batch) /\ skipped' = skipped,
           phase = "skip" => n = 0 /\ surplus' = surplus /\ skipped' = skipped + Cardinality(batch),
           Settle(n)
    PROVE  InTurn'
  <1> DEFINE c == Cardinality(batch)
  <1>1. /\ c \in Nat /\ jolted \in Nat /\ skipped \in Nat /\ skipped' \in Nat /\ surplus \in Int
        /\ result.processed \in Int /\ result.successful \in Int /\ result.failed \in Int
    BY Items DEF BatchTypeOK, ResultRecord
  <1>2. (surplus' - surplus) - (skipped' - skipped) = n - c
    <2> HIDE DEF c
    <2>1. CASE phase = "call"
      BY <1>1, <2>1 DEF c
    <2>2. CASE phase = "skip"
      BY <1>1, <2>2 DEF c
    <2> QED
      BY <2>1, <2>2
  <1>3. result' \in ResultRecord /\ jolted' \in Nat
    BY SettleTyped
  <1>4. \/ Advance
        \/ phase' = "stopped" /\ UNCHANGED << at, batch >>
        \/ phase' = "pause" /\ at + config.size < N /\ UNCHANGED << at, batch >>
    BY DEF Settle
  <1>5. phase' # "stopped" =>
           \/ /\ mode = "plain" /\ jolted' = jolted + c
              /\ result' = Counted(n, c)
           \/ jolted' = jolted /\ result' = Counted(n, 0)
    BY DEF Settle
  <1>6. ASSUME phase' # "stopped"
        PROVE  /\ result'.successful + result'.failed
                    = result.successful + result.failed + c + (jolted' - jolted) - (skipped' - skipped)
                      + (surplus' - surplus)
               /\ result'.processed - (IF mode = "plain" THEN jolted' - result'.failed ELSE 0)
                    = result.processed - (IF mode = "plain" THEN jolted - result.failed ELSE 0) + c
    <2>1. ASSUME NEW x \in Nat, jolted' = jolted + x, result' = Counted(n, x), x = 0 \/ mode = "plain"
          PROVE  /\ result'.successful + result'.failed
                      = result.successful + result.failed + c + (jolted' - jolted) - (skipped' - skipped)
                        + (surplus' - surplus)
                 /\ result'.processed - (IF mode = "plain" THEN jolted' - result'.failed ELSE 0)
                      = result.processed - (IF mode = "plain" THEN jolted - result.failed ELSE 0) + c
      <3>1. /\ result'.processed = result.processed + c /\ result'.successful = result.successful + n
            /\ result'.failed = result.failed + x
        BY <2>1, CountedFields
      <3> HIDE DEF c
      <3>2. result'.successful + result'.failed = result.successful + result.failed + n + x
        BY <1>1, <2>1, <3>1
      <3>3. result'.successful + result'.failed
              = result.successful + result.failed + c + (jolted' - jolted) - (skipped' - skipped)
                + (surplus' - surplus)
        <4> DEFINE sum == result'.successful + result'.failed
                   old == result.successful + result.failed
        <4>1. sum = old + n + x /\ old \in Int
          BY <1>1, <3>2
        <4> DEFINE dj == jolted' - jolted
                   dk == skipped' - skipped
                   ds == surplus' - surplus
        <4>2. sum \in Int
          BY <1>1, <4>1
        <4>3. dj = x /\ dj \in Int
          BY <1>1, <2>1
        <4>4. dk \in Int /\ ds \in Int
          BY <1>1
        <4>5. ds - dk = n - c
          BY <1>2
        <4> HIDE DEF sum, old, dj, dk, ds
        <4>6. sum = old + c + dj - dk + ds
          BY <1>1, <4>1, <4>2, <4>3, <4>4, <4>5
        <4> QED
          BY <4>6 DEF sum, old, dj, dk, ds
      <3>4. result'.processed - (jolted' - result'.failed) = result.processed - (jolted - result.failed) + c
        BY <1>1, <2>1, <3>1
      <3>5. result'.processed = result.processed + c
        BY <3>1
      <3> QED
        BY <1>1, <3>3, <3>4, <3>5
    <2> HIDE DEF c
    <2>2. jolted + 0 = jolted
      BY <1>1
    <2> QED
      BY <1>1, <1>5, <1>6, <2>1, <2>2
  <1> QED
    BY <1>3, <1>4, <1>6, DoneInTurn

\* The slice at the index is handed out, or will be skipped.
LEMMA SliceInTurn ==
    ASSUME BatchTypeOK, InTurn, Slice
    PROVE  InTurn'
  <1>0. /\ N \in Nat /\ at \in Nat /\ config.size \in Nat \ {0} /\ at < N
        /\ mode # "concurrent" /\ phase = "loop" /\ batch' = SliceAt(at, config.size)
        /\ UNCHANGED << config, mode, at, result, resized, jolted, skipped, surplus >>
    BY Items, ConfigNumbers DEF BatchTypeOK, Slice
  <1>1. phase' \in {"skip", "call"} /\ (phase' = "skip" => mode = "retry")
    BY DEF Slice
  <1> SUFFICES ASSUME ~resized PROVE InTurn'
    BY <1>0, <1>1 DEF InTurn
  <1>2. /\ \A j \in Item : handed[j] <= 1 /\ (handed[j] > 0 => j < at)
        /\ skipped = 0 => HandedBelow(at)
        /\ Totals(at)
    BY <1>0 DEF InTurn, Reach, Counting
  <1>3. Reach' = at + config.size /\ Counting' = at
    BY <1>0, <1>1 DEF Reach, Counting
  <1>4. Totals(Counting)'
    BY <1>0, <1>2, <1>3 DEF Totals
  <1>5. CASE phase' = "skip"
    <2>1. handed' = handed
      BY <1>5 DEF Slice
    <2>2. \A j \in Item : handed'[j] <= 1 /\ (handed'[j] > 0 => j < Reach')
      BY <1>0, <1>2, <1>3, <2>1, Items
    <2>3. skipped' = 0 => HandedBelow(at)'
      BY <1>0, <1>2, <2>1 DEF HandedBelow
    <2> QED
      BY <1>0, <1>1, <1>4, <1>5, <2>2, <2>3 DEF InTurn
  <1>6. CASE phase' = "call"
    <2>1. Handing(batch')
      BY <1>6 DEF Slice
    <2>2. \A j \in Item : handed'[j] = handed[j] + IF j \in batch' THEN 1 ELSE 0
      BY <2>1, HandingTyped
    <2>3. \A j \in Item : j \in Nat /\ handed[j] \in Nat /\ (j \in batch' <=> at <= j /\ j < at + config.size)
      BY <1>0, Items DEF SliceAt, BatchTypeOK
    <2>4. \A j \in Item : handed'[j] <= 1 /\ (handed'[j] > 0 => j < Reach')
      BY <1>0, <1>2, <1>3, <2>2, <2>3
    <2>5. ASSUME skipped' = 0, NEW j \in Item PROVE handed'[j] = IF j < Reach' THEN 1 ELSE 0
      <3>1. handed[j] = IF j < at THEN 1 ELSE 0
        BY <1>0, <1>2, <2>5 DEF HandedBelow
      <3> QED
        BY <1>0, <1>3, <2>2, <2>3, <3>1
    <2>6. skipped' = 0 => HandedBelow(Reach)'
      BY <2>5 DEF HandedBelow
    <2> QED
      BY <1>0, <1>1, <1>4, <1>6, <2>4, <2>6 DEF InTurn
  <1> QED
    BY <1>1, <1>5, <1>6

LEMMA InTurnStep ==
    ASSUME BatchTypeOK, InTurn, [BatchNext]_batchVars
    PROVE  InTurn'
  <1>0. /\ N \in Nat /\ at \in Nat /\ config.size \in Nat \ {0}
        /\ jolted \in Nat /\ skipped \in Nat /\ surplus \in Int /\ batch \in SUBSET Item
    BY Items, ConfigNumbers DEF BatchTypeOK
  <1>1. ASSUME NEW m \in {"plain", "retry", "concurrent"}, Begin(m) PROVE InTurn'
    <2> SUFFICES ASSUME mode' # "concurrent" PROVE InTurn'
      BY <1>1 DEF InTurn, Begin
    <2>1. /\ phase' = "loop" /\ at' = 0 /\ handed' = [i \in Item |-> 0]
          /\ jolted' = 0 /\ skipped' = 0 /\ surplus' = 0 /\ result' = NoResult
      BY <1>1 DEF Begin
    <2>2. Reach' = 0 /\ Counting' = 0
      BY <2>1 DEF Reach, Counting
    <2>3. Totals(Counting)'
      BY <1>0, <2>1, <2>2 DEF Totals, NoResult
    <2>4. HandedBelow(Reach)'
      BY <2>1, <2>2, Items DEF HandedBelow
    <2>5. \A j \in Item : handed'[j] <= 1 /\ (handed'[j] > 0 => j < Reach')
      BY <2>1
    <2> QED
      BY <2>1, <2>3, <2>4, <2>5 DEF InTurn
  <1>2. CASE Slice
    BY <1>2, SliceInTurn
  <1>3. CASE Skip
    <2>1. /\ mode # "concurrent" /\ phase = "skip" /\ Settle(0)
          /\ UNCHANGED << config, mode, handed, resized, surplus >>
          /\ skipped' = skipped + Cardinality(batch) /\ skipped' \in Nat
      BY <1>0, <1>3, Items DEF Skip, InTurn
    <2> QED
      BY <1>0, <2>1, SettleInTurn
  <1>4. CASE Answer
    <2>1. /\ mode # "concurrent" /\ phase = "call"
          /\ UNCHANGED << config, mode, handed, resized, skipped >>
      BY <1>4 DEF Answer
    <2>2. PICK n \in Returns(batch) : Settle(n) /\ surplus' = surplus + n - Cardinality(batch)
      BY <1>4 DEF Answer
    <2>3. n \in Nat /\ surplus' \in Int
      BY <1>0, <2>2, ReturnsNumbers, Items
    <2> QED
      BY <1>0, <2>1, <2>2, <2>3, SettleInTurn
  <1>5. CASE Throw
    <2>1. /\ mode # "concurrent" /\ phase = "call"
          /\ UNCHANGED << config, mode, handed, resized, jolted, skipped, surplus >>
      BY <1>5 DEF Throw
    <2>2. CASE mode = "plain"
      <3> DEFINE c == Cardinality(batch)
      <3>1. result' = [result EXCEPT !.failed = @ + c] /\ Advance /\ c \in Nat
        BY <1>0, <1>5, <2>2, Items DEF Throw
      <3>2. /\ result' \in ResultRecord /\ result'.processed = result.processed
            /\ result'.successful = result.successful /\ result'.failed = result.failed + c
        BY <3>1, FailedFields
      <3>3. result.processed \in Int /\ result.successful \in Int /\ result.failed \in Int
        BY DEF BatchTypeOK, ResultRecord
      <3>4. /\ result'.successful + result'.failed
                 = result.successful + result.failed + c + (jolted' - jolted) - (skipped' - skipped)
                   + (surplus' - surplus)
            /\ result'.processed - (IF mode = "plain" THEN jolted' - result'.failed ELSE 0)
                 = result.processed - (IF mode = "plain" THEN jolted - result.failed ELSE 0) + c
        <4> HIDE DEF c
        <4>1. jolted' = jolted /\ skipped' = skipped /\ surplus' = surplus
          BY <2>1
        <4>2. result'.processed - (jolted - result'.failed) = result.processed - (jolted - result.failed) + c
          BY <1>0, <3>1, <3>2, <3>3
        <4>3. result'.successful + result'.failed
                 = result.successful + result.failed + c + (jolted - jolted) - (skipped - skipped)
                   + (surplus - surplus)
          BY <1>0, <3>1, <3>2, <3>3
        <4> QED
          BY <2>2, <4>1, <4>2, <4>3
      <3> QED
        BY <1>0, <2>1, <3>1, <3>2, <3>4, DoneInTurn
    <2>3. CASE mode # "plain"
      <3>1. /\ phase' \in {"stopped", "backoff"} /\ UNCHANGED << result, at, batch >>
            /\ mode = "retry"
        BY <1>5, <2>1, <2>3 DEF Throw, BatchTypeOK, Modes
      <3> SUFFICES ASSUME ~resized PROVE InTurn'
        BY <2>1, <3>1 DEF InTurn
      <3>2. Reach' = Reach /\ Counting' = at /\ Counting = at
        BY <2>1, <3>1 DEF Reach, Counting
      <3>3. (Totals(Counting) => Totals(Counting)') /\ (HandedBelow(Reach) => HandedBelow(Reach)')
        BY <2>1, <3>1, <3>2 DEF Totals, HandedBelow
      <3> QED
        BY <2>1, <3>1, <3>2, <3>3 DEF InTurn
    <2> QED
      BY <2>2, <2>3
  <1>6. CASE Retry
    <2>1. /\ phase = "backoff" /\ phase' \in {"call", "skip"} /\ mode = "retry"
          /\ UNCHANGED << config, mode, at, batch, result, handed, resized, jolted, skipped, surplus >>
      BY <1>6 DEF Retry, InTurn
    <2>2. Reach' = Reach /\ Counting' = Counting
      BY <2>1 DEF Reach, Counting
    <2>3. (Totals(Counting) => Totals(Counting)') /\ (HandedBelow(Reach) => HandedBelow(Reach)')
      BY <2>1, <2>2 DEF Totals, HandedBelow
    <2> QED
      BY <2>1, <2>2, <2>3 DEF InTurn
  <1>7. CASE Resume
    <2>1. /\ mode # "concurrent" /\ phase = "pause" /\ at' = at + config.size /\ phase' = "loop"
          /\ UNCHANGED << config, mode, result, handed, resized, jolted, skipped, surplus >>
      BY <1>7 DEF Resume, Advance, StepOn
    <2>2. Reach' = Reach /\ Counting' = Counting
      BY <2>1 DEF Reach, Counting
    <2>3. (Totals(Counting) => Totals(Counting)') /\ (HandedBelow(Reach) => HandedBelow(Reach)')
      BY <2>1, <2>2 DEF Totals, HandedBelow
    <2> QED
      BY <2>1, <2>2, <2>3 DEF InTurn
  <1>8. ASSUME mode = "concurrent", mode' = "concurrent", phase' \notin {"skip", "backoff"} PROVE InTurn'
    BY <1>8 DEF InTurn
  <1>9. ASSUME StartGroup \/ EndGroup \/ (\E b \in waiting : EndBatch(b)) PROVE InTurn'
    BY <1>8, <1>9 DEF StartGroup, EndGroup, EndBatch
  <1>10. CASE UpdateConfig
    <2>1. UNCHANGED << mode, phase, at, batch, result, handed, jolted, skipped, surplus >>
      BY <1>10 DEF UpdateConfig
    <2> SUFFICES ASSUME mode # "concurrent", ~resized' PROVE InTurn'
      BY <2>1 DEF InTurn
    <2>2. ~resized /\ config'.size = config.size
      BY <1>10 DEF UpdateConfig
    <2>3. Reach' = Reach /\ Counting' = Counting
      BY <2>1, <2>2 DEF Reach, Counting
    <2>4. (Totals(Counting) => Totals(Counting)') /\ (HandedBelow(Reach) => HandedBelow(Reach)')
          /\ (HandedBelow(at) => HandedBelow(at)')
      BY <2>1, <2>3 DEF Totals, HandedBelow
    <2> QED
      BY <2>1, <2>2, <2>3, <2>4 DEF InTurn
  <1>11. CASE UNCHANGED batchVars
    <2>1. Reach' = Reach /\ Counting' = Counting
      BY <1>11 DEF batchVars, Reach, Counting
    <2>2. (Totals(Counting) => Totals(Counting)') /\ (HandedBelow(Reach) => HandedBelow(Reach)')
          /\ (HandedBelow(at) => HandedBelow(at)')
      BY <1>11, <2>1 DEF batchVars, Totals, HandedBelow
    <2> QED
      BY <1>11, <2>1, <2>2 DEF batchVars, InTurn
  <1> QED
    BY <1>1, <1>2, <1>3, <1>4, <1>5, <1>6, <1>7, <1>9, <1>10, <1>11 DEF BatchNext

------------------------------------------------------------------------------
(* BatchRuns: group after group.                                           *)

\* In the concurrent mode what was handed out is what is no longer to come.
LEMMA OutOrToCome ==
    ASSUME BatchTypeOK, ByGroups, mode = "concurrent"
    PROVE  HandedOut = Item \ ToCome /\ HandedOut \in SUBSET Item
  <1>1. \A j \in Item : handed[j] = IF j \in ToCome THEN 0 ELSE 1
    BY DEF ByGroups
  <1> QED
    BY <1>1 DEF HandedOut

\* What is to come is the next group and what comes after it.
LEMMA NextToCome ==
    ASSUME BatchTypeOK, ByGroups, mode = "concurrent", groups # << >>, groups' = Tail(groups)
    PROVE  /\ ToCome = Members(Head(groups)) \cup ToCome'
           /\ \A x \in Members(Head(groups)), y \in ToCome' : x < y
           /\ \A k, l \in DOMAIN groups' : \A x \in Members(groups'[k]), y \in Members(groups'[l]) : k < l => x < y
           /\ Members(Head(groups)) \in SUBSET Item /\ ToCome' \in SUBSET Item
  <1>1. groups \in Seq(SUBSET SUBSET Item)
    BY DEF BatchTypeOK
  <1>2. /\ Len(groups) \in Nat \ {0} /\ DOMAIN groups = 1 .. Len(groups)
        /\ Head(groups) = groups[1]
        /\ DOMAIN Tail(groups) = 1 .. Len(groups) - 1
        /\ \A k \in DOMAIN Tail(groups) : Tail(groups)[k] = groups[k + 1]
    BY <1>1
  <1>3. \A k \in DOMAIN groups' : k + 1 \in DOMAIN groups /\ groups'[k] = groups[k + 1] /\ 1 < k + 1
    BY <1>2
  <1>4. \A k \in DOMAIN groups : Members(groups[k]) \in SUBSET Item
    BY <1>1, <1>2 DEF Members
  <1>5. 1 \in DOMAIN groups /\ \A k \in DOMAIN groups : k = 1 \/ (k - 1 \in DOMAIN groups' /\ groups'[k - 1] = groups[k])
    <2>1. 1 \in DOMAIN groups
      BY <1>2
    <2>2. ASSUME NEW k \in DOMAIN groups, k # 1 PROVE k - 1 \in DOMAIN groups' /\ groups'[k - 1] = groups[k]
      <3>1. k - 1 \in 1 .. Len(groups) - 1 /\ (k - 1) + 1 = k
        BY <1>2, <2>2
      <3> QED
        BY <1>2, <3>1
    <2> QED
      BY <2>1, <2>2
  <1>6. ASSUME NEW x \in ToCome' PROVE x \in ToCome /\ \E k \in DOMAIN groups' : x \in Members(groups[k + 1])
    BY <1>3 DEF ToCome
  <1>7. ASSUME NEW x \in ToCome PROVE x \in Members(Head(groups)) \/ x \in ToCome'
    <2>1. PICK k \in DOMAIN groups : x \in Members(groups[k])
      BY DEF ToCome
    <2> QED
      BY <1>2, <1>5, <2>1 DEF ToCome
  <1>8. Members(Head(groups)) \subseteq ToCome
    BY <1>2, <1>5 DEF ToCome
  <1>9. \A k, l \in DOMAIN groups : \A x \in Members(groups[k]), y \in Members(groups[l]) : k < l => x < y
    BY DEF ByGroups
  <1>10. \A x \in Members(Head(groups)), y \in ToCome' : x < y
    BY <1>2, <1>3, <1>5, <1>6, <1>9
  <1>11. ASSUME NEW k \in DOMAIN groups', NEW l \in DOMAIN groups', k < l,
                NEW x \in Members(groups'[k]), NEW y \in Members(groups'[l])
         PROVE  x < y
    <2>1. k + 1 < l + 1
      BY <1>2, <1>11
    <2> QED
      BY <1>3, <1>9, <2>1
  <1>12. ToCome' \in SUBSET Item
    BY <1>3, <1>4, <1>6
  <1> QED
    BY <1>2, <1>4, <1>5, <1>6, <1>7, <1>8, <1>10, <1>11, <1>12

LEMMA StartInGroups ==
    ASSUME BatchTypeOK, ByGroups, StartGroup, groups # << >>
    PROVE  ByGroups'
  <1>1. /\ mode = "concurrent" /\ phase = "group" /\ groups' = Tail(groups)
        /\ batch' = Members(Head(groups)) /\ Handing(batch') /\ phase' = "call"
        /\ waiting' = Head(groups) /\ lost' = {} /\ returned' = 0
        /\ UNCHANGED << mode, result, jolted, skipped, surplus >>
    BY DEF StartGroup, NextGroup, Members
  <1>2. /\ ToCome = batch' \cup ToCome' /\ \A x \in batch', y \in ToCome' : x < y
        /\ \A k, l \in DOMAIN groups' : \A x \in Members(groups'[k]), y \in Members(groups'[l]) : k < l => x < y
        /\ batch' \in SUBSET Item /\ ToCome' \in SUBSET Item
    BY <1>1, NextToCome
  <1>3. /\ \A j \in Item : handed[j] = IF j \in ToCome THEN 0 ELSE 1
        /\ \A x \in Item \ ToCome, y \in ToCome : x < y
        /\ jolted = 0 /\ skipped = 0
        /\ result.successful + result.failed + 0 = Cardinality(HandedOut) + surplus
        /\ result.processed = Cardinality(HandedOut) - 0
    BY <1>1 DEF ByGroups, Pending
  <1>4. batch' \cap ToCome' = {}
    BY <1>2, Items
  <1>5. \A j \in Item : handed'[j] = IF j \in ToCome' THEN 0 ELSE 1
    <2>1. \A j \in Item : handed'[j] = handed[j] + IF j \in batch' THEN 1 ELSE 0
      BY <1>1, HandingTyped
    <2> QED
      BY <1>2, <1>3, <1>4, <2>1
  <1>6. \A x \in Item \ ToCome', y \in ToCome' : x < y
    BY <1>2, <1>3
  <1>7. HandedOut = Item \ ToCome /\ HandedOut' = Item \ ToCome'
    BY <1>3, <1>5 DEF HandedOut
  <1>8. Cardinality(HandedOut') = Cardinality(HandedOut) + Cardinality(batch')
    <2>1. HandedOut' = HandedOut \cup batch' /\ HandedOut \cap batch' = {}
      BY <1>2, <1>4, <1>7
    <2>2. IsFiniteSet(HandedOut) /\ IsFiniteSet(batch')
      BY <1>2, <1>7, Items
    <2>3. Cardinality(HandedOut \cup batch') = Cardinality(HandedOut) + Cardinality(batch') - Cardinality(HandedOut \cap batch')
      BY <2>2, FS_Union
    <2>4. Cardinality(HandedOut \cap batch') = 0
      BY <2>1, FS_EmptySet
    <2>5. Cardinality(HandedOut) \in Nat /\ Cardinality(batch') \in Nat
      BY <2>2, FS_CardinalityType
    <2> QED
      BY <2>1, <2>3, <2>4, <2>5
  <1>9. /\ result'.successful + result'.failed + Pending' = Cardinality(HandedOut') + surplus'
        /\ result'.processed = Cardinality(HandedOut') - Cardinality(batch')
    <2>1. Cardinality(HandedOut) \in Nat /\ Cardinality(batch') \in Nat
      BY <1>2, <1>7, Items
    <2>2. Pending' = 0 + Cardinality(batch')
      <3>1. UNION (waiting' \cup lost') = batch'
        BY <1>1 DEF Members
      <3> QED
        BY <1>1, <3>1 DEF Pending
    <2>3. result.successful \in Int /\ result.failed \in Int /\ surplus \in Int
      BY DEF BatchTypeOK, ResultRecord
    <2> QED
      BY <1>1, <1>3, <1>8, <2>1, <2>2, <2>3
  <1>10. /\ Apart(waiting' \cup lost') /\ waiting' \cap lost' = {}
         /\ \A k \in DOMAIN groups' : Apart(groups'[k])
    <2>1. groups \in Seq(SUBSET SUBSET Item)
      BY DEF BatchTypeOK
    <2>2. /\ 1 \in DOMAIN groups /\ Head(groups) = groups[1]
          /\ \A k \in DOMAIN groups' : k + 1 \in DOMAIN groups /\ groups'[k] = groups[k + 1]
      BY <1>1, <2>1
    <2>3. \A k \in DOMAIN groups : Apart(groups[k])
      BY <1>1 DEF ByGroups
    <2>4. waiting' \cup lost' = Head(groups)
      BY <1>1
    <2> QED
      BY <1>1, <2>2, <2>3, <2>4
  <1> QED
    BY <1>1, <1>2, <1>3, <1>5, <1>6, <1>9, <1>10 DEF ByGroups

\* A batch that answers is no longer counted as out: what it returned is pending
\* instead, and what it returned beyond its items is surplus.  One that is lost stays.
LEMMA BatchInGroups ==
    ASSUME BatchTypeOK, ByGroups, NEW b \in waiting, EndBatch(b)
    PROVE  ByGroups'
  <1> DEFINE all == waiting \cup lost
             out == Cardinality(UNION all)
             s == result.successful + result.failed
             h == Cardinality(HandedOut)
  <1>1. /\ mode = "concurrent" /\ phase = "call" /\ waiting' = waiting \ {b}
        /\ UNCHANGED << mode, phase, batch, groups, result, handed, jolted, skipped >>
    BY DEF EndBatch
  <1>2. HandedOut' = HandedOut /\ ToCome' = ToCome
    BY <1>1 DEF HandedOut, ToCome
  <1>3. Apart(all) /\ b \notin lost /\ waiting \cap lost = {} /\ s + (returned + out) = h + surplus
    BY <1>1 DEF ByGroups, Pending
  <1>4. /\ all \in SUBSET SUBSET Item /\ UNION all \in SUBSET Item /\ HandedOut \in SUBSET Item
        /\ b \in SUBSET Item
    BY DEF BatchTypeOK, HandedOut
  <1>5. /\ out \in Nat /\ h \in Nat /\ Cardinality(b) \in Nat /\ s \in Int
        /\ returned \in Nat /\ surplus \in Int
    BY <1>4, Items DEF BatchTypeOK, ResultRecord
  <1>6. s + (returned' + Cardinality(UNION (waiting' \cup lost'))) = h + surplus'
        /\ Apart(waiting' \cup lost') /\ waiting' \cap lost' = {}
    <2>1. CASE lost' = lost \cup {b} /\ UNCHANGED << returned, surplus >>
      <3>1. waiting' \cup lost' = all
        BY <1>1, <2>1
      <3> QED
        BY <1>1, <1>3, <2>1, <3>1
    <2>2. CASE lost' = lost /\ \E n \in Returns(b) : returned' = returned + n /\ surplus' = surplus + n - Cardinality(b)
      <3>1. PICK n \in Returns(b) : returned' = returned + n /\ surplus' = surplus + n - Cardinality(b)
        BY <2>2
      <3>2. n \in Nat
        BY <1>4, <3>1, ReturnsNumbers
      <3> DEFINE rest == all \ {b}
                 left == Cardinality(UNION rest)
      <3>3. waiting' \cup lost' = rest
        BY <1>1, <1>3, <2>2
      <3>4. UNION all = b \cup UNION rest /\ b \cap UNION rest = {}
        BY <1>3 DEF Apart
      <3>5. out = Cardinality(b) + left /\ left \in Nat
        <4>1. IsFiniteSet(b) /\ IsFiniteSet(UNION rest) /\ left \in Nat
          BY <1>4, Items
        <4>2. Cardinality(b \cup UNION rest) = Cardinality(b) + left - Cardinality(b \cap UNION rest)
          BY <4>1, FS_Union
        <4>3. Cardinality(b \cap UNION rest) = 0
          BY <3>4, FS_EmptySet
        <4>4. out = Cardinality(b \cup UNION rest)
          BY <3>4
        <4> HIDE DEF out, left, rest
        <4> QED
          BY <1>5, <4>1, <4>2, <4>3, <4>4
      <3>6. s + (returned' + left) = h + surplus'
        <4> HIDE DEF out, left, s, h
        <4> DEFINE k == Cardinality(b)
        <4>1. out = k + left /\ returned' = returned + n /\ surplus' = surplus + n - k /\ k \in Nat
          BY <1>5, <3>1, <3>5
        <4> HIDE DEF k
        <4> QED
          BY <1>3, <1>5, <3>2, <3>5, <4>1
      <3>7. Apart(rest) /\ waiting' \cap lost' = {}
        BY <1>1, <1>3, <2>2 DEF Apart
      <3> QED
        BY <3>3, <3>6, <3>7
    <2> QED
      BY <2>1, <2>2 DEF EndBatch
  <1>7. result'.successful + result'.failed + Pending' = Cardinality(HandedOut') + surplus'
    BY <1>1, <1>2, <1>6 DEF Pending
  <1> HIDE DEF all, out, s, h
  <1> QED
    BY <1>1, <1>2, <1>6, <1>7 DEF ByGroups

LEMMA EndInGroups ==
    ASSUME BatchTypeOK, ByGroups, EndGroup
    PROVE  ByGroups'
  <1> DEFINE c == Cardinality(batch)
             f == Cardinality(UNION lost)
             s == result.successful + result.failed
             h == Cardinality(HandedOut)
  <1>1. /\ mode = "concurrent" /\ phase = "call" /\ phase' \in {"group", "stopped"}
        /\ UNCHANGED << mode, batch, groups, handed, jolted, skipped, surplus >> /\ waiting = {}
        /\ result' = [processed |-> result.processed + c, successful |-> result.successful + returned,
                      failed |-> result.failed + f]
    BY DEF EndGroup, group
  <1>2. HandedOut' = HandedOut /\ ToCome' = ToCome
    BY <1>1 DEF HandedOut, ToCome
  <1>3. c \in Nat /\ f \in Nat /\ h \in Nat
    <2>1. batch \in SUBSET Item /\ UNION lost \in SUBSET Item /\ HandedOut \in SUBSET Item
      BY DEF BatchTypeOK, HandedOut
    <2> QED
      BY <2>1, Items
  <1>4. s + (returned + f) = h + surplus /\ result.processed = h - c
    <2>1. UNION (waiting \cup lost) = UNION lost
      BY <1>1
    <2> QED
      BY <1>1, <2>1 DEF ByGroups, Pending
  <1>5. /\ result.processed \in Int /\ result.successful \in Int /\ result.failed \in Int
        /\ returned \in Nat /\ surplus \in Int
    BY DEF BatchTypeOK, ResultRecord
  <1>6. result'.successful + result'.failed = h + surplus' /\ result'.processed = h
    <2>1. /\ result'.successful = result.successful + returned /\ result'.failed = result.failed + f
          /\ result'.processed = result.processed + c
      BY <1>1
    <2> HIDE DEF c, f, h
    <2> QED
      BY <1>1, <1>3, <1>4, <1>5, <2>1 DEF s
  <1>7. /\ h - 0 = h
        /\ result'.successful + result'.failed + Pending' = h + surplus'
    <2>1. Pending' = 0
      BY <1>1 DEF Pending
    <2>2. h + surplus' \in Int
      BY <1>1, <1>3, <1>5
    <2> HIDE DEF h
    <2> QED
      BY <1>3, <1>6, <2>1, <2>2
  <1>8. /\ \A j \in Item : handed'[j] = IF j \in ToCome' THEN 0 ELSE 1
        /\ \A k, l \in DOMAIN groups' : \A x \in Members(groups'[k]), y \in Members(groups'[l]) : k < l => x < y
        /\ \A x \in Item \ ToCome', y \in ToCome' : x < y
        /\ jolted' = 0 /\ skipped' = 0 /\ \A k \in DOMAIN groups' : Apart(groups'[k])
    BY <1>1, <1>2 DEF ByGroups
  <1> QED
    BY <1>1, <1>2, <1>6, <1>7, <1>8 DEF ByGroups

LEMMA ByGroupsStep ==
    ASSUME BatchTypeOK, InTurn, ByGroups, [BatchNext]_batchVars
    PROVE  ByGroups'
  <1>1. ASSUME NEW m \in {"plain", "retry", "concurrent"}, Begin(m) PROVE ByGroups'
    <2>1. CASE m # "concurrent"
      BY <1>1, <2>1 DEF Begin, ByGroups
    <2>2. CASE m = "concurrent"
      <3> DEFINE G == GroupsOf(config.size, config.group)
      <3>1. /\ phase' = "group" /\ groups' = G /\ handed' = [i \in Item |-> 0]
            /\ jolted' = 0 /\ skipped' = 0 /\ surplus' = 0 /\ result' = NoResult
        BY <1>1, <2>2 DEF Begin
      <3>2. /\ \A j \in Item : GroupOf(j, config.size, config.group) \in DOMAIN G
            /\ \A g \in DOMAIN G : Members(G[g]) = {j \in Item : GroupOf(j, config.size, config.group) = g}
            /\ \A x, y \in Item : GroupOf(x, config.size, config.group) < GroupOf(y, config.size, config.group) => x < y
            /\ \A g \in DOMAIN G : Apart(G[g])
        BY ConfigNumbers, GroupsCut
      <3> HIDE DEF G
      <3>3. ToCome' = Item
        <4>1. \A j \in Item : \E g \in DOMAIN G : j \in Members(G[g])
          BY <3>2
        <4>2. \A g \in DOMAIN G : Members(G[g]) \subseteq Item
          BY <3>2
        <4>3. ToCome' = UNION {Members(G[g]) : g \in DOMAIN G}
          BY <3>1 DEF ToCome
        <4> QED
          BY <4>1, <4>2, <4>3
      <3>4. \A k, l \in DOMAIN groups' : \A x \in Members(groups'[k]), y \in Members(groups'[l]) : k < l => x < y
        BY <3>1, <3>2
      <3>5. HandedOut' = {}
        BY <3>1 DEF HandedOut
      <3>6. Cardinality(HandedOut') - 0 = 0 /\ Cardinality(HandedOut') + 0 = 0 + 0 + 0
        BY <3>5, FS_EmptySet
      <3>7. Pending' = 0 /\ \A k \in DOMAIN groups' : Apart(groups'[k])
        BY <3>1, <3>2 DEF Pending
      <3> QED
        BY <3>1, <3>3, <3>4, <3>6, <3>7 DEF ByGroups, NoResult
    <2> QED
      BY <2>1, <2>2
  <1>2. ASSUME Slice \/ Skip \/ Answer \/ Throw \/ Retry \/ Resume PROVE ByGroups'
    <2>1. mode' = mode /\ mode # "concurrent"
      BY <1>2 DEF Slice, Skip, Answer, Throw, Retry, Resume, InTurn
    <2> QED
      BY <2>1 DEF ByGroups
  <1>3. ASSUME UNCHANGED << mode, batch, groups, waiting, lost, returned, result, handed, jolted, skipped, surplus >>,
               phase' = phase \/ phase' = "stopped"
        PROVE  ByGroups'
    <2>1. HandedOut' = HandedOut /\ ToCome' = ToCome
      BY <1>3 DEF HandedOut, ToCome
    <2>2. phase' # "stopped" => Pending' = Pending
      BY <1>3 DEF Pending
    <2> QED
      BY <1>3, <2>1, <2>2 DEF ByGroups
  <1>4. CASE StartGroup
    <2>1. CASE groups = << >>
      BY <1>3, <1>4, <2>1 DEF StartGroup, group
    <2>2. CASE groups # << >>
      BY <1>4, <2>2, StartInGroups
    <2> QED
      BY <2>1, <2>2
  <1>5. CASE EndGroup
    BY <1>5, EndInGroups
  <1>6. ASSUME NEW b \in waiting, EndBatch(b) PROVE ByGroups'
    BY <1>6, BatchInGroups
  <1>7. CASE UpdateConfig
    BY <1>3, <1>7 DEF UpdateConfig, group
  <1>8. CASE UNCHANGED batchVars
    BY <1>3, <1>8 DEF batchVars
  <1> QED
    BY <1>1, <1>2, <1>4, <1>5, <1>6, <1>7, <1>8 DEF BatchNext

LEMMA BatchAccounts == BatchSpec => [](BatchTypeOK /\ InTurn /\ ByGroups)
  <1>1. BatchInit => InTurn /\ ByGroups
    <2> SUFFICES ASSUME BatchInit PROVE InTurn /\ ByGroups
      OBVIOUS
    <2>1. mode = "plain" /\ phase = "stopped" /\ at = 0 /\ handed = [i \in Item |-> 0]
      BY DEF BatchInit
    <2>2. HandedBelow(at)
      BY <2>1, Items DEF HandedBelow
    <2> QED
      BY <2>1, <2>2 DEF InTurn, ByGroups
  <1> QED
    BY <1>1, BatchTypeCorrect, InTurnStep, ByGroupsStep, PTL DEF BatchSpec

\* Whatever the number of items and the sizes, and whatever is thrown, retried or
\* reconfigured: the concurrent mode hands out every item once and in order, and
\* so do the other two as long as the batch size stays.
THEOREM ItemsAreHandedOnce == BatchSpec => []EachItemOnce
  <1>1. ASSUME BatchTypeOK, InTurn, ByGroups PROVE EachItemOnce
    <2>1. CASE mode = "concurrent"
      <3>1. \A j \in Item : handed[j] = IF j \in ToCome THEN 0 ELSE 1
        BY <1>1, <2>1 DEF ByGroups
      <3>2. ASSUME NEW j \in HandedOut, NEW i \in Item, i < j PROVE i \in HandedOut
        <4>1. HandedOut = Item \ ToCome
          BY <1>1, <2>1, OutOrToCome
        <4>2. CASE i \in ToCome
          <5>1. j < i /\ i \in Nat /\ j \in Nat
            BY <1>1, <2>1, <4>1, <4>2, Items DEF ByGroups
          <5> QED
            BY <3>2, <5>1
        <4> QED
          BY <4>1, <4>2
      <3> QED
        BY <3>1, <3>2 DEF EachItemOnce
    <2>2. CASE mode # "concurrent" /\ ~resized
      <3>1. /\ \A j \in Item : handed[j] <= 1
            /\ skipped = 0 => HandedBelow(Reach) \/ HandedBelow(at)
        BY <1>1, <2>2 DEF InTurn
      <3>2. ASSUME NEW f \in Nat, HandedBelow(f), NEW j \in HandedOut, NEW i \in Item, i < j PROVE i \in HandedOut
        <4>1. j \in Item /\ j < f
          BY <3>2 DEF HandedOut, HandedBelow
        <4>2. i < f
          BY <3>2, <4>1, Items
        <4> QED
          BY <3>2, <4>2 DEF HandedOut, HandedBelow
      <3>3. Reach \in Nat /\ at \in Nat
        BY <1>1, ConfigNumbers DEF Reach, BatchTypeOK
      <3> QED
        BY <3>1, <3>2, <3>3 DEF EachItemOnce
    <2> QED
      BY <2>1, <2>2 DEF EachItemOnce
  <1> QED
    BY <1>1, BatchAccounts, PTL

\* A run that ends by itself has accounted for all its items, in all three modes,
\* up to the batches that a throwing progress report counted twice, those for which
\* no retry was left, and what processors returned beyond one result for an item.
THEOREM RunsAccountForAll == BatchSpec => []CountsAddUp
  <1>1. ASSUME BatchTypeOK, InTurn, ByGroups PROVE CountsAddUp
    <2>0. /\ N \in Nat /\ jolted \in Nat /\ skipped \in Nat /\ at \in Nat /\ surplus \in Int
          /\ result.successful + result.failed \in Int
      BY <1>1, Items DEF BatchTypeOK, ResultRecord
    <2>1. ASSUME mode = "concurrent", phase = "group", groups = << >>
          PROVE  /\ result.successful + result.failed = N + jolted - skipped + surplus
                 /\ result.processed = N
      <3>1. ToCome = {}
        BY <2>1 DEF ToCome
      <3>2. HandedOut = Item
        BY <1>1, <2>1, <3>1, OutOrToCome
      <3>3. /\ result.successful + result.failed + 0 = Cardinality(HandedOut) + surplus
            /\ result.processed = Cardinality(HandedOut) - 0 /\ jolted = 0 /\ skipped = 0
        BY <1>1, <2>1 DEF ByGroups, Pending
      <3>4. Cardinality(HandedOut) = N
        BY <3>2, Items
      <3> QED
        BY <2>0, <3>3, <3>4
    <2>2. ASSUME mode # "concurrent", ~resized, phase = "loop", at >= N
          PROVE  /\ result.successful + result.failed = N + jolted - skipped + surplus
                 /\ result.processed = N - (IF mode = "plain" THEN result.failed - jolted ELSE 0)
      <3>1. Totals(Counting) /\ Counting = at
        BY <1>1, <2>2 DEF InTurn, Counting
      <3> QED
        BY <2>0, <2>2, <3>1 DEF Totals
    <2>3. N - 0 = N
      BY <2>0
    <2> QED
      BY <2>1, <2>2, <2>3 DEF CountsAddUp
  <1> QED
    BY <1>1, BatchAccounts, PTL

------------------------------------------------------------------------------
(* PasswordRules: what is typed, and the stored hash.                      *)

Passwords == [len : Nat, bytes : Nat, has : SUBSET Kinds]
HashSet == [scheme : {"none", "bcrypt", "argon2"}, params : Params]

PasswordTypeOK == typed \in Passwords /\ stored \in HashSet

\* A stored bcrypt hash has no parameter but its cost.
HashKept == PasswordTypeOK /\ CostOnly(stored)

LEMMA HashOfHasher ==
    ASSUME NEW s \in Servers
    PROVE  Hash(HasherOf[s]) \in HashSet /\ CostOnly(Hash(HasherOf[s]))
<1>1. HasherOf[s] \in Hashers /\ CostOnly(HasherOf[s])
  BY PasswordAssumption DEF PasswordAssumption
<1> QED
  BY <1>1 DEF Hashers, Hash, HashSet, CostOnly

LEMMA HashKeptInitially == PasswordInit => HashKept
BY DEF PasswordInit, HashKept, PasswordTypeOK, Passwords, HashSet, Params, Empty, NoHash, CostOnly

LEMMA HashKeptOnwards == HashKept /\ [PasswordNext]_passwordVars => HashKept'
<1> SUFFICES ASSUME HashKept, [PasswordNext]_passwordVars
             PROVE  HashKept'
  OBVIOUS
<1>1. Empty \in Passwords
  BY DEF Empty, Passwords
<1>2. ASSUME NEW k \in Kinds, Type(k)
      PROVE  HashKept'
  <2>1. typed \in Passwords
    BY DEF HashKept, PasswordTypeOK
  <2>2. typed' \in Passwords
    BY <1>2, <2>1 DEF Type, Passwords
  <2> QED
    BY <1>2, <2>2 DEF Type, HashKept, PasswordTypeOK
<1>3. ASSUME Clear
      PROVE  HashKept'
  BY <1>1, <1>3 DEF Clear, HashKept, PasswordTypeOK
<1>4. ASSUME NEW s \in Servers, Login(s)
      PROVE  HashKept'
  BY <1>4, HashOfHasher DEF Login, HashKept, PasswordTypeOK
<1>5. ASSUME NEW s \in Servers, NEW c \in Policies, Submit(c, s)
      PROVE  HashKept'
  BY <1>1, <1>5, HashOfHasher DEF Submit, HashKept, PasswordTypeOK
<1>6. ASSUME UNCHANGED passwordVars
      PROVE  HashKept'
  BY <1>6 DEF passwordVars, HashKept, PasswordTypeOK
<1> QED
  BY <1>2, <1>3, <1>4, <1>5, <1>6 DEF PasswordNext

\* In every behaviour the typed password is what the rules can see of one, and the stored
\* hash is none or one that a hasher made, a bcrypt hash with its cost alone.
THEOREM HashesAreKept == PasswordSpec => []HashKept
<1> QED
  BY HashKeptInitially, HashKeptOnwards, PTL DEF PasswordSpec

------------------------------------------------------------------------------
(* PasswordRules: the rules agree.                                         *)

\* A policy is asked in three ways, and the form asks with a pattern besides.
LEMMA OneRule ==
    ASSUME NEW c \in PolicySet, NEW pw \in Passwords
    PROVE  /\ Errors(c, pw) = {} <=> SchemaAccepts(c, pw)
           /\ SchemaAccepts(c, pw) <=> (Hints(c, pw) = {} /\ pw.len <= c.max /\ FitsBcrypt(pw))
           /\ \A pattern \in BOOLEAN :
                /\ FormErrors(c, pattern, pw) = {} <=> FormSchemaAccepts(c, pattern, pw)
                /\ FormErrors(c, pattern, pw) = {} => Errors(c, pw) = {}
<1>1. pw.len \in Nat /\ pw.bytes \in Nat /\ c.min \in Nat /\ c.max \in Nat
  BY DEF Passwords, PolicySet
<1>2. /\ pw.len < c.min <=> ~(pw.len >= c.min)
      /\ pw.len > c.max <=> ~(pw.len <= c.max)
  BY <1>1
<1>3. Errors(c, pw) = {} <=>
        ~(pw.len < c.min) /\ ~(pw.len > c.max) /\ FitsBcrypt(pw) /\ Missing(c.needs, pw) = {}
  BY DEF Errors
<1>4. Errors(c, pw) = {} <=> SchemaAccepts(c, pw)
  BY <1>2, <1>3 DEF SchemaAccepts
<1>5. Hints(c, pw) = {} <=> ~(pw.len < c.min) /\ Missing(c.needs, pw) = {}
  BY DEF Hints
<1>6. SchemaAccepts(c, pw) <=> (Hints(c, pw) = {} /\ pw.len <= c.max /\ FitsBcrypt(pw))
  BY <1>2, <1>5 DEF SchemaAccepts
<1>7. ASSUME NEW pattern \in BOOLEAN
      PROVE  /\ FormErrors(c, pattern, pw) = {} <=> FormSchemaAccepts(c, pattern, pw)
             /\ FormErrors(c, pattern, pw) = {} => Errors(c, pw) = {}
  <2>1. Missing({"digit"}, pw) = {} <=> "digit" \in pw.has
    BY DEF Missing
  <2>2. FormErrors(c, pattern, pw) = {} <=>
          Errors(c, pw) = {} /\ (pattern => Missing({"digit"}, pw) = {})
    BY DEF FormErrors
  <2> QED
    BY <1>4, <2>1, <2>2 DEF FormSchemaAccepts
<1> QED
  BY <1>4, <1>6, <1>7

\* The form's hints ask for every class and for eight characters.
LEMMA FormHintsSuffice ==
    ASSUME NEW c \in PolicySet, NEW pw \in Passwords,
           FormHints(pw) = {}, c.min <= 8, pw.len <= c.max, FitsBcrypt(pw)
    PROVE  Errors(c, pw) = {}
<1>1. pw.len \in Nat /\ c.min \in Nat /\ c.max \in Nat /\ c.needs \subseteq Classes
  BY DEF Passwords, PolicySet
<1>2. ~(pw.len < 8) /\ Missing(Classes, pw) = {}
  BY DEF FormHints
<1>3. ~(pw.len < c.min) /\ ~(pw.len > c.max)
  BY <1>1, <1>2
<1>4. Missing(c.needs, pw) = {}
  BY <1>1, <1>2 DEF Missing
<1> QED
  BY <1>3, <1>4 DEF Errors

LEMMA StrongIsDefault ==
    ASSUME NEW pw \in Passwords, FormErrors(StrongPolicy, TRUE, pw) = {}
    PROVE  FormErrors(DefaultPolicy, TRUE, pw) = {}
<1>1. pw.len \in Nat
  BY DEF Passwords
<1>2. Errors(StrongPolicy, pw) = {} /\ Missing({"digit"}, pw) = {}
  BY DEF FormErrors
<1>3. ~(pw.len < 12) /\ ~(pw.len > 128) /\ FitsBcrypt(pw)
  BY <1>2 DEF Errors, StrongPolicy
<1>4. Errors(DefaultPolicy, pw) = {}
  BY <1>1, <1>2, <1>3 DEF Errors, DefaultPolicy
<1> QED
  BY <1>2, <1>4 DEF FormErrors

\* The meters differ in the weight of variety alone, by five points each.
LEMMA MetersAreClose ==
    ASSUME NEW pw \in Passwords, NEW unique
    PROVE  Level(FormScore(pw, unique)) \in
             {Level(Score(pw, unique)), Level(Score(pw, unique)) - 1}
<1> DEFINE classes == Cardinality(pw.has \cap Classes)
           base == Points(pw.len >= 8, 10) + Points(pw.len >= 12, 10) + Points(pw.len >= 16, 5)
                   + 10 * classes
           varied == 10 * unique >= 7 * pw.len
           long == pw.len >= 12 /\ unique >= 8
<1>1. classes \in Nat
  <2>1. IsFiniteSet(Classes)
    <3>1. Classes = ((({} \cup {"digit"}) \cup {"upper"}) \cup {"lower"}) \cup {"special"}
      BY DEF Classes
    <3>2. IsFiniteSet({} \cup {"digit"})
      BY FS_EmptySet, FS_AddElement
    <3>3. IsFiniteSet(({} \cup {"digit"}) \cup {"upper"})
      BY <3>2, FS_AddElement
    <3>4. IsFiniteSet((({} \cup {"digit"}) \cup {"upper"}) \cup {"lower"})
      BY <3>3, FS_AddElement
    <3> QED
      BY <3>1, <3>4, FS_AddElement
  <2>2. IsFiniteSet(pw.has \cap Classes)
    BY <2>1, FS_Subset
  <2> QED
    BY <2>2, FS_CardinalityType
<1>2. base \in Nat
  <2> HIDE DEF classes
  <2> QED
    BY <1>1 DEF Points
<1>3. /\ Score(pw, unique) = base + Points(varied, 20) + Points(long, 15)
      /\ FormScore(pw, unique) = base + Points(varied, 15) + Points(long, 10)
  BY DEF Score, FormScore, ScoreOf
<1>4. ASSUME NEW condition, NEW n, NEW m
      PROVE  \/ Points(condition, n) = n /\ Points(condition, m) = m
             \/ Points(condition, n) = 0 /\ Points(condition, m) = 0
  BY DEF Points
<1>5. \/ Points(varied, 20) = 20 /\ Points(varied, 15) = 15
      \/ Points(varied, 20) = 0 /\ Points(varied, 15) = 0
  BY <1>4, Zenon
<1>6. \/ Points(long, 15) = 15 /\ Points(long, 10) = 10
      \/ Points(long, 15) = 0 /\ Points(long, 10) = 0
  BY <1>4, Zenon
<1> DEFINE score == Score(pw, unique)
           form == FormScore(pw, unique)
<1>7. /\ score \in Nat /\ form \in Nat
      /\ form <= score /\ score <= form + 10
  <2> HIDE DEF base, varied, long
  <2> QED
    BY <1>2, <1>3, <1>5, <1>6
<1> HIDE DEF score, form
<1>8. Level(form) \in {Level(score), Level(score) - 1}
  BY <1>7 DEF Level
<1> QED
  BY <1>8 DEF score, form

LEMMA RulesAgree ==
    ASSUME HashKept
    PROVE  PoliciesAgree
<1>1. typed \in Passwords /\ Policies \subseteq PolicySet
  BY PasswordAssumption DEF HashKept, PasswordTypeOK, PasswordAssumption
<1>2. ASSUME NEW c \in Policies
      PROVE  /\ (Errors(c, typed) = {}) = SchemaAccepts(c, typed)
             /\ SchemaAccepts(c, typed)
                  = (Hints(c, typed) = {} /\ typed.len <= c.max /\ FitsBcrypt(typed))
             /\ \A pattern \in BOOLEAN :
                  /\ (FormErrors(c, pattern, typed) = {}) = FormSchemaAccepts(c, pattern, typed)
                  /\ FormErrors(c, pattern, typed) = {} => Errors(c, typed) = {}
             /\ FormHints(typed) = {} /\ c.min <= 8 /\ typed.len <= c.max /\ FitsBcrypt(typed)
                  => Errors(c, typed) = {}
  <2>1. c \in PolicySet
    BY <1>1
  <2>2. SchemaAccepts(c, typed) \in BOOLEAN
    BY Zenon DEF SchemaAccepts
  <2>3. \A pattern \in BOOLEAN : FormSchemaAccepts(c, pattern, typed) \in BOOLEAN
    BY Zenon DEF FormSchemaAccepts
  <2>4. /\ Errors(c, typed) = {} <=> SchemaAccepts(c, typed)
        /\ SchemaAccepts(c, typed) <=>
             (Hints(c, typed) = {} /\ typed.len <= c.max /\ FitsBcrypt(typed))
        /\ \A pattern \in BOOLEAN :
             /\ FormErrors(c, pattern, typed) = {} <=> FormSchemaAccepts(c, pattern, typed)
             /\ FormErrors(c, pattern, typed) = {} => Errors(c, typed) = {}
    BY <1>1, <2>1, OneRule
  <2>5. (Errors(c, typed) = {}) = SchemaAccepts(c, typed)
    BY <2>2, <2>4
  <2>6. SchemaAccepts(c, typed)
          = (Hints(c, typed) = {} /\ typed.len <= c.max /\ FitsBcrypt(typed))
    BY <2>2, <2>4
  <2>7. ASSUME NEW pattern \in BOOLEAN
        PROVE  (FormErrors(c, pattern, typed) = {}) = FormSchemaAccepts(c, pattern, typed)
    BY <2>3, <2>4
  <2>8. FormHints(typed) = {} /\ c.min <= 8 /\ typed.len <= c.max /\ FitsBcrypt(typed)
          => Errors(c, typed) = {}
    BY <1>1, <2>1, FormHintsSuffice
  <2> QED
    BY <2>4, <2>5, <2>6, <2>7, <2>8
<1>3. FormErrors(StrongPolicy, TRUE, typed) = {} => FormErrors(DefaultPolicy, TRUE, typed) = {}
  BY <1>1, StrongIsDefault
<1>4. \A unique \in Uniques(typed) :
        Level(FormScore(typed, unique)) \in
          {Level(Score(typed, unique)), Level(Score(typed, unique)) - 1}
  BY <1>1, MetersAreClose
<1> QED
  BY <1>2, <1>3, <1>4 DEF PoliciesAgree

\* For any policies: the validator, its schema and its hints accept the same passwords, what
\* the form accepts the service accepts, and the two meters are at most one level apart.
THEOREM RulesAgreeAlways == PasswordSpec => []PoliciesAgree
<1> QED
  BY HashesAreKept, RulesAgree, PTL

------------------------------------------------------------------------------
(* PasswordRules: logins settle.                                           *)

LEMMA LoginSettles ==
    ASSUME HashKept, NEW s \in Servers, Login(s)
    PROVE  /\ ~NeedsRehash(HasherOf[s], stored')
           /\ stored' # stored =>
                stored'.scheme # stored.scheme \/ Weaker(stored.params, stored'.params)
           /\ {stored.scheme, stored'.scheme} = {"bcrypt"} =>
                stored'.params.time >= stored.params.time
<1> DEFINE h == HasherOf[s]
<1>1. h \in Hashers /\ CostOnly(h)
  BY PasswordAssumption DEF PasswordAssumption
<1>2. stored \in HashSet /\ CostOnly(stored)
  BY DEF HashKept, PasswordTypeOK
<1>3. h.params \in Params /\ stored.params \in Params
  BY <1>1, <1>2 DEF Hashers, HashSet
<1>4. CASE ~NeedsRehash(h, stored)
  <2>1. stored' = stored
    BY <1>4 DEF Login
  <2> QED
    BY <1>3, <1>4, <2>1 DEF Params
<1>5. CASE NeedsRehash(h, stored)
  <2>1. stored' = Hash(h)
    BY <1>5 DEF Login
  <2>2. stored'.scheme = h.scheme /\ stored'.params = h.params
    BY <2>1 DEF Hash
  <2>3. ~NeedsRehash(h, stored')
    BY <1>3, <2>2 DEF NeedsRehash, Weaker, Params
  <2>4. stored'.scheme # stored.scheme \/ Weaker(stored.params, stored'.params)
    BY <1>5, <2>2 DEF NeedsRehash
  <2>5. ASSUME {stored.scheme, stored'.scheme} = {"bcrypt"}
        PROVE  stored'.params.time >= stored.params.time
    <3>1. stored.scheme = "bcrypt" /\ h.scheme = "bcrypt"
      BY <2>2, <2>5
    <3>2. Weaker(stored.params, h.params)
      BY <1>5, <3>1 DEF NeedsRehash
    <3> QED
      BY <1>1, <1>2, <1>3, <2>2, <3>1, <3>2 DEF Weaker, CostOnly, Params
  <2> QED
    BY <2>3, <2>4, <2>5
<1> QED
  BY <1>4, <1>5

\* For any hasher settings: a login leaves a hash its server is content with, replaces a
\* hash only for another scheme or a higher parameter, and never lowers a bcrypt cost.
THEOREM RehashingSettles == PasswordSpec => LoginsSettle
<1>1. HashKept /\ [PasswordNext]_passwordVars =>
        [\A s \in Servers : Login(s) =>
           /\ ~NeedsRehash(HasherOf[s], stored')
           /\ stored' # stored =>
                stored'.scheme # stored.scheme \/ Weaker(stored.params, stored'.params)
           /\ {stored.scheme, stored'.scheme} = {"bcrypt"} =>
                stored'.params.time >= stored.params.time]_passwordVars
  BY LoginSettles
<1> QED
  BY HashesAreKept, <1>1, PTL DEF LoginsSettle, PasswordSpec
=============================================================================
