--------------------------- MODULE ReadThroughProofs ---------------------------
(***************************************************************************)
(* Proofs about ReadThrough, for any processes, any number of calls of     *)
(* withCache and of updates, any backends and any TTL.                     *)
(***************************************************************************)
EXTENDS ReadThrough, TLAPS

USE DEF Versions, Call

------------------------------------------------------------------------------
(* Entries.                                                                *)

\* None is no entry.
LEMMA NoneIsNoEntry == None \notin CacheEntry
  BY ReadThroughConstantsOK DEF CacheEntry

\* What an entry made now is.
LEMMA NewCachedIs ==
    ASSUME NEW v \in Versions, source \in Versions, now \in Nat
    PROVE  /\ NewCached(v) \in CacheEntry /\ NewCached(v) # None
           /\ NewCached(v).ver = v /\ NewCached(v).until = now + CacheTtl
           /\ NewCached(v).missed <=> v < source
  <1>1. now + CacheTtl \in Nat /\ (v < source) \in BOOLEAN
    BY ReadThroughConstantsOK
  <1>2. NewCached(v) \in CacheEntry
    BY <1>1 DEF NewCached, CacheEntry
  <1> QED
    BY <1>2, NoneIsNoEntry DEF NewCached

\* Passing an entry by marks it and changes nothing else.
LEMMA PassedByIs ==
    ASSUME NEW e \in CacheEntry \cup {None}
    PROVE  /\ PassedBy(e) \in CacheEntry \cup {None}
           /\ e = None => PassedBy(e) = None
           /\ e # None => PassedBy(e) # None /\ PassedBy(e).missed
                          /\ PassedBy(e).ver = e.ver /\ PassedBy(e).until = e.until
  <1>1. CASE e = None
    BY <1>1 DEF PassedBy
  <1>2. CASE e # None
    <2>1. e \in CacheEntry /\ PassedBy(e) = [e EXCEPT !.missed = TRUE]
      BY <1>2 DEF PassedBy
    <2>2. PassedBy(e) \in CacheEntry /\ PassedBy(e).missed
          /\ PassedBy(e).ver = e.ver /\ PassedBy(e).until = e.until
      BY <2>1 DEF CacheEntry
    <2> QED
      BY <1>2, <2>2, NoneIsNoEntry
  <1> QED
    BY <1>1, <1>2

------------------------------------------------------------------------------
(* Type correctness.                                                       *)

LEMMA TypeInit == ReadThroughInit => ReadThroughTypeOK
  BY ReadThroughConstantsOK DEF ReadThroughInit, ReadThroughTypeOK

Places == {"idle", "get", "fetch", "store", "set", "answered", "thrown", "invalidate", "delete"}

\* A call goes from place to place.
LEMMA AtTyped ==
    ASSUME ReadThroughTypeOK, NEW c \in Call, NEW l \in Places, At(c, l)
    PROVE  pc' \in [Call -> Places]
  BY DEF At, ReadThroughTypeOK, Places

\* An answer out of an entry is typed.
LEMMA HitTyped ==
    ASSUME ReadThroughTypeOK, NEW r \in Reader, NEW e \in CacheEntry \cup {None}, e # None, Hit(r, e)
    PROVE  /\ val' \in [Call -> Versions] /\ overtaken' \in [Reader -> BOOLEAN]
           /\ pc' \in [Call -> Places]
  <1>1. e.ver \in Versions /\ e.missed \in BOOLEAN
    BY DEF CacheEntry
  <1>2. val' = [val EXCEPT ![r] = e.ver] /\ overtaken' = [overtaken EXCEPT ![r] = e.missed]
        /\ pc' \in [Call -> Places]
    BY AtTyped DEF Hit, Places
  <1>3. val \in [Call -> Versions] /\ overtaken \in [Reader -> BOOLEAN]
    BY DEF ReadThroughTypeOK
  <1> HIDE DEF Versions
  <1>4. val' \in [Call -> Versions]
    BY <1>1, <1>2, <1>3
  <1>5. overtaken' \in [Reader -> BOOLEAN]
    BY <1>1, <1>2, <1>3
  <1> QED
    BY <1>2, <1>4, <1>5

\* Looking an entry up gives a typed answer.
LEMMA LookInTyped ==
    ASSUME ReadThroughTypeOK, NEW r \in Reader, NEW e \in CacheEntry \cup {None}, LookIn(r, e)
    PROVE  /\ val' \in [Call -> Versions] /\ overtaken' \in [Reader -> BOOLEAN]
           /\ pc' \in [Call -> Places]
  <1>1. CASE Found(e)
    BY <1>1, HitTyped DEF LookIn, Found
  <1>2. CASE ~Found(e)
    BY <1>2, AtTyped DEF ReadThroughTypeOK, LookIn, Miss, Places
  <1> QED
    BY <1>1, <1>2

LEMMA TypeOfReader ==
    ASSUME ReadThroughTypeOK, NEW r \in Reader,
           \/ WithCache(r) \/ GetAnswered(r) \/ GetFailed(r)
           \/ Fetch(r) \/ Store(r) \/ StoreInRedis(r) \/ Return(r)
    PROVE  ReadThroughTypeOK'
  <1> USE ReadThroughConstantsOK DEF cacheVars, localVars
  <1> DEFINE p == Home[r]
  <1>p. p \in Process
    OBVIOUS
  <1>1. CASE WithCache(r)
    <2> PICK m \in Managers(p) :
             /\ manager' = [manager EXCEPT ![r] = m]
             /\ IF UsesRedis(m, p) THEN At(r, "get") /\ UNCHANGED <<val, overtaken>>
                ELSE IF UsesMemory(m) THEN LookIn(r, memory[p]) ELSE Miss(r)
      BY <1>1 DEF WithCache
    <2>1. m \in {"hybrid", "redis", "memory", "none"}
      BY DEF Managers, ReadThroughTypeOK
    <2>2. memory[p] \in CacheEntry \cup {None}
      BY <1>p DEF ReadThroughTypeOK
    <2>3. val' \in [Call -> Versions] /\ overtaken' \in [Reader -> BOOLEAN]
      BY <2>2, LookInTyped DEF Miss, ReadThroughTypeOK
    <2>4. pc' \in [Call -> Places]
      BY <2>2, LookInTyped, AtTyped DEF Miss, Places
    <2>5. manager' \in [Reader -> {"hybrid", "redis", "memory", "none"}]
      BY <2>1 DEF ReadThroughTypeOK
    <2>6. since' \in [Reader -> Nat] /\ base' \in [Reader -> Versions]
      BY <1>1, <1>p DEF WithCache, ReadThroughTypeOK
    <2> QED
      BY <1>1, <2>3, <2>4, <2>5, <2>6 DEF WithCache, ReadThroughTypeOK, Places
  <1>2. CASE GetAnswered(r)
    <2>1. memory[p] \in CacheEntry \cup {None}
      BY <1>p DEF ReadThroughTypeOK
    <2>2. val' \in [Call -> Versions] /\ overtaken' \in [Reader -> BOOLEAN]
      <3>1. CASE Found(redis)
        BY <1>2, <3>1, HitTyped DEF GetAnswered, Found, ReadThroughTypeOK
      <3>2. CASE ~Found(redis)
        BY <1>2, <3>2, <2>1, LookInTyped DEF GetAnswered, Miss, ReadThroughTypeOK
      <3> QED
        BY <3>1, <3>2
    <2>3. pc' \in [Call -> Places]
      BY <1>2, <2>1, LookInTyped, AtTyped DEF GetAnswered, Hit, Miss, Places
    <2>4. open' \in [Process -> BOOLEAN]
      BY <1>2, <1>p DEF GetAnswered, MayClose, ReadThroughTypeOK
    <2> QED
      BY <1>2, <2>2, <2>3, <2>4 DEF GetAnswered, ReadThroughTypeOK, Places
  <1>3. CASE GetFailed(r)
    <2>1. memory[p] \in CacheEntry \cup {None}
      BY <1>p DEF ReadThroughTypeOK
    <2>2. val' \in [Call -> Versions] /\ overtaken' \in [Reader -> BOOLEAN]
      BY <1>3, <2>1, LookInTyped DEF GetFailed, Miss, ReadThroughTypeOK
    <2>3. pc' \in [Call -> Places]
      BY <1>3, <2>1, LookInTyped, AtTyped DEF GetFailed, Miss, Places
    <2>4. open' \in [Process -> BOOLEAN]
      BY <1>3, <1>p DEF GetFailed, MayOpen, ReadThroughTypeOK
    <2> QED
      BY <1>3, <2>2, <2>3, <2>4 DEF GetFailed, ReadThroughTypeOK, Places
  <1>4. CASE Fetch(r)
    <2>1. pc' \in [Call -> Places]
      BY <1>4, AtTyped DEF Fetch, Places
    <2>2. val' \in [Call -> Versions]
      BY <1>4 DEF Fetch, ReadThroughTypeOK
    <2> QED
      BY <1>4, <2>1, <2>2 DEF Fetch, ReadThroughTypeOK, Places
  <1>5. CASE Store(r)
    <2>1. NewCached(val[r]) \in CacheEntry
      BY NewCachedIs DEF ReadThroughTypeOK
    <2>2. memory' \in [Process -> CacheEntry \cup {None}]
      BY <1>5, <2>1, <1>p DEF Store, ReadThroughTypeOK
    <2>3. pc' \in [Call -> Places]
      BY <1>5, AtTyped DEF Store, Places
    <2> QED
      BY <1>5, <2>2, <2>3 DEF Store, ReadThroughTypeOK, Places
  <1>6. CASE StoreInRedis(r)
    <2>1. NewCached(val[r]) \in CacheEntry
      BY NewCachedIs DEF ReadThroughTypeOK
    <2>2. redis' \in CacheEntry \cup {None}
      BY <1>6, <2>1 DEF StoreInRedis, ReadThroughTypeOK
    <2>3. open' \in [Process -> BOOLEAN]
      BY <1>6, <1>p DEF StoreInRedis, MayClose, MayOpen, ReadThroughTypeOK
    <2> QED
      BY <1>6, <2>2, <2>3 DEF StoreInRedis, At, ReadThroughTypeOK
  <1>7. CASE Return(r)
    <2>1. pc' \in [Call -> Places]
      BY <1>7, AtTyped DEF Return, Places
    <2>2. /\ manager' \in [Reader -> {"hybrid", "redis", "memory", "none"}]
          /\ val' \in [Call -> Versions] /\ since' \in [Reader -> Nat]
          /\ base' \in [Reader -> Versions] /\ overtaken' \in [Reader -> BOOLEAN]
      BY <1>7 DEF Return, ReadThroughTypeOK
    <2> QED
      BY <1>7, <2>1, <2>2 DEF Return, ReadThroughTypeOK, Places
  <1> QED
    BY <1>1, <1>2, <1>3, <1>4, <1>5, <1>6, <1>7

LEMMA TypeOfWriter ==
    ASSUME ReadThroughTypeOK, NEW w \in Writer,
           Update(w) \/ Invalidate(w) \/ DeleteInRedis(w)
    PROVE  ReadThroughTypeOK'
  <1> USE ReadThroughConstantsOK DEF cacheVars, localVars
  <1>p. Home[w] \in Process
    OBVIOUS
  <1>1. PassedBy(redis) \in CacheEntry \cup {None}
    BY PassedByIs DEF ReadThroughTypeOK
  <1>2. ASSUME Invalidated(w)
        PROVE  /\ val' \in [Call -> Versions] /\ done' \in [Process -> Versions]
               /\ pc' = [pc EXCEPT ![w] = "idle"]
    <2>1. pc' = [pc EXCEPT ![w] = "idle"] /\ val' \in [Call -> Versions]
      BY <1>2 DEF Invalidated, At, ReadThroughTypeOK
    <2>2. val[w] \in Versions /\ done \in [Process -> Versions]
      BY DEF ReadThroughTypeOK
    <2>3. done' = [done EXCEPT ![Home[w]] = IF done[Home[w]] < val[w] THEN val[w] ELSE done[Home[w]]]
      BY <1>2 DEF Invalidated
    <2> HIDE DEF Versions
    <2>4. done' \in [Process -> Versions]
      BY <1>p, <2>2, <2>3
    <2> QED
      BY <2>1, <2>4
  <1>3. CASE Update(w)
    <2>1. source' \in Versions
      BY <1>3 DEF Update, ReadThroughTypeOK
    <2>2. val' \in [Call -> Versions] /\ replaced' \in [Versions -> Nat]
      BY <1>3 DEF Update, ReadThroughTypeOK
    <2>3. pc' \in [Call -> Places]
      BY <1>3, AtTyped DEF Update, Places
    <2> QED
      BY <1>3, <2>1, <2>2, <2>3 DEF Update, ReadThroughTypeOK, Places
  <1>4. CASE Invalidate(w)
    <2>1. memory' \in [Process -> CacheEntry \cup {None}]
      BY <1>4, <1>p DEF Invalidate, ForgetInMemory, ReadThroughTypeOK
    <2>2. CASE UsesRedis(backend, Home[w])
      BY <1>4, <2>1, <2>2 DEF Invalidate, At, ReadThroughTypeOK
    <2>3. CASE ~UsesRedis(backend, Home[w])
      <3>1. Invalidated(w) /\ redis' \in CacheEntry \cup {None}
        BY <1>4, <1>1, <2>3 DEF Invalidate
      <3>2. val' \in [Call -> Versions] /\ done' \in [Process -> Versions]
            /\ pc' \in [Call -> Places]
        BY <1>2, <3>1, AtTyped DEF At, Places
      <3> HIDE DEF Versions
      <3> QED
        BY <1>4, <2>1, <3>1, <3>2 DEF Invalidate, ReadThroughTypeOK, Places
    <2> QED
      BY <2>2, <2>3
  <1>5. CASE DeleteInRedis(w)
    <2>1. Invalidated(w) /\ redis' \in CacheEntry \cup {None}
      BY <1>5, <1>1 DEF DeleteInRedis, ReadThroughTypeOK
    <2>2. val' \in [Call -> Versions] /\ done' \in [Process -> Versions]
          /\ pc' \in [Call -> Places]
      BY <1>2, <2>1, AtTyped DEF At, Places
    <2> HIDE DEF Versions
    <2> QED
      BY <1>5, <2>1, <2>2 DEF DeleteInRedis, ReadThroughTypeOK, Places
  <1> QED
    BY <1>3, <1>4, <1>5

LEMMA TypeStep == ReadThroughTypeOK /\ [ReadThroughNext]_readVars => ReadThroughTypeOK'
  <1> SUFFICES ASSUME ReadThroughTypeOK, [ReadThroughNext]_readVars PROVE ReadThroughTypeOK'
    OBVIOUS
  <1>1. ASSUME NEW p \in Process, Reconnected(p) PROVE ReadThroughTypeOK'
    BY <1>1 DEF Reconnected, localVars, ReadThroughTypeOK
  <1>2. CASE Tick
    BY <1>2 DEF Tick, cacheVars, localVars, ReadThroughTypeOK
  <1>3. CASE UNCHANGED readVars
    BY <1>3 DEF readVars, cacheVars, localVars, ReadThroughTypeOK
  <1> QED
    BY <1>1, <1>2, <1>3, TypeOfReader, TypeOfWriter DEF ReadThroughNext

\* Every reachable state is well typed: among others, what withCache stores is
\* always a version that was fetched.
THEOREM ReadThroughTypeCorrect == ReadThroughSpec => []ReadThroughTypeOK
  BY TypeInit, TypeStep, PTL DEF ReadThroughSpec

------------------------------------------------------------------------------
(* How stale an entry can be.                                              *)

EntryOK(e) ==
    e # None =>
        /\ e.ver <= source /\ e.until <= now + CacheTtl
        /\ (e.ver < source => e.until <= replaced[e.ver] + CacheTtl + CallSpan)

CallInTime(r) == since[r] <= now /\ (pc[r] # "idle" => now <= since[r] + CallSpan)

\* What a call is about to store was not yet replaced when the call began.
FetchedInTime(r) ==
    pc[r] \in {"store", "set"} /\ val[r] < source => since[r] <= replaced[val[r]]

StaleInv ==
    /\ \A r \in Reader : CallInTime(r)
    /\ \A r \in Reader : FetchedInTime(r)
    /\ \A c \in Call : val[c] <= source
    /\ EntryOK(redis)
    /\ \A p \in Process : EntryOK(memory[p])

LEMMA StaleInit == ReadThroughInit => StaleInv
  BY ReadThroughConstantsOK
  DEF ReadThroughInit, StaleInv, CallInTime, FetchedInTime, EntryOK

\* A step of one call keeps the invariant if what it changes is in order.
LEMMA StaleFrame ==
    ASSUME ReadThroughTypeOK, StaleInv, UNCHANGED <<source, now, replaced>>,
           NEW c \in Call,
           \A x \in Call \ {c} : pc'[x] = pc[x] /\ val'[x] = val[x],
           \A x \in Reader \ {c} : since'[x] = since[x],
           val'[c] <= source, c \in Reader => CallInTime(c)' /\ FetchedInTime(c)',
           EntryOK(redis'), \A p \in Process : EntryOK(memory'[p])
    PROVE  StaleInv'
  <1>1. \A r \in Reader : CallInTime(r)'
    BY DEF StaleInv, CallInTime
  <1>2. \A r \in Reader : FetchedInTime(r)'
    BY DEF StaleInv, FetchedInTime
  <1>3. \A x \in Call : val'[x] <= source'
    BY DEF StaleInv
  <1>4. EntryOK(redis)' /\ \A p \in Process : EntryOK(memory[p])'
    BY DEF EntryOK
  <1> QED
    BY <1>1, <1>2, <1>3, <1>4 DEF StaleInv

\* What a call stores is in order.
LEMMA StoredInTime ==
    ASSUME ReadThroughTypeOK, StaleInv, NEW r \in Reader, pc[r] \in {"store", "set"}
    PROVE  EntryOK(NewCached(val[r]))
  <1>1. val[r] \in Versions /\ source \in Versions /\ now \in Nat /\ since[r] \in Nat
        /\ replaced[val[r]] \in Nat
    BY DEF ReadThroughTypeOK
  <1>2. NewCached(val[r]).ver = val[r] /\ NewCached(val[r]).until = now + CacheTtl
    BY <1>1, NewCachedIs
  <1>3. val[r] <= source /\ now <= since[r] + CallSpan
        /\ (val[r] < source => since[r] <= replaced[val[r]])
    BY DEF StaleInv, CallInTime, FetchedInTime
  <1> QED
    BY <1>1, <1>2, <1>3, ReadThroughConstantsOK DEF EntryOK

\* The answer out of an entry, or of none, is a version that existed.
LEMMA LookInStale ==
    ASSUME ReadThroughTypeOK, StaleInv, NEW r \in Reader, NEW e \in CacheEntry \cup {None},
           EntryOK(e), LookIn(r, e)
    PROVE  /\ val'[r] <= source /\ pc'[r] \in {"answered", "fetch"}
           /\ \A x \in Call \ {r} : pc'[x] = pc[x] /\ val'[x] = val[x]
  <1>1. pc \in [Call -> Places] /\ val \in [Call -> Versions]
    BY DEF ReadThroughTypeOK, Places
  <1>2. CASE Found(e)
    <2>1. At(r, "answered") /\ val' = [val EXCEPT ![r] = e.ver] /\ e.ver <= source
      BY <1>2 DEF LookIn, Hit, Found, EntryOK
    <2> HIDE DEF Versions
    <2> QED
      BY <1>1, <2>1 DEF At
  <1>3. CASE ~Found(e)
    <2>1. At(r, "fetch") /\ val' = val
      BY <1>3 DEF LookIn, Miss
    <2>2. val[r] <= source
      BY DEF StaleInv
    <2> QED
      BY <1>1, <2>1, <2>2 DEF At
  <1> QED
    BY <1>2, <1>3

LEMMA StaleOfReader ==
    ASSUME ReadThroughTypeOK, StaleInv, NEW r \in Reader,
           \/ WithCache(r) \/ GetAnswered(r) \/ GetFailed(r)
           \/ Fetch(r) \/ Store(r) \/ StoreInRedis(r) \/ Return(r)
    PROVE  StaleInv'
  <1> USE ReadThroughConstantsOK DEF cacheVars, localVars
  <1> DEFINE p == Home[r]
  <1>p. p \in Process /\ memory[p] \in CacheEntry \cup {None} /\ redis \in CacheEntry \cup {None}
    BY DEF ReadThroughTypeOK
  <1>e. EntryOK(redis) /\ \A q \in Process : EntryOK(memory[q])
    BY DEF StaleInv
  <1>t. pc \in [Call -> Places] /\ val \in [Call -> Versions] /\ since \in [Reader -> Nat]
        /\ now \in Nat /\ source \in Versions /\ val[r] <= source
    BY DEF ReadThroughTypeOK, Places, StaleInv
  <1>c. CallInTime(r) /\ FetchedInTime(r)
    BY DEF StaleInv
  <1>1. CASE WithCache(r)
    <2> PICK m \in Managers(p) :
             IF UsesRedis(m, p) THEN At(r, "get") /\ UNCHANGED <<val, overtaken>>
             ELSE IF UsesMemory(m) THEN LookIn(r, memory[p]) ELSE Miss(r)
      BY <1>1 DEF WithCache
    <2>1. val'[r] <= source /\ pc'[r] \in {"get", "answered", "fetch"}
          /\ \A x \in Call \ {r} : pc'[x] = pc[x] /\ val'[x] = val[x]
      <3>1. CASE At(r, "get") /\ UNCHANGED val
        BY <1>t, <3>1 DEF At
      <3>2. CASE LookIn(r, memory[p])
        BY <1>p, <1>e, <3>2, LookInStale
      <3>3. CASE Miss(r)
        BY <1>t, <3>3 DEF Miss, At
      <3> QED
        BY <3>1, <3>2, <3>3
    <2>2. since' = [since EXCEPT ![r] = now] /\ UNCHANGED <<source, now, replaced, redis, memory>>
      BY <1>1 DEF WithCache
    <2>3. CallInTime(r)' /\ FetchedInTime(r)'
      BY <1>t, <2>1, <2>2 DEF CallInTime, FetchedInTime
    <2> QED
      BY <1>e, <1>t, <2>1, <2>2, <2>3, StaleFrame
  <1>2. CASE GetAnswered(r) \/ GetFailed(r)
    <2>1. val'[r] <= source /\ pc'[r] \in {"answered", "fetch"}
          /\ \A x \in Call \ {r} : pc'[x] = pc[x] /\ val'[x] = val[x]
      <3>1. CASE LookIn(r, redis) \/ LookIn(r, memory[p])
        BY <1>p, <1>e, <3>1, LookInStale
      <3>2. CASE Miss(r)
        BY <1>t, <3>2 DEF Miss, At
      <3> QED
        BY <1>2, <3>1, <3>2 DEF GetAnswered, GetFailed, LookIn
    <2>2. UNCHANGED <<source, now, replaced, redis, memory, since>> /\ pc[r] = "get"
      BY <1>2 DEF GetAnswered, GetFailed
    <2>3. CallInTime(r)' /\ FetchedInTime(r)'
      BY <1>c, <2>1, <2>2 DEF CallInTime, FetchedInTime
    <2> QED
      BY <1>e, <1>t, <2>1, <2>2, <2>3, StaleFrame
  <1>4. CASE Fetch(r)
    <2>1. UNCHANGED <<source, now, replaced, redis, memory, since>> /\ pc[r] = "fetch"
      BY <1>4 DEF Fetch
    <2>2. \/ pc'[r] = "store" /\ val'[r] = source
          \/ pc'[r] = "thrown" /\ val'[r] = val[r]
      BY <1>4, <1>t DEF Fetch, At
    <2>3. \A x \in Call \ {r} : pc'[x] = pc[x] /\ val'[x] = val[x]
      BY <1>4, <1>t DEF Fetch, At
    <2>4. CallInTime(r)' /\ FetchedInTime(r)' /\ val'[r] <= source
      BY <1>c, <1>t, <2>1, <2>2 DEF CallInTime, FetchedInTime
    <2> QED
      BY <1>e, <1>t, <2>1, <2>3, <2>4, StaleFrame
  <1>5. CASE Store(r)
    <2>1. UNCHANGED <<source, now, replaced, redis, val, since>> /\ pc[r] = "store"
      BY <1>5 DEF Store
    <2>2. pc'[r] \in {"set", "answered"} /\ \A x \in Call \ {r} : pc'[x] = pc[x]
      BY <1>5, <1>t DEF Store, At
    <2>3. \A q \in Process : memory'[q] = memory[q] \/ memory'[q] = NewCached(val[r])
      BY <1>5, <1>p DEF Store, ReadThroughTypeOK
    <2>4. EntryOK(NewCached(val[r]))
      BY <2>1, StoredInTime
    <2>5. \A q \in Process : EntryOK(memory'[q])
      BY <1>e, <2>3, <2>4
    <2>6. CallInTime(r)' /\ FetchedInTime(r)'
      BY <1>c, <2>1, <2>2 DEF CallInTime, FetchedInTime
    <2> QED
      BY <1>e, <1>t, <2>1, <2>2, <2>5, <2>6, StaleFrame
  <1>6. CASE StoreInRedis(r)
    <2>1. UNCHANGED <<source, now, replaced, memory, val, since>> /\ pc[r] = "set"
      BY <1>6 DEF StoreInRedis
    <2>2. pc'[r] = "answered" /\ \A x \in Call \ {r} : pc'[x] = pc[x]
      BY <1>6, <1>t DEF StoreInRedis, At
    <2>3. EntryOK(redis')
      BY <1>6, <1>e, <2>1, StoredInTime DEF StoreInRedis
    <2>4. CallInTime(r)' /\ FetchedInTime(r)'
      BY <1>c, <2>1, <2>2 DEF CallInTime, FetchedInTime
    <2> QED
      BY <1>e, <1>t, <2>1, <2>2, <2>3, <2>4, StaleFrame
  <1>7. CASE Return(r)
    <2>1. UNCHANGED <<source, now, replaced, redis, memory>>
          /\ since' = [since EXCEPT ![r] = 0] /\ val' = [val EXCEPT ![r] = 0]
          /\ pc' = [pc EXCEPT ![r] = "idle"]
      BY <1>7 DEF Return, At
    <2>2. CallInTime(r)' /\ FetchedInTime(r)' /\ val'[r] <= source
      BY <1>t, <2>1 DEF CallInTime, FetchedInTime
    <2> QED
      BY <1>e, <1>t, <2>1, <2>2, StaleFrame
  <1> QED
    BY <1>1, <1>2, <1>4, <1>5, <1>6, <1>7

LEMMA StaleOfWriter ==
    ASSUME ReadThroughTypeOK, StaleInv, NEW w \in Writer,
           Update(w) \/ Invalidate(w) \/ DeleteInRedis(w)
    PROVE  StaleInv'
  <1> USE ReadThroughConstantsOK DEF cacheVars, localVars
  <1>t. pc \in [Call -> Places] /\ val \in [Call -> Versions] /\ since \in [Reader -> Nat]
        /\ now \in Nat /\ source \in Versions /\ replaced \in [Versions -> Nat]
        /\ redis \in CacheEntry \cup {None} /\ memory \in [Process -> CacheEntry \cup {None}]
    BY DEF ReadThroughTypeOK, Places
  <1>e. EntryOK(redis) /\ \A q \in Process : EntryOK(memory[q])
    BY DEF StaleInv
  <1>0. w \notin Reader
    OBVIOUS
  <1>1. ASSUME NEW e \in CacheEntry \cup {None}, EntryOK(e) PROVE EntryOK(PassedBy(e))
    BY <1>1, PassedByIs DEF EntryOK
  <1>2. CASE Update(w)
    <2>1. source' = source + 1 /\ replaced' = [replaced EXCEPT ![source] = now]
          /\ val' = [val EXCEPT ![w] = source + 1] /\ pc' = [pc EXCEPT ![w] = "invalidate"]
          /\ UNCHANGED <<now, since, redis, memory>>
      BY <1>2 DEF Update, At
    <2>2. \A r \in Reader : pc'[r] = pc[r] /\ val'[r] = val[r]
      BY <1>0, <1>t, <2>1
    <2>3. \A r \in Reader : CallInTime(r)'
      BY <2>1, <2>2 DEF StaleInv, CallInTime
    <2>4. \A r \in Reader : FetchedInTime(r)'
      <3> TAKE r \in Reader
      <3> SUFFICES ASSUME pc[r] \in {"store", "set"}, val[r] < source + 1
                   PROVE  since[r] <= replaced'[val[r]]
        BY <2>1, <2>2 DEF FetchedInTime
      <3>1. since[r] <= now /\ (val[r] < source => since[r] <= replaced[val[r]])
        BY DEF StaleInv, CallInTime, FetchedInTime
      <3>2. val[r] \in Versions
        BY <1>t
      <3>3. CASE val[r] = source
        BY <1>t, <2>1, <3>1, <3>3
      <3>4. CASE val[r] < source
        BY <1>t, <2>1, <3>1, <3>2, <3>4
      <3> QED
        BY <1>t, <3>2, <3>3, <3>4
    <2>5. \A x \in Call : val'[x] <= source'
      <3>1. \A x \in Call : val[x] <= source /\ val[x] \in Versions
        BY <1>t DEF StaleInv
      <3> QED
        BY <1>t, <2>1, <3>1
    <2>6. ASSUME NEW e \in CacheEntry \cup {None}, EntryOK(e) PROVE EntryOK(e)'
      <3> SUFFICES ASSUME e # None
                   PROVE  /\ e.ver <= source + 1 /\ e.until <= now + CacheTtl
                          /\ (e.ver < source + 1
                                => e.until <= replaced'[e.ver] + CacheTtl + CallSpan)
        BY <2>1 DEF EntryOK
      <3>1. e.ver \in Versions /\ e.until \in Nat
        BY DEF CacheEntry
      <3>2. e.ver <= source /\ e.until <= now + CacheTtl
            /\ (e.ver < source => e.until <= replaced[e.ver] + CacheTtl + CallSpan)
        BY <2>6 DEF EntryOK
      <3>3. CASE e.ver = source
        <4>1. replaced'[e.ver] = now
          BY <1>t, <2>1, <3>3
        <4> QED
          BY <1>t, <3>1, <3>2, <3>3, <4>1
      <3>4. CASE e.ver < source
        <4>1. replaced'[e.ver] = replaced[e.ver]
          BY <1>t, <2>1, <3>1, <3>4
        <4> QED
          BY <1>t, <3>1, <3>2, <3>4, <4>1
      <3> QED
        BY <1>t, <3>1, <3>2, <3>3, <3>4
    <2>7. EntryOK(redis)' /\ \A q \in Process : EntryOK(memory[q])'
      BY <1>e, <1>t, <2>1, <2>6
    <2> QED
      BY <2>3, <2>4, <2>5, <2>7 DEF StaleInv
  <1>3. CASE Invalidate(w)
    <2>1. UNCHANGED <<source, now, replaced, since>>
          /\ memory' = [memory EXCEPT ![Home[w]] = None]
      BY <1>3 DEF Invalidate, ForgetInMemory
    <2>2. \A x \in Call \ {w} : pc'[x] = pc[x] /\ val'[x] = val[x]
      BY <1>3, <1>t DEF Invalidate, Invalidated, At
    <2>3. val'[w] <= source
      BY <1>3, <1>t DEF Invalidate, Invalidated, StaleInv
    <2>4. \A q \in Process : EntryOK(memory'[q])
      BY <1>e, <1>t, <2>1 DEF EntryOK
    <2>5. EntryOK(redis')
      BY <1>3, <1>e, <1>t, <1>1 DEF Invalidate
    <2> QED
      BY <1>0, <2>1, <2>2, <2>3, <2>4, <2>5, StaleFrame
  <1>4. CASE DeleteInRedis(w)
    <2>1. UNCHANGED <<source, now, replaced, since, memory>>
          /\ val' = [val EXCEPT ![w] = 0] /\ pc' = [pc EXCEPT ![w] = "idle"]
      BY <1>4 DEF DeleteInRedis, Invalidated, At
    <2>2. \A x \in Call \ {w} : pc'[x] = pc[x] /\ val'[x] = val[x]
      BY <1>t, <2>1
    <2>3. val'[w] <= source
      BY <1>t, <2>1
    <2>4. EntryOK(None)
      BY DEF EntryOK
    <2>5. EntryOK(redis')
      BY <1>4, <1>e, <1>t, <1>1, <2>4 DEF DeleteInRedis
    <2> QED
      BY <1>0, <1>e, <2>1, <2>2, <2>3, <2>5, StaleFrame
  <1> QED
    BY <1>2, <1>3, <1>4

LEMMA StaleStep ==
    ReadThroughTypeOK /\ StaleInv /\ [ReadThroughNext]_readVars => StaleInv'
  <1> SUFFICES ASSUME ReadThroughTypeOK, StaleInv, [ReadThroughNext]_readVars PROVE StaleInv'
    OBVIOUS
  <1>1. CASE Tick
    <2>1. now' = now + 1 /\ UNCHANGED <<source, replaced, redis, memory, pc, val, since>>
          /\ \A r \in Reader : pc[r] # "idle" => now < since[r] + CallSpan
      BY <1>1 DEF Tick, cacheVars, localVars
    <2>2. now \in Nat /\ since \in [Reader -> Nat]
          /\ redis \in CacheEntry \cup {None} /\ memory \in [Process -> CacheEntry \cup {None}]
      BY DEF ReadThroughTypeOK
    <2>3. \A r \in Reader : CallInTime(r)' /\ FetchedInTime(r)'
      BY <2>1, <2>2, ReadThroughConstantsOK DEF StaleInv, CallInTime, FetchedInTime
    <2>4. ASSUME NEW e \in CacheEntry \cup {None}, EntryOK(e) PROVE EntryOK(e)'
      BY <2>1, <2>2, <2>4, ReadThroughConstantsOK DEF EntryOK, CacheEntry
    <2>5. EntryOK(redis)' /\ \A q \in Process : EntryOK(memory[q])'
      BY <2>1, <2>2, <2>4 DEF StaleInv
    <2> QED
      BY <2>1, <2>3, <2>5 DEF StaleInv
  <1>2. CASE (\E p \in Process : Reconnected(p)) \/ UNCHANGED readVars
    <2>1. UNCHANGED <<source, now, replaced, redis, memory, pc, val, since>>
      BY <1>2 DEF Reconnected, readVars, cacheVars, localVars
    <2> QED
      BY <2>1 DEF StaleInv, CallInTime, FetchedInTime, EntryOK
  <1> QED
    BY <1>1, <1>2, StaleOfReader, StaleOfWriter DEF ReadThroughNext

\* No entry outlives the replacement of its value by more than a TTL and one
\* call: with any number of processes, whatever fetches, updates and failures
\* of Redis overtake each other.
THEOREM StalenessBoundedTheorem == ReadThroughSpec => []StalenessBounded
  <1>1. StaleInv => StalenessBounded
    BY DEF StaleInv, StalenessBounded, EntryOK, Bounded
  <1> QED
    BY TypeInit, TypeStep, StaleInit, StaleStep, <1>1, PTL DEF ReadThroughSpec

------------------------------------------------------------------------------
(* What a call that begins after an invalidation can still get.            *)

\* The entry is marked, or not older than version v.
NotOlder(e, v) == e # None /\ ~e.missed => e.ver >= v

Accounted(p) ==
    done[p] <= source /\ NotOlder(redis, done[p]) /\ NotOlder(memory[p], done[p])

ReaderFresh(r) ==
    /\ base[r] <= done[Home[r]]
    /\ (pc[r] \in {"store", "set"} => base[r] <= val[r])
    /\ (pc[r] = "answered" /\ val[r] < base[r] => overtaken[r])

\* The memory level is emptied before DEL is sent, and what comes into it
\* meanwhile knows the update.
DeletePending(w) == pc[w] = "delete" => NotOlder(memory[Home[w]], val[w])

FreshInv ==
    /\ \A p \in Process : Accounted(p)
    /\ \A r \in Reader : ReaderFresh(r)
    /\ \A w \in Writer : DeletePending(w)

LEMMA FreshInit == ReadThroughInit => FreshInv
  BY ReadThroughConstantsOK
  DEF ReadThroughInit, FreshInv, Accounted, ReaderFresh, DeletePending, NotOlder

\* A step of one reader keeps the invariant if it keeps its own part of it,
\* and what it writes into the levels is marked or as new as the source.
LEMMA FreshFrame ==
    ASSUME ReadThroughTypeOK, StaleInv, FreshInv, UNCHANGED <<source, done>>,
           NEW r \in Reader,
           \A x \in Call \ {r} : pc'[x] = pc[x] /\ val'[x] = val[x],
           \A x \in Reader \ {r} : base'[x] = base[x] /\ overtaken'[x] = overtaken[x],
           ReaderFresh(r)',
           redis' = redis \/ NotOlder(redis', source),
           \A p \in Process : memory'[p] = memory[p] \/ NotOlder(memory'[p], source),
           redis' \in CacheEntry \cup {None},
           memory' \in [Process -> CacheEntry \cup {None}]
    PROVE  FreshInv'
  <1> USE ReadThroughConstantsOK
  <1>0. \A w \in Writer : w # r /\ Home[w] \in Process
    OBVIOUS
  <1>1. ASSUME NEW e \in CacheEntry \cup {None}, NEW v \in Versions, v <= source, NotOlder(e, source)
        PROVE  NotOlder(e, v)
    <2>1. e # None => e.ver \in Versions
      BY DEF CacheEntry
    <2>2. source \in Versions
      BY DEF ReadThroughTypeOK
    <2> QED
      BY <1>1, <2>1, <2>2 DEF NotOlder
  <1>2. \A p \in Process : Accounted(p)'
    <2> TAKE p \in Process
    <2>1. done[p] \in Versions /\ Accounted(p)
      BY DEF ReadThroughTypeOK, FreshInv
    <2>2. NotOlder(redis', done[p]) /\ NotOlder(memory'[p], done[p])
      BY <1>1, <2>1 DEF Accounted
    <2> QED
      BY <2>1, <2>2 DEF Accounted, NotOlder
  <1>3. \A x \in Reader : ReaderFresh(x)'
    <2> TAKE x \in Reader
    <2>1. CASE x # r
      BY <2>1 DEF FreshInv, ReaderFresh
    <2> QED
      BY <2>1
  <1>4. \A w \in Writer : DeletePending(w)'
    <2> TAKE w \in Writer
    <2>1. pc'[w] = pc[w] /\ val'[w] = val[w] /\ val[w] \in Versions /\ val[w] <= source
      BY <1>0 DEF ReadThroughTypeOK, StaleInv
    <2>2. pc[w] = "delete" => NotOlder(memory'[Home[w]], val[w])
      BY <1>0, <1>1, <2>1 DEF FreshInv, DeletePending
    <2> QED
      BY <2>1, <2>2 DEF DeletePending, NotOlder
  <1> QED
    BY <1>2, <1>3, <1>4 DEF FreshInv

\* What a call stores is marked unless it is the source's version.
LEMMA StoredMarked ==
    ASSUME ReadThroughTypeOK, StaleInv, NEW r \in Reader
    PROVE  NotOlder(NewCached(val[r]), source)
  <1>1. val[r] \in Versions /\ source \in Versions /\ now \in Nat /\ val[r] <= source
    BY DEF ReadThroughTypeOK, StaleInv
  <1>2. NewCached(val[r]).ver = val[r] /\ (NewCached(val[r]).missed <=> val[r] < source)
    BY <1>1, NewCachedIs
  <1> QED
    BY <1>1, <1>2 DEF NotOlder

\* The answer out of an entry of its levels is as new as what was invalidated
\* in the process, or the entry was marked.
LEMMA LookInFresh ==
    ASSUME ReadThroughTypeOK, NEW r \in Reader, NEW e \in CacheEntry \cup {None},
           NotOlder(e, done[Home[r]]), NEW v \in Versions, v <= done[Home[r]], LookIn(r, e)
    PROVE  /\ pc'[r] \in {"answered", "fetch"}
           /\ (pc'[r] = "answered" /\ val'[r] < v => overtaken'[r])
           /\ \A x \in Call \ {r} : pc'[x] = pc[x] /\ val'[x] = val[x]
           /\ \A x \in Reader \ {r} : overtaken'[x] = overtaken[x]
  <1>1. pc \in [Call -> Places] /\ val \in [Call -> Versions] /\ overtaken \in [Reader -> BOOLEAN]
        /\ done[Home[r]] \in Versions
    BY ReadThroughConstantsOK DEF ReadThroughTypeOK, Places
  <1>2. CASE Found(e)
    <2>1. At(r, "answered") /\ val' = [val EXCEPT ![r] = e.ver]
          /\ overtaken' = [overtaken EXCEPT ![r] = e.missed] /\ e # None
      BY <1>2 DEF LookIn, Hit, Found
    <2>2. val'[r] = e.ver /\ e.ver \in Versions /\ overtaken'[r] = e.missed
      BY <1>1, <2>1 DEF CacheEntry
    <2>3. e.missed \/ e.ver >= done[Home[r]]
      BY <2>1 DEF NotOlder
    <2>4. val'[r] < v => overtaken'[r]
      BY <1>1, <2>2, <2>3
    <2> HIDE DEF Versions
    <2>5. \A x \in Call \ {r} : pc'[x] = pc[x] /\ val'[x] = val[x]
      BY <1>1, <2>1 DEF At
    <2>6. \A x \in Reader \ {r} : overtaken'[x] = overtaken[x]
      BY <1>1, <2>1
    <2>7. pc'[r] = "answered"
      BY <1>1, <2>1 DEF At
    <2> QED
      BY <2>4, <2>5, <2>6, <2>7
  <1>3. CASE ~Found(e)
    <2>1. At(r, "fetch") /\ UNCHANGED <<val, overtaken>>
      BY <1>3 DEF LookIn, Miss
    <2> HIDE DEF Versions
    <2> QED
      BY <1>1, <2>1 DEF At
  <1> QED
    BY <1>2, <1>3

LEMMA FreshOfReader ==
    ASSUME ReadThroughTypeOK, ReadThroughTypeOK', StaleInv, FreshInv, NEW r \in Reader,
           \/ WithCache(r) \/ GetAnswered(r) \/ GetFailed(r)
           \/ Fetch(r) \/ Store(r) \/ StoreInRedis(r) \/ Return(r)
    PROVE  FreshInv'
  <1> USE ReadThroughConstantsOK DEF cacheVars, localVars
  <1> DEFINE p == Home[r]
  <1>p. p \in Process /\ memory[p] \in CacheEntry \cup {None} /\ redis \in CacheEntry \cup {None}
        /\ done[p] \in Versions
    BY DEF ReadThroughTypeOK
  <1>q. redis' \in CacheEntry \cup {None} /\ memory' \in [Process -> CacheEntry \cup {None}]
    BY DEF ReadThroughTypeOK
  <1>t. pc \in [Call -> Places] /\ val \in [Call -> Versions] /\ base \in [Reader -> Versions]
        /\ source \in Versions
    BY DEF ReadThroughTypeOK, Places
  <1>a. NotOlder(redis, done[p]) /\ NotOlder(memory[p], done[p]) /\ done[p] <= source
    BY <1>p DEF FreshInv, Accounted
  <1>c. ReaderFresh(r) /\ base[r] \in Versions /\ base[r] <= done[p] /\ base[r] <= source
    BY <1>p, <1>t, <1>a DEF FreshInv, ReaderFresh
  <1>1. CASE WithCache(r)
    <2> PICK m \in Managers(p) :
             IF UsesRedis(m, p) THEN At(r, "get") /\ UNCHANGED <<val, overtaken>>
             ELSE IF UsesMemory(m) THEN LookIn(r, memory[p]) ELSE Miss(r)
      BY <1>1 DEF WithCache
    <2>1. /\ pc'[r] \in {"get", "answered", "fetch"}
          /\ (pc'[r] = "answered" /\ val'[r] < done[p] => overtaken'[r])
          /\ \A x \in Call \ {r} : pc'[x] = pc[x] /\ val'[x] = val[x]
          /\ \A x \in Reader \ {r} : overtaken'[x] = overtaken[x]
      <3>1. CASE At(r, "get") /\ UNCHANGED <<val, overtaken>>
        BY <1>t, <3>1 DEF At
      <3>2. CASE LookIn(r, memory[p])
        <4>1. done[p] <= done[p]
          BY <1>p
        <4> QED
          BY <1>p, <1>a, <3>2, <4>1, LookInFresh
      <3>3. CASE Miss(r)
        BY <1>t, <3>3 DEF Miss, At
      <3> QED
        BY <3>1, <3>2, <3>3
    <2>2. base' = [base EXCEPT ![r] = done[p]] /\ UNCHANGED <<source, done, redis, memory>>
      BY <1>1 DEF WithCache
    <2>3. base'[r] = done[p] /\ \A x \in Reader \ {r} : base'[x] = base[x]
      BY <1>t, <2>2
    <2>4. ReaderFresh(r)'
      BY <1>p, <2>1, <2>2, <2>3 DEF ReaderFresh
    <2> QED
      BY <1>q, <2>1, <2>2, <2>3, <2>4, FreshFrame
  <1>2. CASE GetAnswered(r) \/ GetFailed(r)
    <2>1. /\ pc'[r] \in {"answered", "fetch"}
          /\ (pc'[r] = "answered" /\ val'[r] < base[r] => overtaken'[r])
          /\ \A x \in Call \ {r} : pc'[x] = pc[x] /\ val'[x] = val[x]
          /\ \A x \in Reader \ {r} : overtaken'[x] = overtaken[x]
      <3>1. CASE LookIn(r, redis) \/ LookIn(r, memory[p])
        BY <1>p, <1>a, <1>c, <3>1, LookInFresh
      <3>2. CASE Miss(r)
        BY <1>t, <3>2 DEF Miss, At
      <3> QED
        BY <1>2, <3>1, <3>2 DEF GetAnswered, GetFailed, LookIn
    <2>2. UNCHANGED <<source, done, redis, memory, base>>
      BY <1>2 DEF GetAnswered, GetFailed
    <2>3. ReaderFresh(r)'
      BY <1>c, <2>1, <2>2 DEF ReaderFresh
    <2> QED
      BY <1>q, <2>1, <2>2, <2>3, FreshFrame
  <1>4. CASE Fetch(r)
    <2>1. UNCHANGED <<source, done, redis, memory, base, overtaken>>
      BY <1>4 DEF Fetch
    <2>2. \/ pc'[r] = "store" /\ val'[r] = source
          \/ pc'[r] = "thrown"
      BY <1>4, <1>t DEF Fetch, At
    <2>3. \A x \in Call \ {r} : pc'[x] = pc[x] /\ val'[x] = val[x]
      BY <1>4, <1>t DEF Fetch, At
    <2>4. ReaderFresh(r)'
      BY <1>c, <2>1, <2>2 DEF ReaderFresh
    <2> QED
      BY <1>q, <2>1, <2>3, <2>4, FreshFrame
  <1>5. CASE Store(r)
    <2>1. UNCHANGED <<source, done, redis, val, base, overtaken>> /\ pc[r] = "store"
      BY <1>5 DEF Store
    <2>2. pc'[r] \in {"set", "answered"} /\ \A x \in Call \ {r} : pc'[x] = pc[x]
      BY <1>5, <1>t DEF Store, At
    <2>3. \A q \in Process : memory'[q] = memory[q] \/ memory'[q] = NewCached(val[r])
      BY <1>5, <1>p DEF Store, ReadThroughTypeOK
    <2>4. \A q \in Process : memory'[q] = memory[q] \/ NotOlder(memory'[q], source)
      BY <2>3, StoredMarked
    <2>5. ReaderFresh(r)'
      <3>1. base[r] <= val[r] /\ val[r] \in Versions /\ base[r] \in Versions
        BY <1>c, <1>t, <2>1 DEF ReaderFresh
      <3> QED
        BY <1>c, <2>1, <2>2, <3>1 DEF ReaderFresh
    <2> QED
      BY <1>q, <2>1, <2>2, <2>4, <2>5, FreshFrame
  <1>6. CASE StoreInRedis(r)
    <2>1. UNCHANGED <<source, done, memory, val, base, overtaken>> /\ pc[r] = "set"
      BY <1>6 DEF StoreInRedis
    <2>2. pc'[r] = "answered" /\ \A x \in Call \ {r} : pc'[x] = pc[x]
      BY <1>6, <1>t DEF StoreInRedis, At
    <2>3. redis' = redis \/ NotOlder(redis', source)
      BY <1>6, StoredMarked DEF StoreInRedis
    <2>4. ReaderFresh(r)'
      <3>1. base[r] <= val[r] /\ val[r] \in Versions /\ base[r] \in Versions
        BY <1>c, <1>t, <2>1 DEF ReaderFresh
      <3> QED
        BY <1>c, <2>1, <2>2, <3>1 DEF ReaderFresh
    <2> QED
      BY <1>q, <2>1, <2>2, <2>3, <2>4, FreshFrame
  <1>7. CASE Return(r)
    <2>1. UNCHANGED <<source, done, redis, memory>>
          /\ base' = [base EXCEPT ![r] = 0] /\ val' = [val EXCEPT ![r] = 0]
          /\ overtaken' = [overtaken EXCEPT ![r] = FALSE] /\ pc' = [pc EXCEPT ![r] = "idle"]
      BY <1>7 DEF Return, At
    <2>2. pc'[r] = "idle" /\ base'[r] = 0
          /\ \A x \in Call \ {r} : pc'[x] = pc[x] /\ val'[x] = val[x]
      BY <1>t, <2>1
    <2>3. \A x \in Reader \ {r} : base'[x] = base[x] /\ overtaken'[x] = overtaken[x]
      BY <1>t, <2>1 DEF ReadThroughTypeOK
    <2>4. ReaderFresh(r)'
      BY <1>p, <2>1, <2>2 DEF ReaderFresh
    <2> QED
      BY <1>q, <2>1, <2>2, <2>3, <2>4, FreshFrame
  <1> QED
    BY <1>1, <1>2, <1>4, <1>5, <1>6, <1>7

\* The end of an invalidation: what is left in Redis is marked, and what is
\* in the memory level of the process knows the update.
LEMMA FreshInvalidated ==
    ASSUME ReadThroughTypeOK, StaleInv, FreshInv, NEW w \in Writer,
           UNCHANGED <<source, base, overtaken>>, Invalidated(w),
           redis' \in {None, PassedBy(redis)},
           \A p \in Process : memory'[p] = None \/ memory'[p] = memory[p],
           NotOlder(memory'[Home[w]], val[w])
    PROVE  FreshInv'
  <1> USE ReadThroughConstantsOK
  <1>t. pc \in [Call -> Places] /\ val \in [Call -> Versions] /\ base \in [Reader -> Versions]
        /\ done \in [Process -> Versions] /\ source \in Versions /\ val[w] \in Versions
        /\ redis \in CacheEntry \cup {None} /\ memory \in [Process -> CacheEntry \cup {None}]
        /\ val[w] <= source
    BY DEF ReadThroughTypeOK, Places, StaleInv
  <1>1. pc' = [pc EXCEPT ![w] = "idle"] /\ val' = [val EXCEPT ![w] = 0]
    BY DEF Invalidated, At
  <1>2. \A p \in Process : done'[p] \in {done[p], val[w]} /\ done[p] <= done'[p]
        /\ (p # Home[w] => done'[p] = done[p])
    <2>1. \A p \in Process : done'[p] =
            IF p = Home[w] /\ done[p] < val[w] THEN val[w] ELSE done[p]
      BY <1>t DEF Invalidated
    <2> QED
      BY <1>t, <2>1
  <1>3. redis' = None \/ redis'.missed
    BY <1>t, PassedByIs
  <1>4. \A p \in Process : Accounted(p)'
    <2> TAKE p \in Process
    <2>0. done[p] \in Versions
      BY <1>t
    <2>1. done[p] <= source /\ NotOlder(memory[p], done[p])
      BY DEF FreshInv, Accounted
    <2>2. done'[p] <= source
      BY <1>t, <1>2, <2>1
    <2>3. NotOlder(redis', done'[p])
      BY <1>3 DEF NotOlder
    <2>4. NotOlder(memory'[p], done[p])
      BY <2>1 DEF NotOlder
    <2>5. NotOlder(memory'[p], done'[p])
      <3>1. CASE done'[p] = done[p]
        BY <2>4, <3>1
      <3>2. CASE done'[p] # done[p]
        BY <1>2, <3>2
      <3> QED
        BY <3>1, <3>2
    <2> QED
      BY <2>2, <2>3, <2>5 DEF Accounted, NotOlder
  <1>5. \A r \in Reader : ReaderFresh(r)'
    <2> TAKE r \in Reader
    <2>1. r # w /\ Home[r] \in Process
      OBVIOUS
    <2>2. pc'[r] = pc[r] /\ val'[r] = val[r]
      BY <1>t, <1>1, <2>1
    <2>3. ReaderFresh(r) /\ base[r] \in Versions /\ done[Home[r]] \in Versions
      BY <1>t, <2>1 DEF FreshInv
    <2>4. done'[Home[r]] \in Versions /\ done[Home[r]] <= done'[Home[r]]
      BY <1>t, <1>2, <2>1
    <2>5. base'[r] <= done'[Home[r]]
      BY <2>3, <2>4 DEF ReaderFresh
    <2> QED
      BY <2>2, <2>3, <2>5 DEF ReaderFresh
  <1>6. \A x \in Writer : DeletePending(x)'
    <2> TAKE x \in Writer
    <2>1. CASE x = w
      BY <1>t, <1>1, <2>1 DEF DeletePending
    <2>2. CASE x # w
      <3>1. pc'[x] = pc[x] /\ val'[x] = val[x] /\ Home[x] \in Process
        BY <1>t, <1>1, <2>2
      <3>2. pc[x] = "delete" => NotOlder(memory'[Home[x]], val[x])
        BY <3>1 DEF FreshInv, DeletePending, NotOlder
      <3> QED
        BY <3>1, <3>2 DEF DeletePending, NotOlder
    <2> QED
      BY <2>1, <2>2
  <1> QED
    BY <1>4, <1>5, <1>6 DEF FreshInv

LEMMA FreshOfWriter ==
    ASSUME ReadThroughTypeOK, ReadThroughTypeOK', StaleInv, FreshInv, NEW w \in Writer,
           Update(w) \/ Invalidate(w) \/ DeleteInRedis(w)
    PROVE  FreshInv'
  <1> USE ReadThroughConstantsOK DEF cacheVars, localVars
  <1>t. pc \in [Call -> Places] /\ val \in [Call -> Versions] /\ source \in Versions
        /\ done \in [Process -> Versions] /\ memory \in [Process -> CacheEntry \cup {None}]
    BY DEF ReadThroughTypeOK, Places
  <1>h. Home[w] \in Process
    OBVIOUS
  <1>1. CASE Update(w)
    <2>1. source' = source + 1 /\ UNCHANGED <<done, redis, memory, base, overtaken>>
          /\ pc' = [pc EXCEPT ![w] = "invalidate"] /\ val' = [val EXCEPT ![w] = source + 1]
      BY <1>1 DEF Update, At
    <2>2. \A x \in Call \ {w} : pc'[x] = pc[x] /\ val'[x] = val[x]
      BY <1>t, <2>1
    <2>3. pc'[w] = "invalidate"
      BY <1>t, <2>1
    <2>4. \A q \in Process : Accounted(q)'
      BY <1>t, <2>1 DEF FreshInv, Accounted, NotOlder
    <2>5. \A r \in Reader : ReaderFresh(r)'
      <3> TAKE r \in Reader
      <3>1. r # w /\ ReaderFresh(r)
        BY DEF FreshInv
      <3> QED
        BY <2>1, <2>2, <3>1 DEF ReaderFresh
    <2>6. \A x \in Writer : DeletePending(x)'
      BY <2>1, <2>2, <2>3 DEF FreshInv, DeletePending, NotOlder
    <2> QED
      BY <2>4, <2>5, <2>6 DEF FreshInv
  <1>2. CASE Invalidate(w)
    <2>1. UNCHANGED <<source, base, overtaken>> /\ memory' = [memory EXCEPT ![Home[w]] = None]
      BY <1>2 DEF Invalidate, ForgetInMemory
    <2>2. memory'[Home[w]] = None
          /\ \A q \in Process : memory'[q] = None \/ memory'[q] = memory[q]
      BY <1>h, <1>t, <2>1
    <2>3. CASE UsesRedis(backend, Home[w])
      <3>1. UNCHANGED <<redis, val, done>> /\ pc' = [pc EXCEPT ![w] = "delete"]
        BY <1>2, <2>3 DEF Invalidate, At
      <3>2. \A x \in Call \ {w} : pc'[x] = pc[x]
        BY <1>t, <3>1
      <3>3. \A q \in Process : Accounted(q)'
        BY <2>1, <2>2, <3>1 DEF FreshInv, Accounted, NotOlder
      <3>4. \A r \in Reader : ReaderFresh(r)'
        <4> TAKE r \in Reader
        <4>1. r # w /\ ReaderFresh(r)
          BY DEF FreshInv
        <4> QED
          BY <2>1, <3>1, <3>2, <4>1 DEF ReaderFresh
      <3>5. \A x \in Writer : DeletePending(x)'
        <4> TAKE x \in Writer
        <4>1. CASE x = w
          BY <2>2, <4>1 DEF DeletePending, NotOlder
        <4>2. CASE x # w
          <5>1. DeletePending(x) /\ pc'[x] = pc[x] /\ val'[x] = val[x] /\ Home[x] \in Process
            BY <3>1, <3>2, <4>2 DEF FreshInv
          <5> QED
            BY <2>2, <5>1 DEF DeletePending, NotOlder
        <4> QED
          BY <4>1, <4>2
      <3> QED
        BY <3>3, <3>4, <3>5 DEF FreshInv
    <2>4. CASE ~UsesRedis(backend, Home[w])
      <3>1. Invalidated(w) /\ redis' \in {None, PassedBy(redis)}
        BY <1>2, <2>4 DEF Invalidate
      <3>2. NotOlder(memory'[Home[w]], val[w])
        BY <2>2 DEF NotOlder
      <3> QED
        BY <2>1, <2>2, <3>1, <3>2, FreshInvalidated
    <2> QED
      BY <2>3, <2>4
  <1>3. CASE DeleteInRedis(w)
    <2>1. UNCHANGED <<source, base, overtaken, memory>> /\ Invalidated(w)
          /\ redis' \in {None, PassedBy(redis)} /\ pc[w] = "delete"
      BY <1>3 DEF DeleteInRedis
    <2>2. NotOlder(memory'[Home[w]], val[w])
      BY <2>1 DEF FreshInv, DeletePending
    <2> QED
      BY <2>1, <2>2, FreshInvalidated
  <1> QED
    BY <1>1, <1>2, <1>3

LEMMA FreshStep ==
    ReadThroughTypeOK /\ ReadThroughTypeOK' /\ StaleInv /\ FreshInv /\ [ReadThroughNext]_readVars
        => FreshInv'
  <1> SUFFICES ASSUME ReadThroughTypeOK, ReadThroughTypeOK', StaleInv, FreshInv,
                      [ReadThroughNext]_readVars
               PROVE  FreshInv'
    OBVIOUS
  <1>1. CASE Tick \/ (\E p \in Process : Reconnected(p)) \/ UNCHANGED readVars
    <2>1. UNCHANGED <<source, done, redis, memory, pc, val, base, overtaken>>
      BY <1>1 DEF Tick, Reconnected, readVars, cacheVars, localVars
    <2> QED
      BY <2>1 DEF FreshInv, Accounted, ReaderFresh, DeletePending, NotOlder
  <1> QED
    BY <1>1, FreshOfReader, FreshOfWriter DEF ReadThroughNext

\* A call that begins after an update was invalidated in its process answers
\* with that update or a later one, unless the entry it read is marked: what
\* was overtaken between fetch and set, or what Redis kept for lack of a DEL.
THEOREM FreshAfterInvalidationTheorem == ReadThroughSpec => []FreshAfterInvalidation
  <1>1. FreshInv => FreshAfterInvalidation
    BY DEF FreshInv, ReaderFresh, FreshAfterInvalidation
  <1> QED
    BY TypeInit, TypeStep, StaleInit, StaleStep, FreshInit, FreshStep, <1>1, PTL
    DEF ReadThroughSpec
==============================================================================
