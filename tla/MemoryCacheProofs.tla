--------------------------- MODULE MemoryCacheProofs ---------------------------
(* What MemoryCache promises after any sequence of calls, for any keys, sizes, *)
(* bounds and TTLs: the account of bytes and the two bounds, and the truth of  *)
(* reads, claims and misses up to evictions and skipped values.                *)
EXTENDS MemoryCache, FiniteSetTheorems, WellFoundedInduction, TLAPS

------------------------------------------------------------------------------
(* The bytes of a set of keys in a map e.                                  *)

BytePairs(e, S) == {p \in S \X (1 .. MaxBytes) : p[2] <= SizeOf(e[p[1]].value)}
BytesIn(e, S) == Cardinality(BytePairs(e, S))

\* A set of keys is finite.
LEMMA KeysFinite ==
    ASSUME NEW S \in SUBSET Key
    PROVE  IsFiniteSet(S) /\ Cardinality(S) \in Nat
  BY MemoryConstantsOK, FS_Subset, FS_CardinalityType

\* The bytes of a set of keys are a natural number.
LEMMA BytesFinite ==
    ASSUME NEW e, NEW S \in SUBSET Key
    PROVE  IsFiniteSet(BytePairs(e, S)) /\ BytesIn(e, S) \in Nat
  <1>1. IsFiniteSet(1 .. MaxBytes)
    BY MemoryConstantsOK, FS_Interval, 1 \in Int, MaxBytes \in Int
  <1>2. IsFiniteSet(S \X (1 .. MaxBytes))
    BY <1>1, KeysFinite, FS_Product
  <1>3. IsFiniteSet(BytePairs(e, S))
    BY <1>2, FS_Subset, BytePairs(e, S) \in SUBSET (S \X (1 .. MaxBytes)) DEF BytePairs
  <1> QED
    BY <1>3, FS_CardinalityType DEF BytesIn

\* The bytes of the whole are those of a part and those of the rest.
LEMMA BytesSplit ==
    ASSUME NEW e, NEW T \in SUBSET Key, NEW S \in SUBSET T
    PROVE  BytesIn(e, T) = BytesIn(e, S) + BytesIn(e, T \ S)
  <1>1. /\ IsFiniteSet(BytePairs(e, S)) /\ BytesIn(e, S) \in Nat
        /\ IsFiniteSet(BytePairs(e, T \ S)) /\ BytesIn(e, T \ S) \in Nat
    BY BytesFinite, S \in SUBSET Key, T \ S \in SUBSET Key
  <1>2. BytePairs(e, T) = BytePairs(e, S) \cup BytePairs(e, T \ S)
    BY DEF BytePairs
  <1>3. BytePairs(e, S) \cap BytePairs(e, T \ S) = {}
    BY DEF BytePairs
  <1>4. Cardinality(BytePairs(e, S) \cap BytePairs(e, T \ S)) = 0
    BY <1>3, FS_EmptySet
  <1>5. Cardinality(BytePairs(e, S) \cup BytePairs(e, T \ S))
            = Cardinality(BytePairs(e, S)) + Cardinality(BytePairs(e, T \ S))
                - Cardinality(BytePairs(e, S) \cap BytePairs(e, T \ S))
    BY <1>1, FS_Union
  <1> QED
    BY <1>1, <1>2, <1>4, <1>5 DEF BytesIn

\* A larger set of keys has at least the bytes of a smaller one.
LEMMA BytesMonotone ==
    ASSUME NEW e, NEW T \in SUBSET Key, NEW S \in SUBSET T
    PROVE  BytesIn(e, S) <= BytesIn(e, T)
  <1>1. BytesIn(e, T) = BytesIn(e, S) + BytesIn(e, T \ S)
    BY BytesSplit
  <1>2. BytesIn(e, S) \in Nat /\ BytesIn(e, T \ S) \in Nat
    BY BytesFinite, S \in SUBSET Key, T \ S \in SUBSET Key
  <1> QED
    BY <1>1, <1>2

\* No keys, no bytes.
LEMMA BytesEmpty == ASSUME NEW e PROVE BytesIn(e, {}) = 0
  <1>1. BytePairs(e, {}) = {}
    BY DEF BytePairs
  <1> QED
    BY <1>1, FS_EmptySet DEF BytesIn

\* Where two maps hold the same values, they hold the same bytes.
LEMMA BytesSame ==
    ASSUME NEW e, NEW f, NEW S, \A j \in S : e[j].value = f[j].value
    PROVE  BytesIn(e, S) = BytesIn(f, S)
  <1>1. BytePairs(e, S) = BytePairs(f, S)
    BY DEF BytePairs
  <1> QED
    BY <1>1 DEF BytesIn

\* A value has a size.
LEMMA SizeNat ==
    ASSUME NEW v \in Value \cup Nat
    PROVE  SizeOf(v) \in Nat
  BY MemoryConstantsOK DEF SizeOf

\* One entry has the bytes of its value.
LEMMA BytesOne ==
    ASSUME NEW e, NEW k, e[k].value \in Value \cup Nat, Fits(e[k].value)
    PROVE  BytesIn(e, {k}) = SizeOf(e[k].value)
  <1> DEFINE n == SizeOf(e[k].value)
  <1>0. n \in Nat /\ n <= MaxBytes /\ MaxBytes \in Nat
    BY SizeNat, MemoryConstantsOK DEF Fits
  <1> HIDE DEF n
  <1>1. BytePairs(e, {k}) = {k} \X (1 .. n)
    <2>1. BytePairs(e, {k}) = {p \in {k} \X (1 .. MaxBytes) : p[2] <= n}
      BY DEF BytePairs, n
    <2>2. ASSUME NEW p \in {k} \X (1 .. MaxBytes), p[2] <= n PROVE p \in {k} \X (1 .. n)
      BY <2>2, <1>0
    <2>3. ASSUME NEW p \in {k} \X (1 .. n) PROVE p \in {k} \X (1 .. MaxBytes) /\ p[2] <= n
      BY <1>0
    <2> QED
      BY <2>1, <2>2, <2>3
  <1>2. IsFiniteSet(1 .. n) /\ Cardinality(1 .. n) = n
    <2>1. IsFiniteSet(1 .. n) /\ Cardinality(1 .. n) = IF 1 > n THEN 0 ELSE n - 1 + 1
      BY <1>0, FS_Interval, 1 \in Int, n \in Int
    <2> QED
      BY <2>1, <1>0
  <1>3. IsFiniteSet({k}) /\ Cardinality({k}) = 1
    BY FS_Singleton
  <1>4. Cardinality({k} \X (1 .. n)) = Cardinality({k}) * Cardinality(1 .. n)
    BY <1>2, <1>3, FS_Product
  <1>5. Cardinality({k} \X (1 .. n)) = n
    BY <1>0, <1>2, <1>3, <1>4
  <1> QED
    BY <1>1, <1>5 DEF BytesIn, n

\* The bytes of the module are those of its map.
LEMMA BytesOfEntry == \A S : Bytes(S) = BytesIn(entry, S)
  BY DEF Bytes, BytesIn, BytePairs

------------------------------------------------------------------------------
(* What eviction takes.                                                    *)

\* The order in which entries are taken is transitive, and nothing is taken
\* before itself.
LEMMA EvictionOrder ==
    ASSUME MemoryTypeOK
    PROVE  /\ \A k \in Cached : ~GoesBefore(k, k)
           /\ \A i, j, k \in Cached : GoesBefore(i, j) /\ GoesBefore(j, k) => GoesBefore(i, k)
  <1>1. \A k \in Cached : entry[k] \in Entry /\ entry[k].until \in Nat
    BY DEF Cached, MemoryTypeOK, Entry
  <1>2. ASSUME NEW k \in Cached PROVE ~GoesBefore(k, k)
    BY <1>1 DEF GoesBefore, MemoryTypeOK
  <1>3. ASSUME NEW i \in Cached, NEW j \in Cached, NEW k \in Cached,
               GoesBefore(i, j), GoesBefore(j, k)
        PROVE  GoesBefore(i, k)
    <2> USE <1>3
    <2>0. <<i, j>> \in older /\ <<j, k>> \in older => <<i, k>> \in older
      BY DEF MemoryTypeOK
    <2>1. CASE Expired(i) /\ Expired(k)
      BY <2>0, <2>1 DEF GoesBefore
    <2>2. CASE Expired(i) /\ ~Expired(k)
      BY <2>2 DEF GoesBefore
    <2>3. CASE ~Expired(i)
      <3>1. ~Expired(j) /\ ~Expired(k)
        BY <2>3 DEF GoesBefore
      <3>2. CASE policy # "ttl"
        BY <2>3, <2>0, <3>1, <3>2 DEF GoesBefore
      <3>3. CASE policy = "ttl"
        <4>1. /\ entry[i].until \in Nat /\ entry[j].until \in Nat /\ entry[k].until \in Nat
          BY <1>1
        <4>2. \/ entry[i].until < entry[j].until
              \/ entry[i].until = entry[j].until /\ <<i, j>> \in older
          BY <2>3, <3>1, <3>3 DEF GoesBefore
        <4>3. \/ entry[j].until < entry[k].until
              \/ entry[j].until = entry[k].until /\ <<j, k>> \in older
          BY <3>1, <3>3 DEF GoesBefore
        <4>4. \/ entry[i].until < entry[k].until
              \/ entry[i].until = entry[k].until /\ <<i, k>> \in older
          BY <4>1, <4>2, <4>3, <2>0
        <4> QED
          BY <4>4, <2>3, <3>1, <3>3 DEF GoesBefore
      <3> QED
        BY <3>2, <3>3
    <2> QED
      BY <2>1, <2>2, <2>3
  <1> QED
    BY <1>2, <1>3

\* Of the entries that are there, one is taken first.
LEMMA SomeGoesFirst ==
    ASSUME MemoryTypeOK, NEW S \in SUBSET Cached, S # {}
    PROVE  \E i \in S : \A j \in S : ~GoesBefore(j, i)
  <1> DEFINE Before(i) == {j \in S : GoesBefore(j, i)}
             T == {Before(i) : i \in S}
  <1>1. S \in SUBSET Key
    BY DEF Cached
  <1>2. IsFiniteSet(S)
    BY <1>1, KeysFinite
  <1>3. FiniteSubsetsOf(S) = SUBSET S
    BY <1>2, FS_FiniteSubsetsOfFinite
  <1>4. IsWellFoundedOn(StrictSubsetOrdering(S), SUBSET S)
    BY <1>3, FS_StrictSubsetOrderingWellFounded
  <1>5. T \subseteq SUBSET S /\ T # {}
    OBVIOUS
  <1>6. \E U \in T : \A W \in T : ~ (<<W, U>> \in StrictSubsetOrdering(S))
    <2> HIDE DEF T
    <2> QED
      BY <1>4, <1>5, WFMin
  <1>7. PICK i \in S : \A W \in T : ~ (<<W, Before(i)>> \in StrictSubsetOrdering(S))
    BY <1>6
  <1>8. ASSUME NEW j \in S, GoesBefore(j, i) PROVE FALSE
    <2>1. j \in Before(i) /\ j \notin Before(j)
      BY <1>8, EvictionOrder
    <2>2. Before(j) \subseteq Before(i)
      BY <1>8, EvictionOrder
    <2>3. Before(j) \in SUBSET S /\ Before(i) \in SUBSET S /\ Before(j) # Before(i)
      BY <2>1
    <2>4. <<Before(j), Before(i)>> \in StrictSubsetOrdering(S)
      <3> HIDE DEF Before
      <3> QED
        BY <2>2, <2>3 DEF StrictSubsetOrdering
    <2> QED
      BY <2>4, <1>7
  <1> QED
    BY <1>8

\* What is too full stays too full with more in it.
LEMMA FullerNeedsEviction ==
    ASSUME MemoryTypeOK, bytes \in Int, NEW T \in SUBSET Cached, NEW S \in SUBSET T,
           NEW size \in Nat, NeedsEviction(S, size)
    PROVE  NeedsEviction(T, size)
  <1>1. T \in SUBSET Key /\ S \in SUBSET Key /\ Cached \ S \in SUBSET Key
    BY DEF Cached
  <1>2. Cardinality(S) <= Cardinality(T) /\ Cardinality(S) \in Nat /\ Cardinality(T) \in Nat
    BY <1>1, KeysFinite, FS_Subset
  <1>3. BytesIn(entry, Cached \ T) <= BytesIn(entry, Cached \ S)
    BY <1>1, BytesMonotone, Cached \ T \in SUBSET (Cached \ S)
  <1>4. BytesIn(entry, Cached \ T) \in Nat /\ BytesIn(entry, Cached \ S) \in Nat
    BY <1>1, BytesFinite, Cached \ T \in SUBSET Key
  <1>5. CASE Cardinality(S) >= MaxSize
    BY <1>2, <1>5, MemoryConstantsOK DEF NeedsEviction
  <1>6. CASE bytes - BytesIn(entry, Cached \ S) + size > MaxBytes
    <2>1. bytes - BytesIn(entry, Cached \ T) + size > MaxBytes
      BY <1>3, <1>4, <1>6, MemoryConstantsOK
    <2> QED
      BY <2>1, BytesOfEntry DEF NeedsEviction
  <1> QED
    BY <1>5, <1>6, BytesOfEntry DEF NeedsEviction

\* No live entry is taken while an expired one stays.
LEMMA ExpiredGoFirst ==
    ASSUME MemoryTypeOK, bytes \in Int, NEW C \in SUBSET Cached, NEW size \in Nat,
           NEW j \in Evicted(C, size), ~Expired(j), NEW i \in C, Expired(i)
    PROVE  i \in Evicted(C, size)
  <1> DEFINE After(k) == C \ {x \in C : GoesBefore(x, k)}
  <1>1. NeedsEviction(After(j), size) /\ j \in C
    BY DEF Evicted
  <1>2. After(j) \subseteq After(i)
    BY DEF GoesBefore
  <1>3. After(i) \in SUBSET Cached
    OBVIOUS
  <1>4. NeedsEviction(After(i), size)
    <2> HIDE DEF After
    <2> QED
      BY <1>1, <1>2, <1>3, FullerNeedsEviction
  <1> QED
    BY <1>4 DEF Evicted

\* What is left when the eviction is over leaves room for the value.
LEMMA EvictionMakesRoom ==
    ASSUME MemoryTypeOK, bytes = BytesIn(entry, Cached), NEW C \in SUBSET Cached,
           NEW size \in Nat, size <= MaxBytes
    PROVE  /\ Cardinality(C \ Evicted(C, size)) < MaxSize
           /\ BytesIn(entry, C \ Evicted(C, size)) + size <= MaxBytes
  <1> DEFINE keep == C \ Evicted(C, size)
             After(k) == C \ {x \in C : GoesBefore(x, k)}
  <1>0. keep \in SUBSET Key /\ Cached \in SUBSET Key /\ keep \in SUBSET Cached
    BY DEF Cached
  <1>1. CASE keep = {}
    <2>1. Cardinality(keep) = 0 /\ BytesIn(entry, keep) = 0
      BY <1>1, FS_EmptySet, BytesEmpty
    <2> QED
      BY <2>1, MemoryConstantsOK
  <1>2. CASE keep # {}
    <2>1. PICK i \in keep : \A j \in keep : ~GoesBefore(j, i)
      BY <1>0, <1>2, SomeGoesFirst
    <2>2. ~NeedsEviction(After(i), size)
      BY DEF Evicted
    <2>3. keep \in SUBSET After(i) /\ After(i) \in SUBSET Key /\ After(i) \in SUBSET Cached
      BY <2>1, <1>0
    <2>4. Cardinality(keep) <= Cardinality(After(i)) /\ BytesIn(entry, keep) <= BytesIn(entry, After(i))
      BY <2>3, KeysFinite, FS_Subset, BytesMonotone
    <2>5. /\ Cardinality(keep) \in Nat /\ Cardinality(After(i)) \in Nat
          /\ BytesIn(entry, keep) \in Nat /\ BytesIn(entry, After(i)) \in Nat
          /\ BytesIn(entry, Cached \ After(i)) \in Nat
      BY <2>3, <1>0, KeysFinite, BytesFinite, Cached \ After(i) \in SUBSET Key
    <2>6. bytes = BytesIn(entry, After(i)) + BytesIn(entry, Cached \ After(i))
      BY <2>3, <1>0, BytesSplit
    <2>7. ~ (Cardinality(After(i)) >= MaxSize)
          /\ ~ (bytes - BytesIn(entry, Cached \ After(i)) + size > MaxBytes)
      BY <2>2, BytesOfEntry DEF NeedsEviction
    <2>8. Cardinality(keep) < MaxSize /\ BytesIn(entry, keep) + size <= MaxBytes
      <3> HIDE DEF keep, After
      <3> QED
        BY <2>4, <2>5, <2>6, <2>7, MemoryConstantsOK
    <2> QED
      BY <2>8
  <1> QED
    BY <1>1, <1>2

------------------------------------------------------------------------------
(* The ways in which the map changes.                                      *)

\* Entries are deleted.
LEMMA DeleteKeepsMap ==
    ASSUME MemoryInv, NEW S, DeleteEntries(S)
    PROVE  /\ entry' \in [Key -> Entry \cup {None}]
           /\ Cached' = Cached \ S
           /\ older' = older \cap (Cached' \X Cached')
           /\ Accounted'
  <1>1. entry' \in [Key -> Entry \cup {None}] /\ Cached' = Cached \ S
    BY DEF MemoryInv, MemoryTypeOK, DeleteEntries, Cached
  <1>2. Cached \in SUBSET Key /\ Cached \ S \in SUBSET Cached /\ Cached \ S \in SUBSET Key
    BY DEF Cached
  <1>3. BytesIn(entry', Cached \ S) = BytesIn(entry, Cached \ S)
    <2>1. \A j \in Cached \ S : entry'[j].value = entry[j].value
      BY DEF DeleteEntries, Cached
    <2> QED
      BY <2>1, BytesSame
  <1>4. BytesIn(entry, Cached) = BytesIn(entry, Cached \ S) + BytesIn(entry, S \cap Cached)
    <2>1. Cached \ (Cached \ S) = S \cap Cached
      OBVIOUS
    <2> QED
      BY <2>1, <1>2, BytesSplit
  <1>5. /\ BytesIn(entry, Cached) \in Nat /\ BytesIn(entry, Cached \ S) \in Nat
        /\ BytesIn(entry, S \cap Cached) \in Nat
    BY <1>2, BytesFinite, S \cap Cached \in SUBSET Key
  <1>6. bytes' = BytesIn(entry, Cached) - BytesIn(entry, S \cap Cached)
    BY BytesOfEntry DEF DeleteEntries, MemoryInv, Accounted
  <1>7. bytes' = BytesIn(entry', Cached') /\ bytes' <= BytesIn(entry, Cached)
    BY <1>1, <1>3, <1>4, <1>5, <1>6
  <1>8. Cardinality(Cached \ S) <= Cardinality(Cached)
        /\ Cardinality(Cached \ S) \in Nat /\ Cardinality(Cached) \in Nat
    BY <1>2, KeysFinite, FS_Subset
  <1>9. BytesIn(entry, Cached) <= MaxBytes /\ Cardinality(Cached) <= MaxSize
    BY BytesOfEntry DEF MemoryInv, Accounted
  <1>10. bytes' <= MaxBytes
    BY <1>5, <1>7, <1>9, <1>6, MemoryConstantsOK
  <1>11. Cardinality(Cached') <= MaxSize
    BY <1>1, <1>8, <1>9, MemoryConstantsOK
  <1>12. Bytes(Cached)' = BytesIn(entry', Cached')
    BY DEF Bytes, BytesIn, BytePairs, SizeOf
  <1> QED
    BY <1>1, <1>7, <1>10, <1>11, <1>12 DEF Accounted, DeleteEntries

\* The order of a part of the map is a total order of that part.
LEMMA PartInOrder ==
    ASSUME MemoryTypeOK, Cached' \subseteq Cached, older' = older \cap (Cached' \X Cached')
    PROVE  /\ older' \subseteq Cached' \X Cached'
           /\ \A j, k \in Cached' : j # k => (<<j, k>> \in older' <=> <<k, j>> \notin older')
           /\ \A i, j, k \in Cached' :
                <<i, j>> \in older' /\ <<j, k>> \in older' => <<i, k>> \in older'
           /\ \A k \in Cached' : <<k, k>> \notin older'
  BY DEF MemoryTypeOK

\* So is the order of a part to which a key is added as the last.
LEMMA LastInOrder ==
    ASSUME MemoryTypeOK, NEW S \in SUBSET Cached, NEW k \in Key,
           Cached' = S \cup {k}, older' = Last(older, S, k)
    PROVE  /\ older' \subseteq Cached' \X Cached'
           /\ \A i, j \in Cached' : i # j => (<<i, j>> \in older' <=> <<j, i>> \notin older')
           /\ \A h, i, j \in Cached' :
                <<h, i>> \in older' /\ <<i, j>> \in older' => <<h, j>> \in older'
           /\ \A j \in Cached' : <<j, j>> \notin older'
  <1>0. older' = (older \cap ((S \ {k}) \X (S \ {k}))) \cup ((S \ {k}) \X {k})
    BY DEF Last
  <1>1. \A i, j : <<i, j>> \in older' <=>
            \/ <<i, j>> \in older /\ i \in S \ {k} /\ j \in S \ {k}
            \/ i \in S \ {k} /\ j = k
    BY <1>0
  <1>2. older' \subseteq Cached' \X Cached'
    BY <1>0
  <1>3. ASSUME NEW i \in Cached', NEW j \in Cached', i # j
        PROVE  <<i, j>> \in older' <=> <<j, i>> \notin older'
    <2>1. CASE i = k
      BY <2>1, <1>1, <1>3
    <2>2. CASE j = k
      BY <2>2, <1>1, <1>3
    <2>3. CASE i # k /\ j # k
      <3>1. <<i, j>> \in older <=> <<j, i>> \notin older
        BY <2>3, <1>3 DEF MemoryTypeOK
      <3> QED
        BY <2>3, <3>1, <1>1
    <2> QED
      BY <2>1, <2>2, <2>3
  <1>4. ASSUME NEW h \in Cached', NEW i \in Cached', NEW j \in Cached',
               <<h, i>> \in older', <<i, j>> \in older'
        PROVE  <<h, j>> \in older'
    <2>1. h \in S \ {k} /\ i \in S \ {k} /\ <<h, i>> \in older
      BY <1>4, <1>1
    <2>2. CASE j = k
      BY <2>1, <2>2, <1>1
    <2>3. CASE j # k
      <3>1. <<i, j>> \in older /\ j \in S \ {k}
        BY <2>3, <1>4, <1>1
      <3>2. <<h, j>> \in older
        BY <2>1, <3>1 DEF MemoryTypeOK
      <3> QED
        BY <2>1, <3>1, <3>2, <1>1
    <2> QED
      BY <2>2, <2>3
  <1>5. ASSUME NEW j \in Cached' PROVE <<j, j>> \notin older'
    <2>1. CASE j = k
      BY <2>1, <1>1
    <2>2. CASE j # k
      <3>1. <<j, j>> \notin older
        BY <2>2 DEF MemoryTypeOK
      <3> QED
        BY <2>2, <3>1, <1>1
    <2> QED
      BY <2>1, <2>2
  <1> QED
    BY <1>2, <1>3, <1>4, <1>5

\* The lifetime of an entry, and an entry that is stored.
LEMMA NewEntryTyped ==
    ASSUME now \in Nat, NEW v \in Value \cup Nat, NEW t \in Nat
    PROVE  /\ NewEntry(v, t) \in Entry /\ NewEntry(v, t) # None
           /\ NewEntry(v, t).value = v
           /\ NewEntry(v, t) = [value |-> v, until |-> now + Ttl(t)]
  BY MemoryConstantsOK DEF NewEntry, Entry, Ttl

\* A value is stored in the room that was made for it.
LEMMA StoreInRoom ==
    ASSUME MemoryInv, NEW k \in Key, NEW v \in Value \cup Nat, NEW t \in Nat, Fits(v),
           NEW C \in SUBSET Cached, NEW rest, rest = (C \ Evicted(C, SizeOf(v))) \ {k},
           entry' = [j \in Key |-> IF j = k THEN NewEntry(v, t)
                                   ELSE IF j \in rest THEN entry[j] ELSE None],
           bytes' = bytes - Freed(rest, k) + SizeOf(v)
    PROVE  /\ entry' \in [Key -> Entry \cup {None}]
           /\ Cached' = rest \cup {k}
           /\ Accounted'
  <1> DEFINE keep == C \ Evicted(C, SizeOf(v))
  <1>0. MemoryTypeOK /\ now \in Nat /\ entry \in [Key -> Entry \cup {None}]
    BY DEF MemoryInv, MemoryTypeOK
  <1>1. NewEntry(v, t) \in Entry /\ NewEntry(v, t) # None /\ NewEntry(v, t).value = v
    BY <1>0, NewEntryTyped
  <1>2. rest \in SUBSET Cached /\ rest \in SUBSET Key /\ Cached \in SUBSET Key
        /\ keep \in SUBSET Key /\ rest \in SUBSET keep
    BY DEF Cached
  <1>3. entry' \in [Key -> Entry \cup {None}]
    BY <1>0, <1>1
  <1>4. Cached' = rest \cup {k}
    BY <1>1, <1>2 DEF Cached
  <1>5. bytes = BytesIn(entry, Cached)
    BY BytesOfEntry DEF MemoryInv, Accounted
  <1>6. SizeOf(v) \in Nat /\ SizeOf(v) <= MaxBytes
    BY SizeNat DEF Fits
  <1>7. Cardinality(keep) < MaxSize /\ BytesIn(entry, keep) + SizeOf(v) <= MaxBytes
    BY <1>0, <1>5, <1>6, EvictionMakesRoom
  <1>8. Cardinality(rest \cup {k}) <= MaxSize
    <2>1. /\ Cardinality(rest) <= Cardinality(keep)
          /\ Cardinality(rest) \in Nat /\ Cardinality(keep) \in Nat /\ IsFiniteSet(rest)
      BY <1>2, KeysFinite, FS_Subset
    <2>2. Cardinality(rest \cup {k}) = Cardinality(rest) + 1
      BY <2>1, FS_AddElement
    <2> QED
      BY <2>1, <2>2, <1>7, MemoryConstantsOK
  <1>9. BytesIn(entry', rest \cup {k}) = BytesIn(entry, rest) + SizeOf(v)
    <2>1. BytesIn(entry', rest \cup {k}) = BytesIn(entry', rest) + BytesIn(entry', {k})
      <3>1. rest \cup {k} \in SUBSET Key /\ rest \in SUBSET (rest \cup {k})
            /\ (rest \cup {k}) \ rest = {k}
        BY <1>2
      <3> QED
        BY <3>1, BytesSplit
    <2>2. BytesIn(entry', rest) = BytesIn(entry, rest)
      <3>1. \A j \in rest : entry'[j].value = entry[j].value
        BY <1>2
      <3> QED
        BY <3>1, BytesSame
    <2>3. BytesIn(entry', {k}) = SizeOf(v)
      <3>1. entry'[k].value = v
        BY <1>1
      <3> QED
        BY <3>1, BytesOne
    <2> QED
      BY <2>1, <2>2, <2>3
  <1>10. BytesIn(entry, Cached) = BytesIn(entry, rest) + BytesIn(entry, Cached \ rest)
    BY <1>2, BytesSplit
  <1>11. BytesIn(entry, rest) \in Nat /\ BytesIn(entry, Cached \ rest) \in Nat
         /\ BytesIn(entry, keep) \in Nat /\ BytesIn(entry, rest) <= BytesIn(entry, keep)
    BY <1>2, BytesFinite, BytesMonotone, Cached \ rest \in SUBSET Key
  <1>12. bytes' = bytes - BytesIn(entry, Cached \ rest) + SizeOf(v)
    BY BytesOfEntry DEF Freed
  <1>13. bytes' = BytesIn(entry, rest) + SizeOf(v)
    BY <1>5, <1>6, <1>10, <1>11, <1>12
  <1>14. bytes' <= MaxBytes
    <2> HIDE DEF keep
    <2> QED
      BY <1>6, <1>7, <1>11, <1>13, MemoryConstantsOK
  <1>15. Bytes(Cached)' = BytesIn(entry', Cached')
    BY DEF Bytes, BytesIn, BytePairs, SizeOf
  <1> QED
    BY <1>3, <1>4, <1>8, <1>9, <1>13, <1>14, <1>15 DEF Accounted

\* storeEntry keeps the map in order.
LEMMA StoreKeepsMap ==
    ASSUME MemoryInv, NEW k \in Key, NEW v \in Value \cup Nat, NEW t \in Nat,
           NEW gone \in {{}, {k}}, StoreEntry(gone, k, v, t),
           UNCHANGED <<policy, now>>, twice' \subseteq Key
    PROVE  MemoryInv'
  <1> DEFINE out == Evicted(Cached \ gone, SizeOf(v))
             rest == (Cached \ (gone \cup out)) \ {k}
  <1>0. MemoryTypeOK
    BY DEF MemoryInv
  <1>1. /\ latest' \in [Key -> Entry \cup {None}]
        /\ fate' \in [Key -> {"kept", "evicted", "skipped"}]
        /\ missed' \subseteq Key
    <2>1. [value |-> v, until |-> now + Ttl(t)] \in Entry
      BY <1>0, NewEntryTyped DEF MemoryTypeOK
    <2> QED
      BY <1>0, <2>1 DEF StoreEntry, MemoryTypeOK
  <1>2. CASE ~Fits(v)
    <2>1. DeleteEntries(gone)
      BY <1>2 DEF StoreEntry
    <2>2. /\ entry' \in [Key -> Entry \cup {None}] /\ Accounted'
          /\ Cached' \subseteq Cached /\ older' = older \cap (Cached' \X Cached')
      BY <2>1, DeleteKeepsMap
    <2> QED
      BY <1>0, <1>1, <2>2, PartInOrder DEF MemoryInv, MemoryTypeOK
  <1>3. CASE Fits(v)
    <2> DEFINE C == Cached \ gone
    <2>1. rest = (C \ Evicted(C, SizeOf(v))) \ {k} /\ rest \in SUBSET Cached
      OBVIOUS
    <2>2. /\ entry' = [j \in Key |-> IF j = k THEN NewEntry(v, t)
                                     ELSE IF j \in rest THEN entry[j] ELSE None]
          /\ older' = Last(older, rest, k)
          /\ bytes' = bytes - Freed(rest, k) + SizeOf(v)
      BY <1>3 DEF StoreEntry
    <2>3. C \in SUBSET Cached
      OBVIOUS
    <2> HIDE DEF rest, C
    <2>4. /\ entry' \in [Key -> Entry \cup {None}] /\ Accounted' /\ Cached' = rest \cup {k}
      BY <1>3, <2>1, <2>2, <2>3, StoreInRoom
    <2>5. /\ older' \subseteq Cached' \X Cached'
          /\ \A i, j \in Cached' : i # j => (<<i, j>> \in older' <=> <<j, i>> \notin older')
          /\ \A h, i, j \in Cached' :
               <<h, i>> \in older' /\ <<i, j>> \in older' => <<h, j>> \in older'
          /\ \A j \in Cached' : <<j, j>> \notin older'
      BY <1>0, <2>1, <2>2, <2>4, LastInOrder
    <2> QED
      BY <1>0, <1>1, <2>4, <2>5 DEF MemoryInv, MemoryTypeOK
  <1> QED
    BY <1>2, <1>3

\* A touched entry only changes its place in the order.
LEMMA TouchKeepsOrder ==
    ASSUME MemoryTypeOK, NEW k \in Key, k \in Cached, Touch(k), entry' = entry
    PROVE  /\ older' \subseteq Cached' \X Cached'
           /\ \A i, j \in Cached' : i # j => (<<i, j>> \in older' <=> <<j, i>> \notin older')
           /\ \A h, i, j \in Cached' :
                <<h, i>> \in older' /\ <<i, j>> \in older' => <<h, j>> \in older'
           /\ \A j \in Cached' : <<j, j>> \notin older'
  <1>1. Cached' = Cached /\ Cached = Cached \cup {k} /\ Cached \in SUBSET Cached
    BY DEF Cached
  <1>2. CASE policy = "lru"
    <2>1. older' = Last(older, Cached, k)
      BY <1>2 DEF Touch
    <2> QED
      BY <1>1, <2>1, LastInOrder
  <1>3. CASE policy # "lru"
    <2>1. older' = older
      BY <1>3 DEF Touch
    <2> QED
      BY <1>1, <2>1 DEF MemoryTypeOK
  <1> QED
    BY <1>2, <1>3

\* While the map and the values in it stay, so does the account.
LEMMA AccountKept ==
    ASSUME Accounted, bytes' = bytes, Cached' = Cached,
           \A j \in Cached : entry'[j].value = entry[j].value
    PROVE  Accounted'
  <1>1. Bytes(Cached)' = BytesIn(entry', Cached)
    BY DEF Bytes, BytesIn, BytePairs, SizeOf
  <1>2. BytesIn(entry', Cached) = BytesIn(entry, Cached)
    BY BytesSame
  <1> QED
    BY <1>1, <1>2, BytesOfEntry DEF Accounted

\* Deleting entries keeps the map in order, whatever becomes of the histories.
LEMMA DeleteKeepsInv ==
    ASSUME MemoryInv, NEW S, DeleteEntries(S), policy' = policy, now' = now,
           latest' \in [Key -> Entry \cup {None}],
           fate' \in [Key -> {"kept", "evicted", "skipped"}],
           missed' \subseteq Key, twice' \subseteq Key
    PROVE  MemoryInv'
  <1>1. /\ entry' \in [Key -> Entry \cup {None}] /\ Accounted'
        /\ Cached' \subseteq Cached /\ older' = older \cap (Cached' \X Cached')
    BY DeleteKeepsMap
  <1> QED
    BY <1>1, PartInOrder DEF MemoryInv, MemoryTypeOK

------------------------------------------------------------------------------
(* Every step keeps the map in order.                                      *)

\* What the map holds and what the histories say of it: an entry that was kept
\* is the latest one, an evicted key and one found missing are not in the map.
\* MemoryInv needs it: expire() moves the end of the latest value along with
\* that of the entry, and the two must be the same for that to have a meaning.
Truthful ==
    /\ \A k \in Key : entry[k] # None /\ fate[k] = "kept" => entry[k] = latest[k]
    /\ \A k \in Key : fate[k] = "evicted" => entry[k] = None
    /\ \A k \in Key : Stands(k) => entry[k] = latest[k]
    /\ \A k \in missed : entry[k] = None
    /\ twice = {}


\* The map is empty at first.
LEMMA InitInv == ASSUME MemoryInit PROVE MemoryInv
  <1>1. Cached = {}
    BY DEF MemoryInit, Cached
  <1>2. Bytes(Cached) = 0 /\ Cardinality(Cached) = 0
    BY <1>1, BytesOfEntry, BytesEmpty, FS_EmptySet
  <1>3. Accounted
    BY <1>2, MemoryConstantsOK DEF MemoryInit, Accounted
  <1>4. MemoryTypeOK
    BY <1>1 DEF MemoryInit, MemoryTypeOK
  <1> QED
    BY <1>3, <1>4 DEF MemoryInv

\* So is every step.
LEMMA StepKeepsInv == ASSUME MemoryInv, Truthful, [MemoryNext]_memoryVars PROVE MemoryInv'
  <1>0. MemoryTypeOK /\ Accounted /\ Ttls \subseteq Nat
    BY MemoryConstantsOK DEF MemoryInv
  <1>1. ASSUME NEW k \in Key, Get(k) PROVE MemoryInv'
    <2>1. CASE Live(k) /\ Touch(k) /\ UNCHANGED <<entry, bytes, missed>>
      <3>1. k \in Cached /\ Cached' = Cached
        BY <2>1 DEF Live, Cached
      <3>2. Accounted'
        BY <1>0, <2>1, <3>1, AccountKept
      <3>3. MemoryTypeOK'
        BY <1>0, <1>1, <2>1, <3>1, TouchKeepsOrder DEF Get, MemoryTypeOK
      <3> QED
        BY <3>2, <3>3 DEF MemoryInv
    <2>2. CASE DeleteEntries({k}) /\ missed' = missed \cup {k}
      BY <1>0, <1>1, <2>2, DeleteKeepsInv DEF Get, MemoryTypeOK
    <2> QED
      BY <1>1, <2>1, <2>2 DEF Get
  <1>2. ASSUME NEW k \in Key, Exists(k) PROVE MemoryInv'
    <2>1. CASE UNCHANGED <<mapVars, missed>>
      BY <1>2, <2>1
         DEF Exists, mapVars, MemoryInv, MemoryTypeOK, Accounted, Bytes, SizeOf, Cached
    <2>2. CASE DeleteEntries({k}) /\ missed' = missed \cup {k}
      BY <1>0, <1>2, <2>2, DeleteKeepsInv DEF Exists, MemoryTypeOK
    <2> QED
      BY <1>2, <2>1, <2>2 DEF Exists
  <1>3. ASSUME NEW k \in Key, Increment(k) PROVE MemoryInv'
    <2> DEFINE n == IF Live(k) /\ entry[k].value \in Nat THEN entry[k].value ELSE 0
    <2>1. n + 1 \in Value \cup Nat
      OBVIOUS
    <2>2. StoreEntry({}, k, n + 1, 0) /\ UNCHANGED <<policy, now, twice>>
      BY <1>3 DEF Increment
    <2>3. twice' \subseteq Key
      BY <1>0, <2>2 DEF MemoryTypeOK
    <2> HIDE DEF n
    <2> QED
      BY <2>1, <2>2, <2>3, StoreKeepsMap
  <1>4. ASSUME NEW k \in Key, NEW v \in Value, NEW t \in Ttls, Set(k, v, t) PROVE MemoryInv'
    <2>1. StoreEntry({}, k, v, t) /\ UNCHANGED <<policy, now>> /\ twice' \subseteq Key
      BY <1>0, <1>4 DEF Set, MemoryTypeOK
    <2> QED
      BY <1>0, <2>1, StoreKeepsMap
  <1>5. ASSUME NEW k \in Key, NEW v \in Value, NEW t \in Ttls, SetIfNotExists(k, v, t)
        PROVE  MemoryInv'
    <2>1. CASE UNCHANGED <<mapVars, historyVars>>
      BY <1>5, <2>1 DEF SetIfNotExists, mapVars, historyVars, MemoryInv, MemoryTypeOK,
                        Accounted, Bytes, SizeOf, Cached
    <2>2. CASE /\ StoreEntry({k}, k, v, t)
               /\ twice' = IF Stands(k) THEN twice \cup {k} ELSE twice
      <3>1. UNCHANGED <<policy, now>> /\ twice' \subseteq Key
        BY <1>0, <1>5, <2>2 DEF SetIfNotExists, MemoryTypeOK
      <3> QED
        BY <1>0, <2>2, <3>1, StoreKeepsMap
    <2> QED
      BY <1>5, <2>1, <2>2 DEF SetIfNotExists
  <1>6. ASSUME NEW k \in Key, NEW t \in Ttls, Expire(k, t) PROVE MemoryInv'
    <2>1. now + t \in Nat
      BY <1>0 DEF MemoryTypeOK
    <2>2. entry[k] \in Entry /\ entry' = [entry EXCEPT ![k].until = now + t]
      BY <1>0, <1>6 DEF Expire, MemoryTypeOK
    <2>3. /\ [entry[k] EXCEPT !.until = now + t] \in Entry
          /\ [entry[k] EXCEPT !.until = now + t].value = entry[k].value
      BY <2>1, <2>2 DEF Entry
    <2>4. /\ entry' \in [Key -> Entry \cup {None}] /\ Cached' = Cached
          /\ \A j \in Cached : entry'[j].value = entry[j].value
      BY <1>0, <1>6, <2>2, <2>3, MemoryConstantsOK DEF Expire, MemoryTypeOK, Cached, Entry
    <2>5. latest' \in [Key -> Entry \cup {None}]
      <3>1. fate[k] = "kept" => latest[k] \in Entry
        BY <1>6, <2>2 DEF Expire, Truthful
      <3>2. fate[k] = "kept" => [latest[k] EXCEPT !.until = now + t] \in Entry
        BY <2>1, <3>1 DEF Entry
      <3> QED
        BY <1>0, <1>6, <3>2 DEF Expire, MemoryTypeOK
    <2>6. Accounted'
      BY <1>0, <1>6, <2>4, AccountKept DEF Expire
    <2> QED
      BY <1>0, <1>6, <2>4, <2>5, <2>6 DEF Expire, MemoryInv, MemoryTypeOK
  <1>7. ASSUME NEW S, Delete(S) PROVE MemoryInv'
    BY <1>0, <1>7, DeleteKeepsInv DEF Delete, Forgotten, MemoryTypeOK
  <1>8. ASSUME Clear PROVE MemoryInv'
    <2>1. Cached' = {}
      BY <1>8 DEF Clear, Cached
    <2>2. Bytes(Cached)' = BytesIn(entry', {})
      BY <2>1 DEF Bytes, BytesIn, BytePairs, SizeOf
    <2>3. Accounted'
      BY <1>8, <2>1, <2>2, BytesEmpty, FS_EmptySet, MemoryConstantsOK DEF Clear, Accounted
    <2>4. MemoryTypeOK'
      BY <1>0, <1>8, <2>1 DEF Clear, Forgotten, MemoryTypeOK
    <2> QED
      BY <2>3, <2>4 DEF MemoryInv
  <1>9. ASSUME CleanupExpired PROVE MemoryInv'
    BY <1>0, <1>9, DeleteKeepsInv DEF CleanupExpired, historyVars, MemoryTypeOK
  <1>10. ASSUME Tick PROVE MemoryInv'
    <2>1. Cached' = Cached /\ Accounted'
      BY <1>0, <1>10 DEF Tick, mapVars, Accounted, Bytes, SizeOf, Cached
    <2> QED
      BY <1>0, <1>10, <2>1 DEF Tick, mapVars, MemoryInv, MemoryTypeOK
  <1>11. ASSUME UNCHANGED memoryVars PROVE MemoryInv'
    BY <1>11 DEF memoryVars, mapVars, historyVars, MemoryInv, MemoryTypeOK, Accounted,
                 Bytes, SizeOf, Cached
  <1> QED
    BY <1>1, <1>2, <1>3, <1>4, <1>5, <1>6, <1>7, <1>8, <1>9, <1>10, <1>11 DEF MemoryNext

------------------------------------------------------------------------------
(* Every step keeps the histories true.                                    *)

\* What stands is live, so what is deleted because it is not live does not stand.
LEMMA StandingIsLive ==
    ASSUME MemoryInv, Truthful, NEW k \in Key, Stands(k)
    PROVE  Live(k)
  BY DEF MemoryInv, MemoryTypeOK, Truthful, Stands, Live

\* Deleting entries that are not live changes nothing that the histories say.
LEMMA DeadKeepTruth ==
    ASSUME MemoryInv, Truthful, NEW S, DeleteEntries(S), \A k \in S \cap Key : ~Live(k),
           UNCHANGED <<now, latest, fate, twice>>,
           missed' = missed \/ missed' = missed \cup (S \cap Key)
    PROVE  Truthful'
  <1>1. \A k \in Key : entry'[k] = IF k \in S THEN None ELSE entry[k]
    BY DEF DeleteEntries
  <1>2. \A k \in Key : Stands(k)' <=> Stands(k)
    BY DEF Stands
  <1>3. \A k \in Key : Stands(k) => k \notin S
    BY StandingIsLive
  <1>4. missed \subseteq Key
    BY DEF MemoryInv, MemoryTypeOK
  <1> QED
    BY <1>1, <1>2, <1>3, <1>4 DEF Truthful

\* storeEntry tells the truth of what it stores, skips and evicts.
LEMMA StoreKeepsTruth ==
    ASSUME MemoryInv, Truthful, NEW k \in Key, NEW v \in Value \cup Nat, NEW t \in Nat,
           NEW gone \in {{}, {k}}, gone = {k} => ~Live(k),
           StoreEntry(gone, k, v, t), now' = now, twice' = {}
    PROVE  Truthful'
  <1> DEFINE out == Evicted(Cached \ gone, SizeOf(v))
             rest == (Cached \ (gone \cup out)) \ {k}
  <1>0. MemoryTypeOK /\ bytes \in Int /\ SizeOf(v) \in Nat
    <2>1. bytes = BytesIn(entry, Cached) /\ Cached \in SUBSET Key
      BY BytesOfEntry DEF MemoryInv, Accounted, Cached
    <2> QED
      BY <2>1, BytesFinite, SizeNat DEF MemoryInv
  <1>1. NewEntry(v, t) = [value |-> v, until |-> now + Ttl(t)]
    BY DEF NewEntry
  <1>2. latest' = [latest EXCEPT ![k] = NewEntry(v, t)]
    BY <1>1 DEF StoreEntry
  <1>3. latest'[k] = NewEntry(v, t) /\ \A j \in Key \ {k} : latest'[j] = latest[j]
    BY <1>0, <1>2 DEF MemoryTypeOK
  <1>4. CASE ~Fits(v)
    <2>1. DeleteEntries(gone) /\ fate' = [fate EXCEPT ![k] = "skipped"] /\ missed' = missed
      BY <1>4 DEF StoreEntry
    <2>2. fate'[k] = "skipped" /\ \A j \in Key \ {k} : fate'[j] = fate[j]
      BY <1>0, <2>1 DEF MemoryTypeOK
    <2>3. \A j \in Key : entry'[j] = entry[j] \/ (entry'[j] = None /\ j = k)
      BY <2>1 DEF DeleteEntries
    <2>4. \A j \in Key \ {k} : Stands(j)' <=> Stands(j)
      BY <1>3, <2>2 DEF Stands
    <2>5. ~Stands(k)'
      BY <2>2 DEF Stands
    <2>6. missed \subseteq Key
      BY <1>0 DEF MemoryTypeOK
    <2> QED
      BY <1>3, <2>1, <2>2, <2>3, <2>4, <2>5, <2>6 DEF Truthful
  <1>5. CASE Fits(v)
    <2>1. /\ entry' = [j \in Key |-> IF j = k THEN NewEntry(v, t)
                                     ELSE IF j \in rest THEN entry[j] ELSE None]
          /\ fate' = [j \in Key |-> IF j = k THEN "kept"
                                    ELSE IF Live(j) /\ Crowded(j, out, rest) THEN "evicted"
                                    ELSE fate[j]]
          /\ missed' = missed \ {k}
      BY <1>5 DEF StoreEntry
    <2>2. entry'[k] = NewEntry(v, t) /\ fate'[k] = "kept"
      BY <2>1
    <2>3. ASSUME NEW j \in Key \ {k}
          PROVE  /\ (fate'[j] = "kept" \/ fate'[j] = "skipped") => fate'[j] = fate[j]
                 /\ entry'[j] # None => entry'[j] = entry[j] /\ fate'[j] = fate[j]
                 /\ fate'[j] = "evicted" => entry'[j] = None
                 /\ Stands(j)' => Stands(j) /\ entry'[j] = entry[j]
      <3>1. /\ entry'[j] = IF j \in rest THEN entry[j] ELSE None
            /\ fate'[j] = IF Live(j) /\ Crowded(j, out, rest) THEN "evicted" ELSE fate[j]
        BY <2>1, <2>3
      <3>2. j \in rest => j \notin out
        OBVIOUS
      <3>3. fate[j] = "evicted" => entry[j] = None
        BY DEF Truthful
      <3>4. entry'[j] # None => entry'[j] = entry[j] /\ j \in rest /\ fate'[j] = fate[j]
        BY <3>1, <3>2 DEF Crowded
      <3>5. ASSUME Stands(j)' PROVE Stands(j) /\ entry'[j] = entry[j]
        <4>1. fate'[j] = "kept" /\ fate[j] = "kept" /\ ~(Live(j) /\ Crowded(j, out, rest))
          BY <3>1, <3>5 DEF Stands
        <4>2. Stands(j)
          BY <1>3, <2>3, <3>5, <4>1 DEF Stands
        <4>3. Live(j) /\ ~Crowded(j, out, rest)
          BY <4>1, <4>2, StandingIsLive
        <4>4. j \in Cached \ gone /\ ~Expired(j)
          BY <1>0, <2>3, <4>3 DEF Live, Expired, Cached, MemoryTypeOK, Entry
        <4>5. ASSUME j \in out PROVE FALSE
          <5>1. PICK i \in rest : Expired(i)
            BY <4>3, <4>5 DEF Crowded
          <5>2. i \in Cached \ gone /\ i \notin out
            BY <5>1
          <5>3. Cached \ gone \in SUBSET Cached
            OBVIOUS
          <5> QED
            BY <1>0, <4>4, <4>5, <5>1, <5>2, <5>3, ExpiredGoFirst
        <4>6. j \in rest
          BY <2>3, <4>4, <4>5
        <4> QED
          BY <3>1, <4>2, <4>6
      <3> QED
        BY <3>1, <3>3, <3>4, <3>5
    <2>4. missed \subseteq Key
      BY <1>0 DEF MemoryTypeOK
    <2>5. \A j \in Key : entry'[j] # None /\ fate'[j] = "kept" => entry'[j] = latest'[j]
      BY <1>3, <2>2, <2>3 DEF Truthful
    <2>6. \A j \in Key : fate'[j] = "evicted" => entry'[j] = None
      BY <2>2, <2>3
    <2>7. \A j \in Key : Stands(j)' => entry'[j] = latest'[j]
      BY <1>3, <2>2, <2>3 DEF Truthful
    <2>8. \A j \in missed' : entry'[j] = None
      BY <2>1, <2>3, <2>4 DEF Truthful
    <2> QED
      BY <2>5, <2>6, <2>7, <2>8 DEF Truthful
  <1> QED
    BY <1>4, <1>5

\* Every step keeps the histories true.
LEMMA StepKeepsTruth == ASSUME MemoryInv, Truthful, [MemoryNext]_memoryVars PROVE Truthful'
  <1>0. MemoryTypeOK /\ Ttls \subseteq Nat /\ twice = {}
    BY MemoryConstantsOK DEF MemoryInv, Truthful
  <1>1. ASSUME NEW k \in Key, Get(k) \/ Exists(k) PROVE Truthful'
    <2>1. CASE UNCHANGED <<entry, missed>>
      BY <1>1, <2>1 DEF Get, Exists, Truthful, Stands
    <2>2. CASE ~Live(k) /\ DeleteEntries({k}) /\ missed' = missed \cup {k}
      <3>1. UNCHANGED <<now, latest, fate, twice>> /\ {k} \cap Key = {k}
        BY <1>1 DEF Get, Exists
      <3> QED
        BY <2>2, <3>1, DeadKeepTruth
    <2> QED
      BY <1>1, <2>1, <2>2 DEF Get, Exists, mapVars
  <1>2. ASSUME NEW k \in Key, Increment(k) PROVE Truthful'
    <2> DEFINE n == IF Live(k) /\ entry[k].value \in Nat THEN entry[k].value ELSE 0
    <2>1. n + 1 \in Value \cup Nat
      OBVIOUS
    <2>2. StoreEntry({}, k, n + 1, 0) /\ now' = now /\ twice' = {}
      BY <1>0, <1>2 DEF Increment
    <2> HIDE DEF n
    <2> QED
      BY <2>1, <2>2, StoreKeepsTruth
  <1>3. ASSUME NEW k \in Key, NEW v \in Value, NEW t \in Ttls, Set(k, v, t) PROVE Truthful'
    BY <1>0, <1>3, StoreKeepsTruth DEF Set
  <1>4. ASSUME NEW k \in Key, NEW v \in Value, NEW t \in Ttls, SetIfNotExists(k, v, t)
        PROVE  Truthful'
    <2>1. CASE Live(k) /\ UNCHANGED <<mapVars, historyVars>>
      BY <1>4, <2>1 DEF SetIfNotExists, mapVars, historyVars, Truthful, Stands
    <2>2. CASE /\ ~Live(k) /\ StoreEntry({k}, k, v, t)
               /\ twice' = IF Stands(k) THEN twice \cup {k} ELSE twice
      <3>1. twice' = {} /\ now' = now
        BY <1>0, <1>4, <2>2, StandingIsLive DEF SetIfNotExists
      <3> QED
        BY <1>0, <2>2, <3>1, StoreKeepsTruth
    <2> QED
      BY <1>4, <2>1, <2>2 DEF SetIfNotExists
  <1>5. ASSUME NEW k \in Key, NEW t \in Ttls, Expire(k, t) PROVE Truthful'
    <2>1. /\ entry[k] # None /\ entry' = [entry EXCEPT ![k].until = now + t]
          /\ latest' = IF fate[k] = "kept" THEN [latest EXCEPT ![k].until = now + t] ELSE latest
          /\ UNCHANGED <<now, fate, missed, twice>>
      BY <1>5 DEF Expire
    <2>2. \A j \in Key \ {k} : entry'[j] = entry[j] /\ latest'[j] = latest[j]
      BY <1>0, <2>1 DEF MemoryTypeOK
    <2>3. fate[k] = "kept" => entry[k] = latest[k]
      BY <2>1 DEF Truthful
    <2>4. fate[k] = "kept" => entry'[k] = latest'[k]
      BY <1>0, <2>1, <2>3 DEF MemoryTypeOK
    <2>5. \A j \in Key \ {k} : Stands(j)' <=> Stands(j)
      BY <2>1, <2>2 DEF Stands
    <2>6. Stands(k)' => fate[k] = "kept"
      BY <2>1 DEF Stands
    <2>7. k \notin missed /\ fate[k] # "evicted" /\ missed \subseteq Key
      BY <1>0, <2>1 DEF Truthful, MemoryTypeOK
    <2> QED
      BY <2>1, <2>2, <2>4, <2>5, <2>6, <2>7 DEF Truthful
  <1>6. ASSUME NEW S, Delete(S) PROVE Truthful'
    <2>1. \A k \in Key : /\ entry'[k] = IF k \in S THEN None ELSE entry[k]
                         /\ latest'[k] = IF k \in S THEN None ELSE latest[k]
                         /\ fate'[k] = IF k \in S THEN "kept" ELSE fate[k]
      BY <1>6 DEF Delete, DeleteEntries, Forgotten
    <2>2. UNCHANGED <<now, missed, twice>> /\ missed \subseteq Key
      BY <1>0, <1>6 DEF Delete, Forgotten, MemoryTypeOK
    <2> QED
      BY <2>1, <2>2 DEF Truthful, Stands
  <1>7. ASSUME Clear PROVE Truthful'
    <2>1. \A k \in Key : entry'[k] = None /\ latest'[k] = None /\ fate'[k] = "kept"
      BY <1>7 DEF Clear, Forgotten
    <2>2. missed' \subseteq Key /\ twice' = {}
      BY <1>0, <1>7 DEF Clear, Forgotten, MemoryTypeOK
    <2> QED
      BY <2>1, <2>2 DEF Truthful, Stands
  <1>8. ASSUME CleanupExpired PROVE Truthful'
    <2>1. \A k \in {j \in Cached : Expired(j)} \cap Key : ~Live(k)
      BY <1>0 DEF Expired, Live, Cached, MemoryTypeOK, Entry
    <2> QED
      BY <1>8, <2>1, DeadKeepTruth DEF CleanupExpired, historyVars
  <1>9. ASSUME Tick PROVE Truthful'
    <2> DEFINE over == {k \in Key \ Cached : latest[k] # None /\ latest[k].until <= now}
    <2>1. \A k \in Key : /\ latest'[k] = IF k \in over THEN None ELSE latest[k]
                         /\ fate'[k] = IF k \in over THEN "kept" ELSE fate[k]
      BY <1>9 DEF Tick
    <2>2. entry' = entry /\ missed' = missed /\ twice' = twice /\ now' = now + 1
      BY <1>9 DEF Tick, mapVars
    <2>3. \A k \in over : entry[k] = None
      BY DEF Cached
    <2>4. ASSUME NEW k \in Key, Stands(k)' PROVE Stands(k) /\ k \notin over
      <3>1. latest'[k] # None /\ now + 1 <= latest'[k].until /\ fate'[k] = "kept"
        BY <2>2, <2>4 DEF Stands
      <3>2. k \notin over /\ latest[k] \in Entry
        BY <1>0, <2>1, <3>1 DEF MemoryTypeOK
      <3> QED
        BY <1>0, <2>1, <3>1, <3>2 DEF Stands, MemoryTypeOK, Entry
    <2> HIDE DEF over
    <2> QED
      BY <2>1, <2>2, <2>3, <2>4 DEF Truthful
  <1>10. ASSUME UNCHANGED memoryVars PROVE Truthful'
    BY <1>10 DEF memoryVars, mapVars, historyVars, Truthful, Stands
  <1> QED
    BY <1>1, <1>2, <1>3, <1>4, <1>5, <1>6, <1>7, <1>8, <1>9, <1>10 DEF MemoryNext

------------------------------------------------------------------------------
(* The theorems.                                                           *)

\* Both invariants hold in every state that the cache reaches.
LEMMA MapAndHistories == MemorySpec => [](MemoryInv /\ Truthful)
  <1>1. MemoryInit => MemoryInv /\ Truthful
    <2>1. MemoryInit => Truthful
      BY DEF MemoryInit, Truthful, Stands
    <2> QED
      BY <2>1, InitInv
  <1>2. MemoryInv /\ Truthful /\ [MemoryNext]_memoryVars => (MemoryInv /\ Truthful)'
    BY StepKeepsInv, StepKeepsTruth
  <1> QED
    BY <1>1, <1>2, PTL DEF MemorySpec

\* After any sequence of calls every variable has its type, the order of the map
\* is a strict total order of its keys, the byte count is that of its entries, and
\* neither bound is exceeded (storeEntry, deleteEntry, evict, clear, cleanup).
THEOREM AccountExact == MemorySpec => []MemoryInv
  BY MapAndHistories, PTL

\* A live entry is the last value written to its key, unless that value was
\* skipped because it could never fit (get after storeEntry).
THEOREM ReadsAreLatest == MemorySpec => []ReadsLatest
  <1>1. MemoryInv /\ Truthful => ReadsLatest
    <2> SUFFICES ASSUME MemoryInv, Truthful, NEW k \in Key, Live(k)
                 PROVE  entry[k] = latest[k] \/ fate[k] = "skipped"
      BY DEF ReadsLatest
    <2>1. fate[k] \in {"kept", "evicted", "skipped"} /\ entry[k] # None
      BY DEF MemoryInv, MemoryTypeOK, Live
    <2> QED
      BY <2>1 DEF Truthful
  <1> QED
    BY <1>1, MapAndHistories, PTL

\* A write that was neither skipped nor evicted for want of room, with nothing
\* expired left to evict, is in the map until its TTL ends.
THEOREM WritesAreKept == MemorySpec => []KeptUnlessEvicted
  <1>1. MemoryInv /\ Truthful => KeptUnlessEvicted
    BY DEF Truthful, KeptUnlessEvicted
  <1> QED
    BY <1>1, MapAndHistories, PTL

\* setIfNotExists grants no second claim while the first one stands.
THEOREM ClaimsAreSingle == MemorySpec => []ClaimsTruthful
  <1>1. MemoryInv /\ Truthful => ClaimsTruthful
    BY DEF Truthful, ClaimsTruthful
  <1> QED
    BY <1>1, MapAndHistories, PTL

\* A key that get or exists reported absent is absent until it is written again.
THEOREM MissesAreFinal == MemorySpec => []MissIsFinal
  <1>1. MemoryInv /\ Truthful => MissIsFinal
    BY DEF Truthful, MissIsFinal, Live
  <1> QED
    BY <1>1, MapAndHistories, PTL

==============================================================================
