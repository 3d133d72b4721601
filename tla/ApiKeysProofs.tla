---------------------------- MODULE ApiKeysProofs ----------------------------
(***************************************************************************)
(* Proofs about ApiKeys, for any keys, any number of concurrent calls and  *)
(* validations, and any plan.                                              *)
(***************************************************************************)
EXTENDS ApiKeys, FiniteSetTheorems, TLAPS

------------------------------------------------------------------------------
(* Type correctness.                                                       *)

LEMMA TypeInit == KeysInit => KeysTypeOK
  BY KeysConstantsOK DEF KeysInit, KeysTypeOK, CheckEnds, CallEnds, Methods

LEMMA TypeOfValidation ==
    ASSUME KeysTypeOK, NEW v \in Check,
           \/ \E k \in Key : Validate(v, k)
           \/ ReadCache(v) \/ EvictExpired(v) \/ FindRecord(v) \/ SaveResult(v)
    PROVE  KeysTypeOK'
  <1> USE KeysConstantsOK DEF KeysTypeOK, recordVars, callVars, marks, CheckEnds
  <1>1. ASSUME NEW k \in Key, Validate(v, k) PROVE KeysTypeOK'
    BY <1>1 DEF Validate
  <1>2. CASE ReadCache(v)
    BY <1>2 DEF ReadCache, Answer, Proceed
  <1>3. CASE EvictExpired(v)
    BY <1>3 DEF EvictExpired, Proceed, Uncache
  <1>4. CASE FindRecord(v)
    BY <1>4 DEF FindRecord, Answer, Proceed
  <1>5. CASE SaveResult(v)
    BY <1>5 DEF SaveResult, Answer
  <1> QED
    BY <1>1, <1>2, <1>3, <1>4, <1>5

LEMMA TypeOfCall ==
    ASSUME KeysTypeOK, NEW c \in Call,
           \/ \E m \in Methods, k \in Key \cup {None} : Begin(c, m, k)
           \/ Count(c) \/ Create(c) \/ Write(c) \/ Recount(c) \/ Deactivate(c)
           \/ Invalidate(c) \/ Throw(c)
    PROVE  KeysTypeOK'
  <1> USE KeysConstantsOK DEF KeysTypeOK, recordVars, checkVars, marks, CallEnds
  <1>1. ASSUME NEW m \in Methods, NEW k \in Key \cup {None}, Begin(c, m, k)
        PROVE KeysTypeOK'
    BY <1>1 DEF Begin, Methods
  <1>2. CASE Count(c)
    <2>1. CASE End(c, "limit")
      BY <1>2, <2>1 DEF Count, End
    <2>2. CASE Continue(c, "create")
      BY <1>2, <2>2 DEF Count, Continue
    <2> QED
      BY <1>2, <2>1, <2>2 DEF Count
  <1>3. CASE Create(c)
    BY <1>3 DEF Create, End, Disturb
  <1>4. CASE Write(c)
    BY <1>4 DEF Write, Continue, Revoke, Disturb
  <1>5. CASE Recount(c)
    <2>1. CASE End(c, "limit")
      BY <1>5, <2>1 DEF Recount, End
    <2>2. CASE Continue(c, "deactivate")
      BY <1>5, <2>2 DEF Recount, Continue
    <2> QED
      BY <1>5, <2>1, <2>2 DEF Recount
  <1>6. CASE Deactivate(c)
    BY <1>6 DEF Deactivate, Revoke, Disturb
  <1>7. CASE Invalidate(c)
    <2>1. CASE End(c, "idle")
      BY <1>7, <2>1 DEF Invalidate, End, Uncache
    <2>2. CASE Continue(c, "count")
      BY <1>7, <2>2 DEF Invalidate, Continue, Uncache
    <2> QED
      BY <1>7, <2>1, <2>2 DEF Invalidate
  <1>8. CASE Throw(c)
    BY <1>8 DEF Throw, End
  <1> QED
    BY <1>1, <1>2, <1>3, <1>4, <1>5, <1>6, <1>7, <1>8

LEMMA TypeStep == KeysTypeOK /\ [KeysNext]_keysVars => KeysTypeOK'
  <1> SUFFICES ASSUME KeysTypeOK, [KeysNext]_keysVars PROVE KeysTypeOK'
    OBVIOUS
  <1>1. ASSUME NEW k \in Key, Forget(k) PROVE KeysTypeOK'
    BY <1>1 DEF Forget, Uncache, KeysTypeOK, recordVars, checkVars, callVars
  <1>2. CASE Tick
    BY <1>2 DEF Tick, KeysTypeOK, recordVars, checkVars, callVars, marks
  <1>3. CASE UNCHANGED keysVars
    BY <1>3 DEF KeysTypeOK, keysVars, recordVars, checkVars, callVars, marks
  <1> QED
    BY <1>1, <1>2, <1>3, TypeOfValidation, TypeOfCall DEF KeysNext

\* Every reachable state is well typed: no record is active that is not
\* stored, no result is cached of a key that was never issued.
THEOREM KeysTypeCorrect == KeysSpec => []KeysTypeOK
  BY TypeInit, TypeStep, PTL DEF KeysSpec

------------------------------------------------------------------------------
(* Validations: expiry and revocation.                                     *)

\* What a validation has read is from after its start, and was good.
ReadLate ==
    \A v \in Check :
        /\ step[v] \notin CheckEnds => since[v] <= now
        /\ step[v] = "save" => since[v] <= expires[asked[v]]

\* A revoked key is inactive and what the cache holds of it is tainted; a
\* validation about to save a result of an inactive key is marked; one that
\* began with its key revoked never gets that far.
Stale ==
    /\ revoked \cap active = {}
    /\ revoked \cap cached \subseteq tainted
    /\ \A v \in Check : step[v] = "save" => asked[v] \in active \/ v \in outrun
    /\ \A v \in gone :
           /\ step[v] \in {"cache", "evict", "find"}
           /\ asked[v] \in revoked

LEMMA ReadLateStep ==
    ASSUME KeysTypeOK, ReadLate, [KeysNext]_keysVars
    PROVE  ReadLate'
  <1> USE DEF KeysTypeOK, ReadLate, recordVars, checkVars, callVars, marks, CheckEnds
  <1>1. ASSUME NEW v \in Check, NEW k \in Key, Validate(v, k) PROVE ReadLate'
    BY <1>1 DEF Validate
  <1>2. ASSUME NEW v \in Check, ReadCache(v) PROVE ReadLate'
    BY <1>2 DEF ReadCache, Answer, Proceed
  <1>3. ASSUME NEW v \in Check, EvictExpired(v) PROVE ReadLate'
    BY <1>3 DEF EvictExpired, Proceed
  <1>4. ASSUME NEW v \in Check, FindRecord(v) PROVE ReadLate'
    <2>1. CASE Answer(v, "idle")
      BY <1>4, <2>1 DEF FindRecord, Answer
    <2>2. CASE Good(asked[v]) /\ Proceed(v, "save")
      <3>1. asked[v] \in Key /\ expires[asked[v]] \in Nat /\ since[v] <= now
        BY <1>4, KeysConstantsOK DEF FindRecord
      <3> QED
        BY <1>4, <2>2, <3>1 DEF FindRecord, Good, Proceed
    <2> QED
      BY <1>4, <2>1, <2>2 DEF FindRecord
  <1>5. ASSUME NEW v \in Check, SaveResult(v) PROVE ReadLate'
    BY <1>5 DEF SaveResult, Answer
  <1>6. ASSUME NEW c \in Call, Create(c) PROVE ReadLate'
    <2>1. \A v \in Check : step[v] \notin CheckEnds => asked[v] \in issued
      OBVIOUS
    <2>2. \A k \in issued : expires'[k] = expires[k]
      BY <1>6 DEF Create
    <2> QED
      BY <1>6, <2>1, <2>2 DEF Create
  <1>7. ASSUME NEW c \in Call,
               \/ \E m \in Methods, k \in Key \cup {None} : Begin(c, m, k)
               \/ Count(c) \/ Write(c) \/ Recount(c) \/ Deactivate(c)
               \/ Invalidate(c) \/ Throw(c)
        PROVE ReadLate'
    BY <1>7 DEF Begin, Count, Write, Recount, Deactivate, Invalidate, Throw
  <1>8. CASE Tick
    BY <1>8 DEF Tick
  <1>9. ASSUME NEW k \in Key, Forget(k) PROVE ReadLate'
    BY <1>9 DEF Forget
  <1>10. CASE UNCHANGED keysVars
    BY <1>10 DEF keysVars
  <1> QED
    BY <1>1, <1>2, <1>3, <1>4, <1>5, <1>6, <1>7, <1>8, <1>9, <1>10 DEF KeysNext

LEMMA StaleOfValidation ==
    ASSUME KeysTypeOK, Stale, NEW v \in Check,
           \/ \E k \in Key : Validate(v, k)
           \/ ReadCache(v) \/ EvictExpired(v) \/ FindRecord(v) \/ SaveResult(v)
    PROVE  Stale'
  <1> USE DEF KeysTypeOK, Stale, recordVars, callVars, marks, CheckEnds
  <1>1. ASSUME NEW k \in Key, Validate(v, k) PROVE Stale'
    BY <1>1 DEF Validate
  <1>2. CASE ReadCache(v)
    BY <1>2 DEF ReadCache, Answer, Proceed
  <1>3. CASE EvictExpired(v)
    BY <1>3 DEF EvictExpired, Proceed, Uncache
  <1>4. CASE FindRecord(v)
    BY <1>4 DEF FindRecord, Answer, Proceed, Good
  <1>5. CASE SaveResult(v)
    BY <1>5 DEF SaveResult, Answer
  <1> QED
    BY <1>1, <1>2, <1>3, <1>4, <1>5

LEMMA StaleOfCall ==
    ASSUME KeysTypeOK, Stale, NEW c \in Call,
           \/ \E m \in Methods, k \in Key \cup {None} : Begin(c, m, k)
           \/ Count(c) \/ Create(c) \/ Write(c) \/ Recount(c) \/ Deactivate(c)
           \/ Invalidate(c) \/ Throw(c)
    PROVE  Stale'
  <1> USE DEF KeysTypeOK, Stale, recordVars, checkVars, marks
  <1>1. CASE \/ \E m \in Methods, k \in Key \cup {None} : Begin(c, m, k)
             \/ Count(c) \/ Recount(c) \/ Throw(c)
    BY <1>1 DEF Begin, Count, Recount, Throw
  <1>2. CASE Create(c)
    BY <1>2 DEF Create
  <1>3. CASE Write(c)
    <2>1. CASE op[c] = "activate"
      BY <1>3, <2>1 DEF Write
    <2>2. CASE op[c] # "activate"
      BY <1>3, <2>2 DEF Write, Revoke
    <2> QED
      BY <2>1, <2>2
  <1>4. CASE Deactivate(c)
    BY <1>4 DEF Deactivate, Revoke
  <1>5. CASE Invalidate(c)
    BY <1>5 DEF Invalidate, Uncache
  <1> QED
    BY <1>1, <1>2, <1>3, <1>4, <1>5

LEMMA StaleStep ==
    ASSUME KeysTypeOK, Stale, [KeysNext]_keysVars
    PROVE  Stale'
  <1>1. ASSUME NEW k \in Key, Forget(k) PROVE Stale'
    BY <1>1 DEF Forget, Uncache, Stale, recordVars, checkVars, callVars
  <1>2. CASE Tick
    BY <1>2 DEF Tick, Stale, recordVars, checkVars, callVars, marks
  <1>3. CASE UNCHANGED keysVars
    BY <1>3 DEF Stale, keysVars, recordVars, checkVars, callVars, marks
  <1> QED
    BY <1>1, <1>2, <1>3, StaleOfValidation, StaleOfCall DEF KeysNext

\* The steps that make a validation succeed.
LEMMA ValidSteps ==
    ASSUME KeysTypeOK, [KeysNext]_keysVars, NEW v \in Check,
           step[v] \notin CheckEnds, step'[v] = "valid"
    PROVE  \/ step[v] = "cache" /\ asked[v] \in cached /\ now <= expires[asked[v]]
           \/ step[v] = "save"
  <1> USE DEF KeysTypeOK, recordVars, checkVars, callVars, marks, CheckEnds
  <1> DEFINE Goal == \/ step[v] = "cache" /\ asked[v] \in cached /\ now <= expires[asked[v]]
                     \/ step[v] = "save"
  <1>1. ASSUME NEW w \in Check,
               \/ \E k \in Key : Validate(w, k)
               \/ ReadCache(w) \/ EvictExpired(w) \/ FindRecord(w) \/ SaveResult(w)
        PROVE Goal
    BY <1>1 DEF Validate, ReadCache, EvictExpired, FindRecord, SaveResult, Answer, Proceed
  <1>2. ASSUME NEW c \in Call,
               \/ \E m \in Methods, k \in Key \cup {None} : Begin(c, m, k)
               \/ Count(c) \/ Create(c) \/ Write(c) \/ Recount(c) \/ Deactivate(c)
               \/ Invalidate(c) \/ Throw(c)
        PROVE step' = step
    BY <1>2 DEF Begin, Count, Create, Write, Recount, Deactivate, Invalidate, Throw
  <1>3. ASSUME NEW k \in Key, Forget(k) PROVE step' = step
    BY <1>3 DEF Forget
  <1>4. CASE Tick \/ UNCHANGED keysVars
    BY <1>4 DEF Tick, keysVars
  <1> QED
    BY <1>1, <1>2, <1>3, <1>4 DEF KeysNext

\* A validation that begins after the expiry of its key never succeeds, for
\* any cache contents and any interleaving with the management calls.
THEOREM ExpiredNeverValid == KeysSpec => ExpiredKeysFail
  <1>1. KeysInit => ReadLate
    BY DEF KeysInit, ReadLate, CheckEnds
  <1>2. KeysTypeOK /\ ReadLate /\ [KeysNext]_keysVars => ReadLate'
    BY ReadLateStep
  <1>3. ASSUME KeysTypeOK, ReadLate, [KeysNext]_keysVars, NEW v \in Check,
               step[v] \notin CheckEnds, step'[v] = "valid"
        PROVE since[v] <= expires[asked[v]]
    <2>1. asked[v] \in Key /\ expires[asked[v]] \in Nat /\ since[v] \in Nat /\ now \in Nat
      BY <1>3 DEF KeysTypeOK
    <2>2. \/ now <= expires[asked[v]]
          \/ step[v] = "save"
      BY <1>3, ValidSteps
    <2> QED
      BY <1>3, <2>1, <2>2 DEF ReadLate
  <1>4. KeysTypeOK /\ ReadLate /\ [KeysNext]_keysVars
            => [\A v \in Check : step[v] \notin CheckEnds /\ step'[v] = "valid"
                   => since[v] <= expires[asked[v]]]_keysVars
    BY <1>3
  <1> QED
    BY <1>1, <1>2, <1>4, KeysTypeCorrect, PTL DEF KeysSpec, ExpiredKeysFail

\* After a revocation that reported success only a tainted cache entry can
\* make a validation succeed.
THEOREM RevocationIsKept == KeysSpec => RevocationHolds
  <1>1. KeysInit => Stale
    BY DEF KeysInit, Stale
  <1>2. KeysTypeOK /\ Stale /\ [KeysNext]_keysVars => Stale'
    BY StaleStep
  <1>3. ASSUME KeysTypeOK, Stale, [KeysNext]_keysVars, NEW v \in Check,
               v \in gone, step'[v] = "valid"
        PROVE asked[v] \in tainted
    <2>1. step[v] \in {"cache", "evict", "find"} /\ asked[v] \in revoked
      BY <1>3 DEF Stale
    <2>2. asked[v] \in cached
      BY <1>3, <2>1, ValidSteps DEF CheckEnds
    <2> QED
      BY <1>3, <2>1, <2>2 DEF Stale
  <1>4. KeysTypeOK /\ Stale /\ [KeysNext]_keysVars
            => [\A v \in Check : v \in gone /\ step'[v] = "valid"
                   => asked[v] \in tainted]_keysVars
    BY <1>3
  <1> QED
    BY <1>1, <1>2, <1>4, KeysTypeCorrect, PTL DEF KeysSpec, RevocationHolds

------------------------------------------------------------------------------
(* The plan's limit.                                                       *)

Creators == {c \in Call : todo[c] = "create"}

LEMMA Finite ==
    ASSUME KeysTypeOK
    PROVE  /\ IsFiniteSet(active) /\ Cardinality(active) \in Nat
           /\ IsFiniteSet(active \ switchedOn) /\ Cardinality(active \ switchedOn) \in Nat
           /\ Cardinality(active \ switchedOn) <= Cardinality(active)
           /\ IsFiniteSet(Creators) /\ Cardinality(Creators) \in Nat
           /\ Cardinality(Creators) <= Cardinality(Call)
           /\ Cardinality(Call) \in Nat /\ MaxKeys \in Nat
  <1>1. active \subseteq Key /\ IsFiniteSet(Key) /\ IsFiniteSet(Call) /\ MaxKeys \in Nat
    BY KeysConstantsOK DEF KeysTypeOK
  <1>2. IsFiniteSet(active)
    BY <1>1, FS_Subset
  <1>3. IsFiniteSet(active \ switchedOn) /\ Cardinality(active \ switchedOn) <= Cardinality(active)
    BY <1>2, FS_Subset
  <1>4. Creators \in SUBSET Call
    BY DEF Creators
  <1>5. IsFiniteSet(Creators) /\ Cardinality(Creators) <= Cardinality(Call)
    BY <1>1, <1>4, FS_Subset
  <1> QED
    BY <1>1, <1>2, <1>3, <1>5, FS_CardinalityType

\* The bound survives when neither part grows.
LEMMA Shrinking ==
    ASSUME KeysTypeOK, OvershootBounded,
           active' \ switchedOn' \subseteq active \ switchedOn,
           \A c \in Call : todo'[c] = "create" => todo[c] = "create"
    PROVE  OvershootBounded'
  <1> DEFINE New == {c \in Call : todo'[c] = "create"}
  <1>1. New \in SUBSET Creators
    BY DEF Creators
  <1>2. IsFiniteSet(New) /\ Cardinality(New) <= Cardinality(Creators)
    BY <1>1, Finite, FS_Subset
  <1>3. /\ IsFiniteSet(active' \ switchedOn')
        /\ Cardinality(active' \ switchedOn') <= Cardinality(active \ switchedOn)
    BY Finite, FS_Subset
  <1>4. Cardinality(New) \in Nat /\ Cardinality(active' \ switchedOn') \in Nat
    BY <1>2, <1>3, FS_CardinalityType
  <1>5. Cardinality(active \ switchedOn) + Cardinality(Creators)
            <= MaxKeys + Cardinality(Call) - 1
    BY DEF OvershootBounded, Creators
  <1>6. Cardinality(active' \ switchedOn') + Cardinality(New)
            <= MaxKeys + Cardinality(Call) - 1
    <2> HIDE DEF New
    <2> QED
      BY <1>2, <1>3, <1>4, <1>5, Finite
  <1> QED
    BY <1>6 DEF OvershootBounded

LEMMA OvershootStep ==
    ASSUME KeysTypeOK, OvershootBounded, [KeysNext]_keysVars
    PROVE  OvershootBounded'
  <1> USE DEF recordVars, checkVars, callVars, marks
  <1>1. ASSUME NEW v \in Check,
               \/ \E k \in Key : Validate(v, k)
               \/ ReadCache(v) \/ EvictExpired(v) \/ FindRecord(v) \/ SaveResult(v)
        PROVE OvershootBounded'
    BY <1>1, Shrinking DEF Validate, ReadCache, EvictExpired, FindRecord, SaveResult
  <1>2. ASSUME NEW c \in Call, NEW m \in Methods, NEW k \in Key \cup {None}, Begin(c, m, k)
        PROVE OvershootBounded'
    BY <1>2, Shrinking DEF Begin, KeysTypeOK
  <1>3. ASSUME NEW c \in Call, Count(c) PROVE OvershootBounded'
    <2>1. UNCHANGED <<active, switchedOn>>
      BY <1>3 DEF Count
    <2>2. CASE End(c, "limit")
      BY <2>1, <2>2, Shrinking DEF End, KeysTypeOK
    <2>3. CASE Cardinality(active) < MaxKeys
      <3> DEFINE New == {d \in Call : todo'[d] = "create"}
      <3>1. New \in SUBSET Call
        OBVIOUS
      <3>2. Cardinality(New) \in Nat /\ Cardinality(New) <= Cardinality(Call)
        BY <3>1, KeysConstantsOK, FS_Subset, FS_CardinalityType
      <3>3. Cardinality(active \ switchedOn) + Cardinality(New)
                <= MaxKeys + Cardinality(Call) - 1
        <4> HIDE DEF New
        <4> QED
          BY <2>3, <3>2, Finite
      <3> QED
        BY <2>1, <3>3 DEF OvershootBounded
    <2>4. End(c, "limit") \/ Cardinality(active) < MaxKeys
      <3>1. ~(Cardinality(active) >= MaxKeys) => Cardinality(active) < MaxKeys
        BY Finite
      <3> QED
        BY <1>3, <3>1 DEF Count
    <2> QED
      BY <2>2, <2>3, <2>4
  <1>4. ASSUME NEW c \in Call, Create(c) PROVE OvershootBounded'
    <2>1. PICK k \in Key \ issued : active' = active \cup {k}
      BY <1>4 DEF Create
    <2>2. active' \ switchedOn' = (active \ switchedOn) \cup {k}
      BY <1>4, <2>1 DEF Create, KeysTypeOK
    <2>3. IsFiniteSet(active \ switchedOn) /\ k \notin active \ switchedOn
      BY Finite DEF KeysTypeOK
    <2>4. Cardinality(active' \ switchedOn') = Cardinality(active \ switchedOn) + 1
      BY <2>2, <2>3, FS_AddElement
    <2>5. Cardinality(active' \ switchedOn') \in Nat
      BY <2>4, Finite
    <2> DEFINE New == {d \in Call : todo'[d] = "create"}
    <2>6. New = Creators \ {c} /\ c \in Creators
      BY <1>4 DEF Create, End, Creators, KeysTypeOK
    <2>7. Cardinality(New) = Cardinality(Creators) - 1
      BY <2>6, Finite, FS_RemoveElement
    <2>8. Cardinality(active \ switchedOn) + Cardinality(Creators)
              <= MaxKeys + Cardinality(Call) - 1
      BY DEF OvershootBounded, Creators
    <2>9. Cardinality(active' \ switchedOn') + Cardinality(New)
              <= MaxKeys + Cardinality(Call) - 1
      <3> HIDE DEF New
      <3> QED
        BY <2>4, <2>5, <2>7, <2>8, Finite
    <2> QED
      BY <2>9 DEF OvershootBounded
  <1>5. ASSUME NEW c \in Call, Write(c) PROVE OvershootBounded'
    <2>1. \A d \in Call : todo'[d] = "create" => todo[d] = "create"
      BY <1>5 DEF Write, Continue, KeysTypeOK
    <2>2. active' \ switchedOn' \subseteq active \ switchedOn
      BY <1>5 DEF Write, Revoke
    <2> QED
      BY <2>1, <2>2, Shrinking
  <1>6. ASSUME NEW c \in Call, Recount(c) PROVE OvershootBounded'
    <2>1. CASE End(c, "limit")
      BY <1>6, <2>1, Shrinking DEF Recount, End, KeysTypeOK
    <2>2. CASE Continue(c, "deactivate")
      BY <1>6, <2>2, Shrinking DEF Recount, Continue, KeysTypeOK
    <2> QED
      BY <1>6, <2>1, <2>2 DEF Recount
  <1>7. ASSUME NEW c \in Call, Deactivate(c) PROVE OvershootBounded'
    BY <1>7, Shrinking DEF Deactivate, Revoke, KeysTypeOK
  <1>8. ASSUME NEW c \in Call, Invalidate(c) PROVE OvershootBounded'
    <2>1. CASE End(c, "idle")
      BY <1>8, <2>1, Shrinking DEF Invalidate, End, KeysTypeOK
    <2>2. CASE Continue(c, "count")
      BY <1>8, <2>2, Shrinking DEF Invalidate, Continue, KeysTypeOK
    <2> QED
      BY <1>8, <2>1, <2>2 DEF Invalidate
  <1>9. ASSUME NEW c \in Call, Throw(c) PROVE OvershootBounded'
    BY <1>9, Shrinking DEF Throw, End, KeysTypeOK
  <1>10. CASE (\E k \in Key : Forget(k)) \/ Tick \/ UNCHANGED keysVars
    BY <1>10, Shrinking DEF Forget, Tick, keysVars
  <1> QED
    BY <1>1, <1>2, <1>3, <1>4, <1>5, <1>6, <1>7, <1>8, <1>9, <1>10 DEF KeysNext

\* However calls interleave, at most one key fewer than there are concurrent
\* calls exceeds the plan, of those no update switched on.
THEOREM OvershootIsBounded == KeysSpec => []OvershootBounded
  <1>1. KeysInit => OvershootBounded
    <2> SUFFICES ASSUME KeysInit PROVE OvershootBounded
      OBVIOUS
    <2>1. active \ switchedOn = {} /\ Creators = {}
      BY DEF KeysInit, Creators
    <2>2. Cardinality(active \ switchedOn) = 0 /\ Cardinality(Creators) = 0
      BY <2>1, FS_EmptySet
    <2>3. Cardinality(Call) \in Nat /\ Cardinality(Call) # 0 /\ MaxKeys \in Nat
      BY KeysConstantsOK, FS_EmptySet, FS_CardinalityType
    <2> QED
      BY <2>2, <2>3 DEF OvershootBounded, Creators
  <1>2. KeysTypeOK /\ OvershootBounded /\ [KeysNext]_keysVars => OvershootBounded'
    BY OvershootStep
  <1> QED
    BY <1>1, <1>2, KeysTypeCorrect, PTL DEF KeysSpec

------------------------------------------------------------------------------
(* Rotations.                                                              *)

\* As long as no other call changes the active keys, a rotation knows that
\* without its old key there is room for one more.
Room ==
    \A c \in Call : op[c] = "rotate" /\ c \notin disturbed =>
        /\ todo[c] # "write"
        /\ todo[c] = "recount" => was[c] = (on[c] \in active)
        /\ todo[c] = "deactivate" => Cardinality(active \ {on[c]}) < MaxKeys
        /\ todo[c] \in {"invalidate", "count"} => Cardinality(active) < MaxKeys

LEMMA RoomStep ==
    ASSUME KeysTypeOK, Room, [KeysNext]_keysVars
    PROVE  Room'
  <1> USE DEF KeysTypeOK, Room, recordVars, checkVars, callVars, marks
  <1>1. ASSUME NEW v \in Check,
               \/ \E k \in Key : Validate(v, k)
               \/ ReadCache(v) \/ EvictExpired(v) \/ FindRecord(v) \/ SaveResult(v)
        PROVE Room'
    BY <1>1 DEF Validate, ReadCache, EvictExpired, FindRecord, SaveResult
  <1>2. ASSUME NEW c \in Call, NEW m \in Methods, NEW k \in Key \cup {None}, Begin(c, m, k)
        PROVE Room'
    <2> DEFINE First == IF m \in {"generate", "copy"} THEN "count"
                        ELSE IF m = "rotate" THEN "recount" ELSE "write"
    <2>1. /\ op' = [op EXCEPT ![c] = m] /\ on' = [on EXCEPT ![c] = k]
          /\ todo' = [todo EXCEPT ![c] = First]
          /\ was' = [was EXCEPT ![c] = m = "rotate" /\ k \in active]
          /\ disturbed' = disturbed \ {c} /\ active' = active
      BY <1>2 DEF Begin
    <2>2. m = "rotate" => First = "recount"
      OBVIOUS
    <2> HIDE DEF First
    <2>3. CASE m = "rotate"
      <3>1. op'[c] = "rotate" /\ on'[c] = k /\ todo'[c] = "recount"
        BY <2>1, <2>2, <2>3
      <3>2. was'[c] = (k \in active)
        BY <2>1, <2>3
      <3>3. \A d \in Call \ {c} : /\ op'[d] = op[d] /\ on'[d] = on[d] /\ todo'[d] = todo[d]
                                  /\ (d \in disturbed' <=> d \in disturbed)
        BY <2>1
      <3>4. \A d \in Call \ {c} : was'[d] = was[d]
        BY <2>1
      <3>5. active' = active
        BY <2>1
      <3> SUFFICES ASSUME NEW d \in Call, op'[d] = "rotate", d \notin disturbed'
                   PROVE  /\ todo'[d] # "write"
                          /\ todo'[d] = "recount" => was'[d] = (on'[d] \in active')
                          /\ todo'[d] = "deactivate"
                                 => Cardinality(active' \ {on'[d]}) < MaxKeys
                          /\ todo'[d] \in {"invalidate", "count"}
                                 => Cardinality(active') < MaxKeys
        BY Zenon DEF Room
      <3>6. CASE d = c
        BY <3>1, <3>2, <3>5, <3>6
      <3>7. CASE d # c
        BY <3>3, <3>4, <3>5, <3>7
      <3> QED
        BY <3>6, <3>7
    <2>4. CASE m # "rotate"
      BY <2>1, <2>4
    <2> QED
      BY <2>3, <2>4
  <1>3. ASSUME NEW c \in Call, Count(c) PROVE Room'
    <2>1. CASE End(c, "limit")
      BY <1>3, <2>1 DEF Count, End
    <2>2. CASE Continue(c, "create")
      BY <1>3, <2>2 DEF Count, Continue
    <2> QED
      BY <1>3, <2>1, <2>2 DEF Count
  <1>4. ASSUME NEW c \in Call, Create(c) PROVE Room'
    <2>1. CASE active' = active
      BY <1>4, <2>1 DEF Create, End, Disturb
    <2>2. CASE active' # active
      BY <1>4, <2>2 DEF Create, End, Disturb
    <2> QED
      BY <2>1, <2>2
  <1>5. ASSUME NEW c \in Call, Write(c) PROVE Room'
    <2>1. op[c] # "rotate" /\ Continue(c, "invalidate") /\ Disturb(c)
      BY <1>5 DEF Write
    <2>2. CASE active' = active
      BY <2>1, <2>2 DEF Continue, Disturb
    <2>3. CASE active' # active
      BY <2>1, <2>3 DEF Continue, Disturb
    <2> QED
      BY <2>2, <2>3
  <1>6. ASSUME NEW c \in Call, Recount(c) PROVE Room'
    <2>1. CASE End(c, "limit")
      BY <1>6, <2>1 DEF Recount, End
    <2>2. CASE Continue(c, "deactivate") /\ ~End(c, "limit")
      <3>1. Cardinality(active) - (IF was[c] THEN 1 ELSE 0) < MaxKeys
        BY <1>6, <2>2, Finite DEF Recount
      <3>2. Cardinality(active \ {on[c]})
                = IF on[c] \in active THEN Cardinality(active) - 1 ELSE Cardinality(active)
        BY Finite, FS_RemoveElement
      <3>3. c \notin disturbed => Cardinality(active \ {on[c]}) < MaxKeys
        <4> SUFFICES ASSUME c \notin disturbed PROVE Cardinality(active \ {on[c]}) < MaxKeys
          OBVIOUS
        <4>1. was[c] = (on[c] \in active)
          BY <1>6 DEF Recount
        <4>2. CASE on[c] \in active
          BY <3>1, <3>2, <4>1, <4>2, Finite
        <4>3. CASE on[c] \notin active
          BY <3>1, <3>2, <4>1, <4>3, Finite
        <4> QED
          BY <4>2, <4>3
      <3> QED
        BY <1>6, <2>2, <3>3 DEF Recount, Continue
    <2> QED
      BY <1>6, <2>1, <2>2 DEF Recount
  <1>7. ASSUME NEW c \in Call, Deactivate(c) PROVE Room'
    <2>1. active' = active \ {on[c]} /\ Disturb(c)
      BY <1>7 DEF Deactivate, Revoke
    <2>2. CASE active' = active
      BY <1>7, <2>1, <2>2 DEF Deactivate, Disturb
    <2>3. CASE active' # active
      BY <1>7, <2>1, <2>3 DEF Deactivate, Disturb
    <2> QED
      BY <2>2, <2>3
  <1>8. ASSUME NEW c \in Call, Invalidate(c) PROVE Room'
    <2>1. CASE End(c, "idle")
      BY <1>8, <2>1 DEF Invalidate, End
    <2>2. CASE Continue(c, "count")
      BY <1>8, <2>2 DEF Invalidate, Continue
    <2> QED
      BY <1>8, <2>1, <2>2 DEF Invalidate
  <1>9. ASSUME NEW c \in Call, Throw(c) PROVE Room'
    BY <1>9 DEF Throw, End
  <1>10. CASE (\E k \in Key : Forget(k)) \/ Tick \/ UNCHANGED keysVars
    BY <1>10 DEF Forget, Tick, keysVars
  <1> QED
    BY <1>1, <1>2, <1>3, <1>4, <1>5, <1>6, <1>7, <1>8, <1>9, <1>10 DEF KeysNext

\* A rotation that no other call disturbs never ends with the old key gone
\* and the limit reported.
THEOREM RotationIsClean == KeysSpec => RotationFailsClean
  <1>1. KeysInit => Room
    BY DEF KeysInit, Room
  <1>2. KeysTypeOK /\ Room /\ [KeysNext]_keysVars => Room'
    BY RoomStep
  <1>3. ASSUME KeysTypeOK, Room, [KeysNext]_keysVars, NEW c \in Call,
               op[c] = "rotate", todo[c] = "count", todo'[c] = "limit"
        PROVE c \in disturbed
    <2>1. ~Cardinality(active) < MaxKeys
      <3> USE DEF KeysTypeOK, recordVars, checkVars, callVars, marks
      <3>1. ASSUME NEW d \in Call, Count(d) PROVE ~Cardinality(active) < MaxKeys
        <4>1. CASE Cardinality(active) >= MaxKeys
          BY <1>3, <4>1, Finite
        <4>2. CASE ~(Cardinality(active) >= MaxKeys)
          <5>1. Continue(d, "create")
            BY <3>1, <4>2, Zenon DEF Count
          <5> QED
            BY <1>3, <5>1 DEF Continue
        <4> QED
          BY <4>1, <4>2
      <3>2. ASSUME NEW d \in Call,
                   \/ \E m \in Methods, k \in Key \cup {None} : Begin(d, m, k)
                   \/ Create(d) \/ Write(d) \/ Deactivate(d) \/ Throw(d)
            PROVE FALSE
        BY <1>3, <3>2 DEF Begin, Create, Write, Deactivate, Throw, End, Continue, CallEnds
      <3>3. ASSUME NEW d \in Call, Recount(d) \/ Invalidate(d) PROVE FALSE
        <4>1. d # c
          BY <1>3, <3>3 DEF Recount, Invalidate
        <4>2. \E r : todo' = [todo EXCEPT ![d] = r]
          <5>1. \/ End(d, "limit") \/ Continue(d, "deactivate")
                \/ End(d, "idle") \/ Continue(d, "count")
            BY <3>3 DEF Recount, Invalidate
          <5> QED
            BY <5>1 DEF End, Continue
        <4> QED
          <5>1. PICK r : todo' = [todo EXCEPT ![d] = r]
            BY <4>2
          <5>2. todo'[c] = todo[c]
            BY <4>1, <5>1
          <5> QED
            BY <1>3, <5>2
      <3>4. ASSUME NEW v \in Check,
                   \/ \E k \in Key : Validate(v, k)
                   \/ ReadCache(v) \/ EvictExpired(v) \/ FindRecord(v) \/ SaveResult(v)
            PROVE FALSE
        BY <1>3, <3>4 DEF Validate, ReadCache, EvictExpired, FindRecord, SaveResult
      <3>5. CASE (\E k \in Key : Forget(k)) \/ Tick \/ UNCHANGED keysVars
        BY <1>3, <3>5 DEF Forget, Tick, keysVars
      <3> QED
        BY <1>3, <3>1, <3>2, <3>3, <3>4, <3>5 DEF KeysNext
    <2> QED
      BY <1>3, <2>1 DEF Room
  <1>4. KeysTypeOK /\ Room /\ [KeysNext]_keysVars
            => [\A c \in Call : op[c] = "rotate" /\ todo[c] = "count" /\ todo'[c] = "limit"
                   => c \in disturbed]_keysVars
    BY <1>3
  <1> QED
    BY <1>1, <1>2, <1>4, KeysTypeCorrect, PTL DEF KeysSpec, RotationFailsClean
==============================================================================
