------------------------------ MODULE MemoryCache ------------------------------
(***************************************************************************)
(* InMemoryCacheManager: a map bounded by a number of items and a number   *)
(* of bytes, with a TTL per entry.  Every method runs to its end without   *)
(* giving way, so each is one action; what is hard is what a long sequence *)
(* of calls does to the accounting, and what the bounds do to entries that *)
(* somebody relies on, such as the marks of a token store.                 *)
(*                                                                         *)
(* The JavaScript Map keeps its keys in insertion order; here that order   *)
(* is the relation "older".  The evictFIFO search for the smallest         *)
(* createdAt ends at the oldest key, because every write reinserts its key *)
(* and under FIFO nothing else does.  Metrics and logging are left out.    *)
(***************************************************************************)
EXTENDS Integers, FiniteSets

CONSTANTS
    Key,
    Value,       \* what is stored besides counters
    Size,        \* the estimated size of each value
    CounterSize, \* the estimated size of a number
    Ttls,        \* the ttl arguments in use; 0 is "none given"
    DefaultTTL,
    MaxSize,     \* maxSize
    MaxBytes,    \* maxMemoryMB
    Policies,    \* the eviction policies considered
    Patterns,    \* the sets of keys that delete and deletePattern match
    None,
    MaxTime,     \* bound of the model: the last instant
    MaxCount     \* bound of the model: the highest counter

ASSUME MemoryConstantsOK ==
    /\ IsFiniteSet(Key)
    /\ Size \in [Value -> Nat] /\ CounterSize \in Nat
    /\ Ttls \subseteq Nat /\ DefaultTTL \in Nat \ {0}
    /\ MaxSize \in Nat \ {0} /\ MaxBytes \in Nat
    /\ Policies \subseteq {"lru", "fifo", "ttl"} /\ Patterns \subseteq SUBSET Key
    /\ None \notin [value : Value \cup Nat, until : Nat]
    /\ Value \cap Nat = {}
    /\ MaxTime \in Nat /\ MaxCount \in Nat

VARIABLES
    policy,  \* config.evictionPolicy
    entry,   \* per key: the entry in the map, or None
    older,   \* the order of the map, as pairs
    bytes,   \* currentMemoryBytes
    now,
    latest,  \* history: what was last written to the key, stored or not
    fate,    \* history: whether the cache has kept that
    missed,  \* history: keys a lookup did not find since they were written
    twice    \* history: keys granted to a second claim while the first stood

mapVars == <<entry, older, bytes>>
historyVars == <<latest, fate, missed, twice>>
memoryVars == <<policy, now, mapVars, historyVars>>

Entry == [value : Value \cup Nat, until : Nat]
SizeOf(v) == IF v \in Value THEN Size[v] ELSE CounterSize

MemoryInit ==
    /\ policy \in Policies
    /\ entry = [k \in Key |-> None] /\ older = {} /\ bytes = 0
    /\ now = 0
    /\ latest = [k \in Key |-> None]
    /\ fate = [k \in Key |-> "kept"]
    /\ missed = {} /\ twice = {}

------------------------------------------------------------------------------
(* The map.                                                                *)

Cached == {k \in Key : entry[k] # None}
Expired(k) == entry[k] # None /\ now > entry[k].until
Live(k) == entry[k] # None /\ now <= entry[k].until

\* The bytes of the entries of S, one by one.  No entry is larger than the
\* bound (Fits).
Bytes(S) == Cardinality({p \in S \X (1 .. MaxBytes) : p[2] <= SizeOf(entry[p[1]].value)})

\* deleteEntry, for every key of S.
DeleteEntries(S) ==
    /\ entry' = [k \in Key |-> IF k \in S THEN None ELSE entry[k]]
    /\ older' = older \cap ((Cached \ S) \X (Cached \ S))
    /\ bytes' = bytes - Bytes(S \cap Cached)

\* k becomes the last key of the relation r.
Last(r, S, k) == (r \cap ((S \ {k}) \X (S \ {k}))) \cup ((S \ {k}) \X {k})

\* evict: expired entries go first, in the order of the map; then the entry
\* that the policy names.
GoesBefore(j, k) ==
    \/ Expired(j) /\ ~Expired(k)
    \/ Expired(j) /\ Expired(k) /\ <<j, k>> \in older
    \/ /\ ~Expired(j) /\ ~Expired(k)
       /\ \/ policy # "ttl" /\ <<j, k>> \in older
          \/ policy = "ttl" /\ entry[j].until < entry[k].until
          \/ policy = "ttl" /\ entry[j].until = entry[k].until /\ <<j, k>> \in older

\* needsEviction, when the keys of S are in the map.
NeedsEviction(S, size) ==
    \/ Cardinality(S) >= MaxSize
    \/ bytes - Bytes(Cached \ S) + size > MaxBytes

\* What the loop of storeEntry takes out of C before a value of the size is
\* stored: k goes if the map is still too full without all that goes before.
Evicted(C, size) ==
    {k \in C : NeedsEviction(C \ {j \in C : GoesBefore(j, k)}, size)}

\* normalizeTtl, and the default.
Ttl(t) == IF t = 0 THEN DefaultTTL ELSE t

Fits(v) == SizeOf(v) <= MaxBytes

\* Faulty variant: an overwritten entry stays on the books.
FreedByEviction(rest, k) == Bytes(Cached \ (rest \cup {k}))

\* The bytes given back when only the keys of rest stay and k is overwritten.
Freed(rest, k) == Bytes(Cached \ rest)

\* Faulty variant: a missing ttl ends the entry at once.
NewEntryRaw(v, t) == [value |-> v, until |-> now + t]

\* The entry of a value stored now.
NewEntry(v, t) == [value |-> v, until |-> now + Ttl(t)]

\* History: j, still live, was lost for want of room, with nothing expired left.
Crowded(j, out, rest) == j \in out /\ \A i \in rest : ~Expired(i)

\* storeEntry, once the keys of "gone" are deleted: a value that can never fit
\* is skipped, and what the key held before stays; otherwise room is made and
\* the entry goes to the end of the map.
StoreEntry(gone, k, v, t) ==
    LET out == Evicted(Cached \ gone, SizeOf(v))
        rest == (Cached \ (gone \cup out)) \ {k}
    IN  /\ latest' = [latest EXCEPT ![k] = [value |-> v, until |-> now + Ttl(t)]]
        /\ \/ /\ ~Fits(v)
              /\ DeleteEntries(gone)
              /\ fate' = [fate EXCEPT ![k] = "skipped"]
              /\ UNCHANGED missed
           \/ /\ Fits(v)
              /\ entry' = [j \in Key |-> IF j = k THEN NewEntry(v, t)
                                         ELSE IF j \in rest THEN entry[j] ELSE None]
              /\ older' = Last(older, rest, k)
              /\ bytes' = bytes - Freed(rest, k) + SizeOf(v)
              /\ fate' = [j \in Key |-> IF j = k THEN "kept"
                                        ELSE IF Live(j) /\ Crowded(j, out, rest) THEN "evicted"
                                        ELSE fate[j]]
              /\ missed' = missed \ {k}

------------------------------------------------------------------------------
(* The methods.                                                            *)

\* A hit moves the entry to the end of the map, under LRU.
Touch(k) == older' = IF policy = "lru" THEN Last(older, Cached, k) ELSE older

Get(k) ==
    /\ \/ /\ Live(k) /\ Touch(k)
          /\ UNCHANGED <<entry, bytes, missed>>
       \/ ~Live(k) /\ DeleteEntries({k}) /\ missed' = missed \cup {k}
    /\ UNCHANGED <<policy, now, latest, fate, twice>>

\* Faulty variant: an entry that has expired is reported absent and left there.
ExistsLeaving(k) ==
    /\ missed' = missed \cup (IF Live(k) THEN {} ELSE {k})
    /\ UNCHANGED <<policy, now, mapVars, latest, fate, twice>>

\* A lookup like get, but not a use.
Exists(k) ==
    /\ \/ Live(k) /\ UNCHANGED <<mapVars, missed>>
       \/ ~Live(k) /\ DeleteEntries({k}) /\ missed' = missed \cup {k}
    /\ UNCHANGED <<policy, now, latest, fate, twice>>

Set(k, v, t) ==
    /\ StoreEntry({}, k, v, t)
    /\ UNCHANGED <<policy, now, twice>>

\* What the key was last given still stands, as far as its writer can tell.
Stands(k) == latest[k] # None /\ now <= latest[k].until /\ fate[k] = "kept"

\* Faulty variant: an entry in its last instant counts as absent.
SetIfNotExistsEarly(k, v, t) ==
    /\ entry[k] # None => now >= entry[k].until
    /\ StoreEntry({k}, k, v, t)
    /\ twice' = IF Stands(k) THEN twice \cup {k} ELSE twice
    /\ UNCHANGED <<policy, now>>

\* The claim is refused if the entry is live; an expired one is deleted first.
SetIfNotExists(k, v, t) ==
    /\ \/ Live(k) /\ UNCHANGED <<mapVars, historyVars>>
       \/ /\ ~Live(k)
          /\ StoreEntry({k}, k, v, t)
          /\ twice' = IF Stands(k) THEN twice \cup {k} ELSE twice
    /\ UNCHANGED <<policy, now>>

\* A counter starts again at nothing, and every increment at the default TTL.
Increment(k) ==
    LET n == IF Live(k) /\ entry[k].value \in Nat THEN entry[k].value ELSE 0
    IN  /\ n < MaxCount
        /\ StoreEntry({}, k, n + 1, 0)
        /\ UNCHANGED <<policy, now, twice>>

\* expire: also of an entry that has expired and was not yet found out.
Expire(k, t) ==
    /\ entry[k] # None
    /\ entry' = [entry EXCEPT ![k].until = now + t]
    /\ latest' = IF fate[k] = "kept" THEN [latest EXCEPT ![k].until = now + t] ELSE latest
    /\ UNCHANGED <<policy, now, older, bytes, fate, missed, twice>>

\* What is deleted stands no longer.
Forgotten(S) ==
    /\ latest' = [k \in Key |-> IF k \in S THEN None ELSE latest[k]]
    /\ fate' = [k \in Key |-> IF k \in S THEN "kept" ELSE fate[k]]
    /\ UNCHANGED <<policy, now, missed, twice>>

\* delete, and deletePattern with the keys that match.
Delete(S) == DeleteEntries(S) /\ Forgotten(S)

\* clear and destroy.
Clear == entry' = [k \in Key |-> None] /\ older' = {} /\ bytes' = 0 /\ Forgotten(Key)

\* Faulty variant: the timer also removes entries in their last instant.
CleanupExpiredEarly ==
    /\ DeleteEntries({k \in Cached : now >= entry[k].until})
    /\ UNCHANGED <<policy, now, historyVars>>

\* The cleanup timer.
CleanupExpired ==
    /\ DeleteEntries({k \in Cached : Expired(k)})
    /\ UNCHANGED <<policy, now, historyVars>>

\* Time passes.  The histories drop what has run out and is gone.
Tick ==
    LET over == {k \in Key \ Cached : latest[k] # None /\ latest[k].until <= now}
    IN  /\ now < MaxTime /\ now' = now + 1
        /\ latest' = [k \in Key |-> IF k \in over THEN None ELSE latest[k]]
        /\ fate' = [k \in Key |-> IF k \in over THEN "kept" ELSE fate[k]]
        /\ UNCHANGED <<policy, mapVars, missed, twice>>

MemoryNext ==
    \/ \E k \in Key :
        \/ Get(k) \/ Exists(k) \/ Increment(k)
        \/ \E v \in Value, t \in Ttls : Set(k, v, t) \/ SetIfNotExists(k, v, t)
        \/ \E t \in Ttls : Expire(k, t)
    \/ \E S \in Patterns : Delete(S)
    \/ Clear
    \/ CleanupExpired
    \/ Tick

MemorySpec == MemoryInit /\ [][MemoryNext]_memoryVars

------------------------------------------------------------------------------
(* Properties.                                                             *)

\* Types, and: the order of the map is a strict total order of its keys.
MemoryTypeOK ==
    /\ policy \in Policies
    /\ entry \in [Key -> Entry \cup {None}]
    /\ latest \in [Key -> Entry \cup {None}]
    /\ fate \in [Key -> {"kept", "evicted", "skipped"}]
    /\ now \in Nat
    /\ missed \subseteq Key /\ twice \subseteq Key
    /\ older \subseteq Cached \X Cached
    /\ \A j, k \in Cached : j # k => (<<j, k>> \in older <=> <<k, j>> \notin older)
    /\ \A i, j, k \in Cached : <<i, j>> \in older /\ <<j, k>> \in older => <<i, k>> \in older
    /\ \A k \in Cached : <<k, k>> \notin older

\* After any sequence of calls the byte count is that of the entries in the
\* map, and neither bound is exceeded: an account that drifts would make the
\* cache useless (too high) or unbounded (too low).
Accounted ==
    /\ bytes = Bytes(Cached)
    /\ bytes <= MaxBytes
    /\ Cardinality(Cached) <= MaxSize

\* What is read is what was last written, unless that was skipped for its
\* size: then the value before it is still served.
ReadsLatest == \A k \in Key : Live(k) => entry[k] = latest[k] \/ fate[k] = "skipped"

\* A write that was neither evicted nor skipped is in the map until its TTL
\* ends: the marks of a token store are lost to capacity and nothing else, and
\* to that only when no expired entry could have made the room.
KeptUnlessEvicted == \A k \in Key : Stands(k) => entry[k] = latest[k]

\* A claim is granted twice within its TTL only if the first was evicted or
\* skipped: setIfNotExists is as good as the room it has.
ClaimsTruthful == twice = {}

\* What a lookup reported absent stays absent until it is written again, in
\* particular expire() does not bring it back.
MissIsFinal == \A k \in missed : ~Live(k)

\* The order, the types and the account together.
MemoryInv == MemoryTypeOK /\ Accounted
==============================================================================
