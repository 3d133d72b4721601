------------------------------- MODULE ApiKeys -------------------------------
(***************************************************************************)
(* ApiKeyService for the keys of one user (api-key.service.ts): validation *)
(* through a cache of positive results, and the management calls that      *)
(* issue, switch, delete and rotate keys.  The repository and the cache    *)
(* store are ports; every call to them is an await, so each is an action.  *)
(*                                                                         *)
(* A key is named by its hash.  Names, permissions, rate limits and        *)
(* ownership are left out: a stale permission is stale the same way as a   *)
(* stale isActive.  A call on a restricted plan changes nothing and does   *)
(* not appear.                                        *)
(***************************************************************************)
EXTENDS Integers, FiniteSets

CONSTANTS Key,     \* every key that can ever be issued
          Call,    \* management calls that can be in flight together
          Check,   \* validations that can be in flight together
          None,    \* no key
          MaxKeys, \* getApiKeyLimit of the plan
          KeyLife, \* bound on the life of a new key
          MaxTime  \* bound on the clock

ASSUME KeysConstantsOK ==
    /\ IsFiniteSet(Key) /\ None \notin Key
    /\ IsFiniteSet(Call) /\ Call # {}
    /\ MaxKeys \in Nat /\ KeyLife \in Nat /\ MaxTime \in Nat

VARIABLES
    now,        \* the clock
    issued,     \* keys that were ever created
    stored,     \* keys in the repository
    active,     \* stored keys with isActive
    expires,    \* expires[k]: expiresAt
    cached,     \* keys with a validation result in the cache
    step, asked,\* per validation: next step, or its answer, and its key
    todo, op, on, was,
                \* per call: next step, or its answer, method, key it is about,
                \* the isActive it read
    since,      \* history, per validation: when it began
    gone,       \* history: validations that began with their key revoked
    outrun,     \* history: validations whose key was revoked after they read it
    revoked,    \* history: inactive keys that a call invalidated successfully
    tainted,    \* history: inactive keys whose cached result escaped an invalidation
    disturbed,  \* history: rotations during which another call changed a key
    switchedOn  \* history: active keys that an update switched on again

recordVars == <<issued, stored, active, expires>>
checkVars == <<step, asked, since, gone, outrun>>
callVars == <<todo, op, on, was>>
marks == <<revoked, tainted, disturbed, switchedOn>>
keysVars == <<now, recordVars, cached, checkVars, callVars, marks>>

KeysInit ==
    /\ now = 0 /\ issued = {} /\ stored = {} /\ active = {} /\ cached = {}
    /\ expires = [k \in Key |-> 0]
    /\ step = [v \in Check |-> "idle"] /\ asked = [v \in Check |-> None]
    /\ since = [v \in Check |-> 0] /\ gone = {} /\ outrun = {}
    /\ todo = [c \in Call |-> "idle"] /\ op = [c \in Call |-> "none"]
    /\ on = [c \in Call |-> None] /\ was = [c \in Call |-> FALSE]
    /\ revoked = {} /\ tainted = {} /\ disturbed = {} /\ switchedOn = {}

\* An ended validation or call rests at its answer, of which only the two that
\* matter below have a name; its variables are gone.
CheckEnds == {"idle", "valid"}
CallEnds == {"idle", "limit"}

------------------------------------------------------------------------------
(* validateApiKey.                                                         *)

Answer(v, a) ==
    /\ step' = [step EXCEPT ![v] = a]
    /\ asked' = [asked EXCEPT ![v] = None] /\ since' = [since EXCEPT ![v] = 0]
    /\ gone' = gone \ {v} /\ outrun' = outrun \ {v}

Proceed(v, s) ==
    /\ step' = [step EXCEPT ![v] = s]
    /\ UNCHANGED <<asked, since, gone, outrun>>

\* The entry of k leaves the cache.
Uncache(k) == cached' = cached \ {k} /\ tainted' = tainted \ {k}

Validate(v, k) ==
    /\ step[v] \in CheckEnds /\ k \in issued
    /\ step' = [step EXCEPT ![v] = "cache"]
    /\ asked' = [asked EXCEPT ![v] = k] /\ since' = [since EXCEPT ![v] = now]
    /\ gone' = IF k \in revoked THEN gone \cup {v} ELSE gone
    /\ UNCHANGED <<now, recordVars, cached, outrun, callVars, marks>>

\* Faulty variant: a hit is answered without a look at expiresAt.
ReadCacheBlindly(v) ==
    /\ step[v] = "cache"
    /\ \/ asked[v] \in cached /\ Answer(v, "valid")
       \/ Proceed(v, "find")
    /\ UNCHANGED <<now, recordVars, cached, callVars, marks>>

\* getValidation: a hit is answered unless the key has expired meanwhile; a
\* miss, or a cache that fails, leads to the repository.
ReadCache(v) ==
    /\ step[v] = "cache"
    /\ \/ asked[v] \in cached /\ now <= expires[asked[v]] /\ Answer(v, "valid")
       \/ asked[v] \in cached /\ now > expires[asked[v]] /\ Proceed(v, "evict")
       \/ Proceed(v, "find")
    /\ UNCHANGED <<now, recordVars, cached, callVars, marks>>

\* The expired entry is invalidated; a failure is ignored.
EvictExpired(v) ==
    /\ step[v] = "evict" /\ Proceed(v, "find")
    /\ Uncache(asked[v]) \/ UNCHANGED <<cached, tainted>>
    /\ UNCHANGED <<now, recordVars, callVars, revoked, disturbed, switchedOn>>

\* The part of validateApiKeyRecord that is about the key.
Good(k) == k \in active /\ now <= expires[k]

\* findByHash may fail, and the user may be inactive or on a restricted plan:
\* any key can be refused here.
FindRecord(v) ==
    /\ step[v] = "find"
    /\ (Good(asked[v]) /\ Proceed(v, "save")) \/ Answer(v, "idle")
    /\ UNCHANGED <<now, recordVars, cached, callVars, marks>>

\* setValidation, whatever happened to the record meanwhile; a failure is ignored.
SaveResult(v) ==
    /\ step[v] = "save" /\ Answer(v, "valid")
    /\ \/ UNCHANGED <<cached, tainted>>
       \/ /\ cached' = cached \cup {asked[v]}
          /\ tainted' = IF v \in outrun THEN tainted \cup {asked[v]} ELSE tainted
    /\ UNCHANGED <<now, recordVars, callVars, revoked, disturbed, switchedOn>>

------------------------------------------------------------------------------
(* The management calls.                                                   *)

Methods == {"generate", "activate", "deactivate", "edit", "delete", "rotate", "copy"}

Continue(c, s) ==
    /\ todo' = [todo EXCEPT ![c] = s]
    /\ UNCHANGED <<op, on, was>>

End(c, r) ==
    /\ todo' = [todo EXCEPT ![c] = r] /\ op' = [op EXCEPT ![c] = "none"]
    /\ on' = [on EXCEPT ![c] = None] /\ was' = [was EXCEPT ![c] = FALSE]

\* Rotations other than c that are under way see the active keys change.
Disturb(c) ==
    disturbed' = IF active' = active THEN disturbed
                 ELSE disturbed \cup {d \in Call \ {c} : op[d] = "rotate"}

\* k stops being active: validations past their look at the record are outrun.
Revoke(k) ==
    /\ active' = active \ {k} /\ switchedOn' = switchedOn \ {k}
    /\ outrun' = outrun \cup {v \in Check : step[v] = "save" /\ asked[v] = k}

\* requireOwned has found the key (a new one needs none); what follows first
\* depends on the method.  "copy" is a rotation with keepOldKeyActive.
Begin(c, m, k) ==
    /\ todo[c] \in CallEnds
    /\ IF m = "generate" THEN k = None ELSE k \in stored
    /\ todo' = [todo EXCEPT ![c] = IF m \in {"generate", "copy"} THEN "count"
                                   ELSE IF m = "rotate" THEN "recount" ELSE "write"]
    /\ op' = [op EXCEPT ![c] = m] /\ on' = [on EXCEPT ![c] = k]
    /\ was' = [was EXCEPT ![c] = m = "rotate" /\ k \in active]
    /\ disturbed' = disturbed \ {c}
    /\ UNCHANGED <<now, recordVars, cached, checkVars, revoked, tainted, switchedOn>>

\* Faulty variant: the count is compared with > instead of >=.
CountOver(c) ==
    /\ todo[c] = "count"
    /\ IF Cardinality(active) > MaxKeys THEN End(c, "limit") ELSE Continue(c, "create")
    /\ UNCHANGED <<now, recordVars, cached, checkVars, marks>>

\* generateApiKey: countActive against the plan...
Count(c) ==
    /\ todo[c] = "count"
    /\ IF Cardinality(active) >= MaxKeys THEN End(c, "limit") ELSE Continue(c, "create")
    /\ UNCHANGED <<now, recordVars, cached, checkVars, marks>>

\* ... and create.  A chosen expiresAt is taken as it is, even if it has passed;
\* a rotated key inherits its own.
Create(c) ==
    /\ todo[c] = "create" /\ End(c, "idle")
    /\ \E k \in Key \ issued, e \in 0..(now + KeyLife) :
           /\ issued' = issued \cup {k} /\ stored' = stored \cup {k}
           /\ active' = active \cup {k}
           /\ expires' = [expires EXCEPT ![k] = IF on[c] = None THEN e ELSE expires[on[c]]]
    /\ Disturb(c)
    /\ UNCHANGED <<now, cached, checkVars, revoked, tainted, switchedOn>>

\* repo.update with isActive, or repo.delete.
Write(c) ==
    /\ todo[c] = "write" /\ on[c] \in stored /\ Continue(c, "invalidate")
    /\ \/ /\ op[c] = "activate"
          /\ active' = active \cup {on[c]}
          /\ revoked' = revoked \ {on[c]}
          /\ tainted' = tainted \ {on[c]}
          /\ gone' = {v \in gone : asked[v] # on[c]}
          /\ outrun' = {v \in outrun : asked[v] # on[c]}
          /\ switchedOn' = switchedOn \cup ({on[c]} \ active)
          /\ UNCHANGED stored
       \/ /\ op[c] = "deactivate" /\ Revoke(on[c])
          /\ UNCHANGED <<stored, revoked, gone, tainted>>
       \/ /\ op[c] = "edit"
          /\ UNCHANGED <<stored, active, outrun, revoked, gone, tainted, switchedOn>>
       \/ /\ op[c] = "delete" /\ Revoke(on[c])
          /\ stored' = stored \ {on[c]}
          /\ UNCHANGED <<revoked, gone, tainted>>
    /\ Disturb(c)
    /\ UNCHANGED <<now, issued, expires, cached, step, asked, since>>

\* Faulty variant: nothing is counted before the old key goes.
RecountNothing(c) ==
    /\ todo[c] = "recount"
    /\ Continue(c, "deactivate")
    /\ UNCHANGED <<now, recordVars, cached, checkVars, marks>>

\* regenerateApiKey: the limit without the key that is to be replaced, if it
\* was active when it was read.
Recount(c) ==
    /\ todo[c] = "recount"
    /\ IF Cardinality(active) - (IF was[c] THEN 1 ELSE 0) >= MaxKeys
       THEN End(c, "limit") ELSE Continue(c, "deactivate")
    /\ UNCHANGED <<now, recordVars, cached, checkVars, marks>>

Deactivate(c) ==
    /\ todo[c] = "deactivate" /\ on[c] \in stored /\ Revoke(on[c]) /\ Disturb(c)
    /\ todo' = [todo EXCEPT ![c] = "invalidate"]
    /\ UNCHANGED <<now, issued, stored, expires, cached, step, asked, since,
                    gone, op, on, was, revoked, tainted>>

\* Faulty variant: the entry is not found under the key's hash.
InvalidateNothing(c) ==
    /\ todo[c] = "invalidate"
    /\ revoked' = IF on[c] \in active THEN revoked ELSE revoked \cup {on[c]}
    /\ IF op[c] = "rotate" THEN Continue(c, "count") ELSE End(c, "idle")
    /\ UNCHANGED <<now, recordVars, cached, checkVars, tainted, disturbed,
                    switchedOn>>

\* cache.invalidate; a rotation goes on with generateApiKey.
Invalidate(c) ==
    /\ todo[c] = "invalidate"
    /\ Uncache(on[c])
    /\ revoked' = IF on[c] \in active THEN revoked ELSE revoked \cup {on[c]}
    /\ IF op[c] = "rotate" THEN Continue(c, "count") ELSE End(c, "idle")
    /\ UNCHANGED <<now, recordVars, checkVars, disturbed, switchedOn>>

\* A port fails, or the record is gone: the call throws and what it has
\* written stays.
Throw(c) ==
    /\ todo[c] \notin CallEnds /\ End(c, "idle")
    /\ tainted' = IF todo[c] = "invalidate" /\ on[c] \in cached \ active
                 THEN tainted \cup {on[c]} ELSE tainted
    /\ UNCHANGED <<now, recordVars, cached, checkVars, revoked, disturbed, switchedOn>>

------------------------------------------------------------------------------
(* What happens around the service.                                        *)

\* A cached result expires or is evicted.
Forget(k) ==
    /\ k \in cached /\ Uncache(k)
    /\ UNCHANGED <<now, recordVars, checkVars, callVars, revoked, disturbed, switchedOn>>

Tick ==
    /\ now < MaxTime /\ now' = now + 1
    /\ UNCHANGED <<recordVars, cached, checkVars, callVars, marks>>

KeysNext ==
    \/ \E v \in Check :
           \/ ReadCache(v) \/ EvictExpired(v) \/ FindRecord(v) \/ SaveResult(v)
           \/ \E k \in Key : Validate(v, k)
    \/ \E c \in Call :
           \/ \E m \in Methods, k \in Key \cup {None} : Begin(c, m, k)
           \/ Count(c) \/ Create(c) \/ Write(c) \/ Recount(c) \/ Deactivate(c)
           \/ Invalidate(c) \/ Throw(c)
    \/ \E k \in Key : Forget(k)
    \/ Tick

KeysSpec == KeysInit /\ [][KeysNext]_keysVars

------------------------------------------------------------------------------
(* Properties.                                                             *)

\* The records are consistent: active keys are stored, stored ones were issued,
\* the cache and the calls speak only of issued keys, and a call that has yet
\* to write or invalidate still knows its key.
KeysTypeOK ==
    /\ now \in Nat /\ expires \in [Key -> Nat]
    /\ issued \subseteq Key /\ stored \subseteq issued /\ active \subseteq stored
    /\ cached \subseteq issued
    /\ step \in [Check -> CheckEnds \cup {"cache", "evict", "find", "save"}]
    /\ asked \in [Check -> issued \cup {None}] /\ since \in [Check -> Nat]
    /\ \A v \in Check : step[v] \notin CheckEnds <=> asked[v] # None
    /\ gone \subseteq Check /\ outrun \subseteq Check
    /\ todo \in [Call -> CallEnds \cup {"count", "create", "write", "recount",
                                       "deactivate", "invalidate"}]
    /\ op \in [Call -> Methods \cup {"none"}]
    /\ on \in [Call -> issued \cup {None}] /\ was \in [Call -> BOOLEAN]
    /\ \A c \in Call :
           /\ todo[c] \in {"write", "recount", "deactivate", "invalidate"} => on[c] # None
           /\ todo[c] \in {"recount", "deactivate"} => op[c] = "rotate"
    /\ revoked \subseteq issued /\ tainted \subseteq issued
    /\ disturbed \subseteq Call /\ switchedOn \subseteq active

\* A validation that began after the key's expiry never succeeds, however old
\* the cached result it meets.
ExpiredKeysFail ==
    [][\A v \in Check : step[v] \notin CheckEnds /\ step'[v] = "valid"
           => since[v] <= expires[asked[v]]]_keysVars

\* A key whose deletion or deactivation was reported as done, and that was
\* not activated again, fails every validation that begins later, unless the
\* cache still holds a result that outlived a failed invalidation or was
\* saved by a validation that had read the record before: there is no other
\* way to a stale answer.
RevocationHolds ==
    [][\A v \in Check : v \in gone /\ step'[v] = "valid" => asked[v] \in tainted]_keysVars

\* The plan's limit can be exceeded, but only by what calls can have counted
\* at the same time and by keys that an update switched on again, which checks
\* no limit: of the others there are at most n - 1 too many, when n calls may
\* run together.
OvershootBounded ==
    Cardinality(active \ switchedOn) + Cardinality({c \in Call : todo[c] = "create"})
        <= MaxKeys + Cardinality(Call) - 1

\* A rotation checks the limit before it deactivates the old key, so that it
\* does not lose one key without getting another: if it meets the limit
\* afterwards, another call has changed the active keys meanwhile.
RotationFailsClean ==
    [][\A c \in Call : op[c] = "rotate" /\ todo[c] = "count" /\ todo'[c] = "limit"
           => c \in disturbed]_keysVars

\* Stated by the README of the module and by the comment in validateApiKey: a
\* revocation that reports success is never skipped.
RevokeIsCertain == [][\A v \in Check : v \in gone => step'[v] # "valid"]_keysVars
==============================================================================
