----------------------------- MODULE TokenRefresh -----------------------------
(***************************************************************************)
(* TokenRefreshService over a refresh-token store kept in a cache          *)
(* (token-refresh.service.ts, cache-token-stores.ts).  A server handles    *)
(* many refresh requests at a time: every await of refresh() is a point    *)
(* where other requests, logouts and logins run, so each store call is an  *)
(* action of its own.  A client may present any refresh token it was given *)
(* as often as it likes (tabs, retries, copies).                           *)
(*                                                                         *)
(* A token is named by its jti, a family by the jti of its first token.    *)
(* Access tokens, user data and the JWT encoding are left out; a store     *)
(* entry is represented by the time until which the cache keeps it.        *)
(***************************************************************************)
EXTENDS Integers, Sequences

CONSTANTS Requests,    \* refresh requests that can be in flight together
          Token,       \* every refresh token that can ever exist
          Legacy,      \* tokens issued before jti and familyId existed
          None,        \* not a token and not a request
          Stores,      \* the store configurations to consider
          TokenLife,   \* refreshTokenExpiry
          MarkTtl,     \* defaultTtlSec of the store
          RequestSpan, \* how long a verified request can stay in flight
          MaxTime      \* bound on the clock

\* claim: how markUsedIfUnused is provided.  "nx": cache.setIfNotExists;
\*   "serial": absent, the store chains the claims of one jti in its process;
\*   "mark": the store has no markUsedIfUnused at all.
\*   (The setIfNotExists of HybridCacheManager, which may fall back to memory,
\*   is the subject of HybridClaims.)
\* failOpen: exists() may answer false although the key is there: the cache
\*   fails and failClosed is not set, or Redis is globally disabled.
\* lossy: set() swallows a failed write, as RedisCacheManager.set does.
StoreConfig == [claim : {"nx", "serial", "mark"}, failOpen : BOOLEAN, lossy : BOOLEAN]

ASSUME ConstantsOK ==
    /\ Legacy \subseteq Token
    /\ None \notin Token /\ None \notin Requests
    /\ Stores \subseteq StoreConfig
    /\ TokenLife \in Nat \ {0} /\ MarkTtl \in Nat /\ RequestSpan \in Nat /\ MaxTime \in Nat

\* A store entry outlives every token it speaks about, also the token of a
\* request that was verified just before it expired.  The service never tells
\* the store when a token expires, so this is up to the configuration.
TtlsOK == MarkTtl >= TokenLife + RequestSpan

VARIABLES
    store,         \* the configuration in use
    now,           \* the clock
    issued,        \* the tokens signed so far
    held,          \* the tokens a client received
    family,        \* family[t]: the familyId claim of t (None for legacy)
    expiry,        \* expiry[t]: the exp claim of t
    parent,        \* history: the token t was issued in exchange for
    usedUntil,     \* usedUntil[t]: until when the key used:t is kept, 0 if never set
    revokedUntil,  \* revokedUntil[f]: until when the key famrevoked:f is kept
    chain,         \* pendingClaims: per jti, the claims waiting for one another
    pc, cur, since,\* per request: next step, presented token, time it was verified
    seen, twice,   \* history: tokens presented once, and more than once
    lost,          \* history: tokens whose claim was stored but not confirmed
    dead           \* history: tokens that existed when their family was revoked

tokenVars == <<issued, held, family, expiry, parent>>
storeVars == <<usedUntil, revokedUntil, chain>>
requestVars == <<pc, cur, since>>
historyVars == <<seen, twice, lost, dead>>
vars == <<store, now, tokenVars, storeVars, requestVars, historyVars>>

Steps == {"idle", "family", "used", "claim", "queued", "write", "mint", "revoke"}

Identified(t) == t \notin Legacy
Used(t) == now < usedUntil[t]
Revoked(f) == now < revokedUntil[f]

\* What exists() may answer when the truth is b.
Answers(b) == IF store.failOpen THEN {b, FALSE} ELSE {b}

Init ==
    /\ store \in Stores
    /\ now = 0
    /\ issued = Legacy /\ held = Legacy
    /\ family = [t \in Token |-> None]
    /\ expiry = [t \in Token |-> IF t \in Legacy THEN TokenLife ELSE 0]
    /\ parent = [t \in Token |-> None]
    /\ usedUntil = [t \in Token |-> 0]
    /\ revokedUntil = [t \in Token |-> 0]
    /\ chain = [t \in Token |-> <<>>]
    /\ pc = [r \in Requests |-> "idle"]
    /\ cur = [r \in Requests |-> None]
    /\ since = [r \in Requests |-> 0]
    /\ seen = {} /\ twice = {} /\ lost = {} /\ dead = {}

------------------------------------------------------------------------------
(* Helpers shared by the actions.                                          *)

Goto(r, step) == pc' = [pc EXCEPT ![r] = step]

Finish(r) ==
    /\ pc' = [pc EXCEPT ![r] = "idle"]
    /\ cur' = [cur EXCEPT ![r] = None]
    /\ since' = [since EXCEPT ![r] = 0]

\* createRefreshToken: sign a fresh jti into family f (f = None: a family of
\* its own, named by this token).
Sign(n, f, from) ==
    /\ issued' = issued \cup {n}
    /\ family' = [family EXCEPT ![n] = IF f = None THEN n ELSE f]
    /\ expiry' = [expiry EXCEPT ![n] = now + TokenLife]
    /\ parent' = [parent EXCEPT ![n] = from]

Fresh == CHOOSE t \in Token : t \notin issued

\* Faulty variant: the entry lives as long as a token, not longer.
WriteRevokedShort(f) ==
    /\ revokedUntil' = [revokedUntil EXCEPT ![f] = now + TokenLife]
    /\ dead' = dead \cup {t \in issued : family[t] = f}

\* revokeFamily writes famrevoked:f, unless the cache swallows the failure.
WriteRevoked(f) ==
    \/ /\ revokedUntil' = [revokedUntil EXCEPT ![f] = now + MarkTtl]
       /\ dead' = dead \cup {t \in issued : family[t] = f}
    \/ store.lossy /\ UNCHANGED <<revokedUntil, dead>>

AtHead(r) == chain[cur[r]] # <<>> /\ Head(chain[cur[r]]) = r

\* A claim leaves the per-jti chain of the process whichever way it ends.
LeaveChain(r) ==
    chain' = [t \in Token |-> IF chain[t] # <<>> /\ Head(chain[t]) = r
                              THEN Tail(chain[t]) ELSE chain[t]]

------------------------------------------------------------------------------
(* One refresh request, in the order of TokenRefreshService.refresh.       *)

\* The token passed the blacklist hook and verifyRefreshToken.  A legacy token
\* has neither family nor jti to look up or consume.
Start(r, t) ==
    /\ pc[r] = "idle" /\ t \in held /\ now < expiry[t]
    /\ pc' = [pc EXCEPT ![r] = IF Identified(t) THEN "family" ELSE "mint"]
    /\ cur' = [cur EXCEPT ![r] = t]
    /\ since' = [since EXCEPT ![r] = now]
    /\ seen' = seen \cup {t}
    /\ twice' = IF t \in seen THEN twice \cup {t} ELSE twice
    /\ UNCHANGED <<store, now, tokenVars, storeVars, lost, dead>>

CheckFamily(r) ==
    /\ pc[r] = "family"
    /\ \E revoked \in Answers(Revoked(family[cur[r]])) :
           \/ revoked /\ Finish(r)
           \/ ~revoked /\ Goto(r, "used") /\ UNCHANGED <<cur, since>>
    /\ UNCHANGED <<store, now, tokenVars, storeVars, historyVars>>

\* Faulty variant: isUsed is the only check, the token is never consumed.
CheckUsedOnly(r) ==
    /\ pc[r] = "used"
    /\ Goto(r, IF Used(cur[r]) THEN "revoke" ELSE "mint")
    /\ UNCHANGED <<store, now, tokenVars, storeVars, cur, since, historyVars>>

\* Unused so far: findById and createAccessToken follow, which touch nothing
\* shared (a failure of theirs is Fail), and then the token is consumed.
CheckUsed(r) ==
    /\ pc[r] = "used"
    /\ \E used \in Answers(Used(cur[r])) : Goto(r, IF used THEN "revoke" ELSE "claim")
    /\ UNCHANGED <<store, now, tokenVars, storeVars, cur, since, historyVars>>

\* Faulty variant: SET without NX, every claim succeeds.
ClaimBlindly(r) ==
    /\ pc[r] = "claim" /\ store.claim = "nx"
    /\ Goto(r, "mint")
    /\ usedUntil' = [usedUntil EXCEPT ![cur[r]] = now + MarkTtl]
    /\ UNCHANGED <<store, now, tokenVars, revokedUntil, chain, cur, since, historyVars>>

\* markUsedIfUnused on a cache with setIfNotExists: one atomic SET NX EX.
ClaimAtomically(r) ==
    /\ pc[r] = "claim" /\ store.claim = "nx"
    /\ \/ Used(cur[r]) /\ Goto(r, "revoke") /\ UNCHANGED usedUntil
       \/ /\ ~Used(cur[r])
          /\ Goto(r, "mint")
          /\ usedUntil' = [usedUntil EXCEPT ![cur[r]] = now + MarkTtl]
    /\ UNCHANGED <<store, now, tokenVars, revokedUntil, chain, cur, since, historyVars>>

\* The reply of that SET is lost: the call throws, or the Redis client, which
\* repeats a command by default, is told that the key exists.
ClaimLost(r) ==
    /\ pc[r] = "claim" /\ store.claim = "nx" /\ ~Used(cur[r])
    /\ usedUntil' = [usedUntil EXCEPT ![cur[r]] = now + MarkTtl]
    /\ lost' = lost \cup {cur[r]}
    /\ \/ Finish(r)
       \/ Goto(r, "revoke") /\ UNCHANGED <<cur, since>>
    /\ UNCHANGED <<store, now, tokenVars, revokedUntil, chain, seen, twice, dead>>

\* claimSerially: wait for the previous claim on the same key in this process...
EnterChain(r) ==
    /\ pc[r] = "claim" /\ store.claim = "serial"
    /\ Goto(r, "queued")
    /\ chain' = [chain EXCEPT ![cur[r]] = Append(@, r)]
    /\ UNCHANGED <<store, now, tokenVars, usedUntil, revokedUntil, cur, since, historyVars>>

\* Faulty variant: the look does not wait for the claim before it.
ClaimLookEarly(r) ==
    /\ pc[r] = "queued"
    /\ \/ Used(cur[r]) /\ Goto(r, "revoke") /\ LeaveChain(r)
       \/ ~Used(cur[r]) /\ Goto(r, "write") /\ UNCHANGED chain
    /\ UNCHANGED <<store, now, tokenVars, usedUntil, revokedUntil, cur, since, historyVars>>

\* ... then look ...
ClaimLook(r) ==
    /\ pc[r] = "queued" /\ AtHead(r)
    /\ \E used \in Answers(Used(cur[r])) :
           \/ used /\ Goto(r, "revoke") /\ LeaveChain(r)
           \/ ~used /\ Goto(r, "write") /\ UNCHANGED chain
    /\ UNCHANGED <<store, now, tokenVars, usedUntil, revokedUntil, cur, since, historyVars>>

\* ... and write.
ClaimWrite(r) ==
    /\ pc[r] = "write"
    /\ Goto(r, "mint")
    /\ LeaveChain(r)
    /\ \/ usedUntil' = [usedUntil EXCEPT ![cur[r]] = now + MarkTtl]
       \/ store.lossy /\ UNCHANGED usedUntil
    /\ UNCHANGED <<store, now, tokenVars, revokedUntil, cur, since, historyVars>>

\* markUsed, for a store without markUsedIfUnused.
MarkUsed(r) ==
    /\ pc[r] = "claim" /\ store.claim = "mark"
    /\ Goto(r, "mint")
    /\ \/ usedUntil' = [usedUntil EXCEPT ![cur[r]] = now + MarkTtl]
       \/ store.lossy /\ UNCHANGED usedUntil
    /\ UNCHANGED <<store, now, tokenVars, revokedUntil, chain, cur, since, historyVars>>

\* Faulty variant: register writes into the key space of the used marks.
MintMarked(r) ==
    /\ pc[r] = "mint" /\ issued # Token
    /\ Sign(Fresh, family[cur[r]], cur[r])
    /\ held' \in {held, held \cup {Fresh}}
    /\ usedUntil' = [usedUntil EXCEPT ![Fresh] = now + MarkTtl]
    /\ Finish(r)
    /\ UNCHANGED <<store, now, revokedUntil, chain, historyVars>>

\* Sign the successor, in the same family or (legacy) in a new one, register
\* it and answer; register may throw or the response be lost, and then the
\* client never gets to hold the token.
Mint(r) ==
    /\ pc[r] = "mint" /\ issued # Token
    /\ Sign(Fresh, family[cur[r]], cur[r])
    /\ held' \in {held, held \cup {Fresh}}
    /\ Finish(r)
    /\ UNCHANGED <<store, now, storeVars, historyVars>>

\* rejectReuse: revoke the family, answer TOKEN_REUSE_DETECTED.
RejectReuse(r) ==
    /\ pc[r] = "revoke"
    /\ WriteRevoked(family[cur[r]])
    /\ Finish(r)
    /\ UNCHANGED <<store, now, tokenVars, usedUntil, chain, seen, twice, lost>>

\* Faulty variant: a claim that throws keeps its place in the chain.
FailHolding(r) ==
    /\ pc[r] # "idle"
    /\ pc[r] = "queued" => AtHead(r)
    /\ Finish(r)
    /\ UNCHANGED <<store, now, tokenVars, storeVars, historyVars>>

\* The request ends early: the user is gone or disabled, a store call or a
\* signature throws, the server stops.  What it wrote so far stays.
Fail(r) ==
    /\ pc[r] # "idle"
    /\ pc[r] = "queued" => AtHead(r)
    /\ Finish(r)
    /\ LeaveChain(r)
    /\ UNCHANGED <<store, now, tokenVars, usedUntil, revokedUntil, historyVars>>

------------------------------------------------------------------------------
(* The other operations, and time.                                         *)

\* createTokenPair at login: a new jti in a new family.
Login ==
    /\ issued # Token
    /\ Sign(Fresh, None, None)
    /\ held' = held \cup {Fresh}
    /\ UNCHANGED <<store, now, storeVars, requestVars, historyVars>>

\* The logout handler: revokeByToken verifies the token, then revokes.
Logout(t) ==
    /\ t \in held /\ Identified(t) /\ now < expiry[t]
    /\ WriteRevoked(family[t])
    /\ UNCHANGED <<store, now, tokenVars, usedUntil, chain, requestVars, seen, twice,
                    lost>>

\* RequestSpan bounds how long a verified request lives, MaxTime the model.
Tick ==
    /\ now < MaxTime
    /\ \A r \in Requests : pc[r] # "idle" => now < since[r] + RequestSpan
    /\ now' = now + 1
    /\ UNCHANGED <<store, tokenVars, storeVars, requestVars, historyVars>>

Step(r) ==
    \/ CheckFamily(r) \/ CheckUsed(r)
    \/ ClaimAtomically(r) \/ ClaimLost(r)
    \/ EnterChain(r) \/ ClaimLook(r) \/ ClaimWrite(r) \/ MarkUsed(r)
    \/ Mint(r) \/ RejectReuse(r)

Next ==
    \/ \E r \in Requests : Step(r) \/ Fail(r) \/ \E t \in Token : Start(r, t)
    \/ \E t \in Token : Logout(t)
    \/ Login
    \/ Tick

Spec == Init /\ [][Next]_vars

\* A store call settles one way or the other, so a request in flight goes on.
FairSpec == Spec /\ \A r \in Requests : WF_vars(Step(r) \/ Fail(r))

------------------------------------------------------------------------------
(* Properties.                                                             *)

\* Types, and: a client only holds tokens that were signed, and a request in
\* flight works on a token its client holds.
TypeOK ==
    /\ store \in Stores
    /\ now \in Nat
    /\ issued \subseteq Token /\ held \subseteq issued
    /\ family \in [Token -> Token \cup {None}]
    /\ expiry \in [Token -> Nat]
    /\ parent \in [Token -> Token \cup {None}]
    /\ usedUntil \in [Token -> Nat]
    /\ revokedUntil \in [Token -> Nat]
    /\ chain \in [Token -> Seq(Requests)]
    /\ pc \in [Requests -> Steps]
    /\ cur \in [Requests -> Token \cup {None}]
    /\ \A r \in Requests : pc[r] # "idle" => cur[r] \in held
    /\ since \in [Requests -> Nat]
    /\ seen \subseteq Token /\ twice \subseteq Token /\ lost \subseteq Token
    /\ dead \subseteq Token

\* The stores that settle a claim: the atomic one whatever the cache does to
\* the other calls, the chained one as long as its cache is truthful.
Settles(s) == s.claim = "nx" \/ (s.claim = "serial" /\ ~s.failOpen /\ ~s.lossy)
SettlesClaims == Settles(store)

\* Two tokens are never issued in exchange for the same identified token, no
\* matter how many requests present it, together or later, and no matter
\* which of them fail (concurrent refresh in token-refresh.service.ts).
SingleUse ==
    SettlesClaims =>
        \A a, b \in issued :
            parent[a] = parent[b] /\ parent[a] \notin Legacy \cup {None} => a = b

\* The tokens of one family form a line: of two of them that are not
\* recorded as used, and never were, at most one exists.  The rest of the
\* family cannot be exchanged any more.
OneLiveToken ==
    SettlesClaims =>
        \A a, b \in issued \ Legacy :
            family[a] = family[b] /\ usedUntil[a] = 0 /\ usedUntil[b] = 0 => a = b

\* A client that presents every token at most once is never taken for a
\* thief: reuse is only detected for a token that was presented more than once
\* or whose claim was stored without its request being told.
NoFalseAlarm == \A r \in Requests : pc[r] = "revoke" => cur[r] \in twice \cup lost

\* Once a revocation is stored, no token of the family passes the family
\* check again for as long as the token could be verified.
RevokedStaysDead ==
    [][\A r \in Requests :
           ~store.failOpen /\ pc[r] = "family" /\ pc'[r] = "used" => cur[r] \notin dead]_vars

\* Every refresh request is answered: no claim waits for ever behind one
\* that failed.
EveryRequestEnds == \A r \in Requests : pc[r] # "idle" ~> pc[r] = "idle"

\* With an atomic store the service keeps the promise of SingleUseTokens.
Promise == INSTANCE SingleUseTokens WITH
    Anonymous <- Legacy,
    spent <- {t \in Token : usedUntil[t] # 0}

KeepsPromise == Promise!AbstractSpec
==============================================================================
