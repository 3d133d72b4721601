# TLA+ models of withwiz-toolkit

Formal models of the toolkit: refresh-token rotation, the circuit breakers in
front of Redis, the two cache levels and the read-through wrapper over them, API
keys, accounts, the rate limiter, the middleware chain with its error answers,
the setup of configuration and caches, batch runs and the password rules. TLC
checks small instances; TLAPS proves every safety property that the passing runs
check for every value of the constants.

`PROJECT.json` is the index: the components, every run with its properties, the
source lines each definition stands for, the known disagreements between
comments and code, the hazards, and the theorems.

    tlc -workers 2 -config RefreshRotation.cfg MCTokenRefresh
    tlapm TokenRefreshProofs.tla

Contents: 1 The system. 2 Modules and the code. 3 Runs, bounds, fairness.
4 Proofs. 5 Disagreements between comments and code. 6 Notes on the code, and
what is not modelled. 7 What is left.

## 1. The system

The toolkit is a library. `src/src/core` holds services that depend on ports
(repositories, caches, mailers) and `src/src/next` adapts them to request
handlers. There are no threads: the concurrency is that of one or more Node
processes in which every `await` lets other requests run, over a database and a
Redis that several processes share.

| component | state it keeps | operations | hard behaviour | what makes it correct |
|---|---|---|---|---|
| token refresh (`core/auth/services/token-refresh.service.ts`, `cache-token-stores.ts`) | used marks per jti and revocation marks per family, in a cache; a promise chain per jti in the process | refresh, revokeByToken (logout), and login as the source of families | concurrent use of one token, lost replies, revocation against a request in flight, TTLs against token life | a token is exchanged once; revocation lasts; an honest client is not taken for a thief; every request ends |
| jwt (`core/auth/jwt`) | none (keys) | create and verify pairs | expiry boundaries | claims of a successor continue its family |
| redis breakers (`core/cache/cache-redis.ts`, `redis-cache-manager.ts`) | isDisabled, errorCount, reconnect timer, the client remembered for good | every command; reconnect attempts | late replies, overlapping attempts, timers overwritten | opens at the threshold, never stuck, closes when Redis is back |
| hybrid cache (`hybrid-cache-manager.ts`) | local breaker; the memory level | get, set, setIfNotExists, exists, delete, expire | levels that disagree after an outage, claims split between levels | marks are found, claims stand |
| in-memory cache (`inmemory-cache-manager.ts`) | an LRU map with byte accounting and TTLs | the same, and increment, patterns, cleanup | capacity, eviction of live marks, drift of the account | what was written is read, claimed and missed truthfully, up to evictions |
| cache wrapper and invalidation (`cache-wrapper.ts`, `cache-invalidation.ts`) | none of its own | withCache, invalidation | a fetch overtaken by an update, an invalidation that fails | no stale value outlives its TTL and a call |
| cache configuration and factory (`cache-factory.ts`, `cache-config.ts`), configuration registry (`core/config`, `core/initialize.ts`) | the registry, the managers per prefix, the client | initialize, resets, getCacheManager, teardown | order of calls, an initialize that throws halfway, an outage at the first use | one configuration, one memory level per prefix, managers that are current |
| api keys (`core/api-key`) | key records in a repository, positive results in a cache | validate; generate, update, delete, regenerate | count-then-create, cache against revocation, rotation in steps | limit, revocation and expiry hold |
| accounts (auth handlers and services, storage adapters) | users, one-time tokens, linked identities | register, reset, verify, resend, login, OAuth callback | check-then-act, multi-step writes without a transaction, failures between the steps | one-time tokens work once and are not lost, replaced passwords stay replaced, identities join proven accounts |
| login and passwords (`core/auth/password`) | the stored hash | hash, verify, rehash on login, the policy | the same rule stated six times, hashers of different servers | the rules agree, rehashing settles |
| rate limiting (`core/rate-limit`) | windows per client in a bounded map | check, delete, clear, cleanup | boundaries, eviction at capacity | a client gets no more than two windows' worth in the span of one |
| middleware chain (`next/middleware`) | one shared index per request | run, timeouts, error handling | timeouts that do not cancel, next() called again | the guards hold for every handler that runs, every timed request is answered |
| errors, messages, language (`core/error`, `next/error`, `next/utils`, `core/constants`, error components) | the language in a browser | three ways to answer, four ways to read | tables that disagree, a language kept in two places | one error reads the same, in the language chosen |
| geolocation batches (`core/geolocation`) | one run's index and counts | three modes, updateConfig | the configuration is read again after every await | every item once, the counts add up |
| open api authentication, security helpers, storage, monitoring, logging, exports and paging, validators | none or trivial | I/O and pure functions | | see section 6 |

How they interact: login and refresh sign tokens through the JWT service;
refresh and logout reach the token store, whose cache is a `RedisCacheManager`,
a `HybridCacheManager` or an `InMemoryCacheManager`; the first two report every
outcome to the breakers, which decide where the next call goes; API-key
validation and the read-through wrapper use the same caches, which the factory
hands out according to the registry and the breakers; the middleware chain
surrounds every handler, asks the limiter, and answers what the handler throws
by the error tables.

## 2. Modules and the code

`SingleUseTokens` is the abstract promise of rotation: a token is *consumed* at
most once and then *replaced* by at most one successor. It has three actions and
no caches, time or failures.

`TokenRefresh` is the service over its store, one action per await:

| code | actions |
|---|---|
| verify the JWT, enter `refresh()` | `Start` |
| `isFamilyRevoked` | `CheckFamily` |
| `isUsed`, then user lookup and access token | `CheckUsed` |
| `markUsedIfUnused` over `setIfNotExists` | `ClaimAtomically`, and `ClaimLost` when the reply does not arrive |
| `claimSerially` (no `setIfNotExists`) | `EnterChain`, `ClaimLook`, `ClaimWrite` |
| `markUsed` (no `markUsedIfUnused`) | `MarkUsed` |
| sign, register, answer | `Mint` |
| `rejectReuse` | `RejectReuse` |
| any step that throws; a stop of the server | `Fail` |
| login, logout, the clock | `Login`, `Logout`, `Tick` |

A used or revoked mark is the time until which the cache keeps it, so it really
expires. The record `store` says which kind of store is in use: how it claims,
whether reads fail open, whether writes are lost silently. Histories (`seen`,
`twice`, `lost`, `dead`, `parent`) are read by properties only.

`RedisBreaker` is the global breaker of `cache-redis.ts` and the local breaker
of every `HybridCacheManager`, with commands in flight: `Send`, then `Answered`
or `Failed`, each of which resets or counts whatever happened in between. An
error that `RedisCacheManager` has reported and throws on is `thrown`; it reaches
the hybrid manager in a later turn (`Handled`), which counts it for its own breaker
and reports it again. `counted` is the WeakSet of cache-redis.ts that keeps the
global breaker from counting it twice. A call that finds no client (`SendInVain`)
throws an error that only the hybrid manager reports, or swallows it. Each call has
an error object of its own.
`Reconnect`, `ReconnectEnds`, `TimerFires`, `Probe`, `ProbeInVain` and
`ProbeEnds` are the timers and PINGs. `tryReconnectRedis` overwrites its timer
handle without clearing it; the timers that become unreachable are `loose`.

`HybridClaims` EXTENDS `RedisBreaker`: one key kept by a hybrid manager.
`CallMemory` serves a call while Redis is unusable; `CallRedis` sends it;
`Execute` is the moment it takes effect in Redis, which may lie before a lost
reply; `Reply` finishes it, or `Fail` and, once the error has arrived at the hybrid
manager, `FallBack`. `CallInVain` is a call without a client. A step of this module is
a step of `RedisBreaker` or leaves the breakers alone, which is proved
(`ImplementsBreaker`), so the breaker theorems hold of a cache in use.

`ApiKeys` is `ApiKeyService` for the keys of one user:

| code | actions |
|---|---|
| `validateApiKey` | `Validate`, `ReadCache`, `EvictExpired`, `FindRecord`, `SaveResult` |
| `requireOwned` and the start of a call | `Begin` |
| `generateApiKey` | `Count`, `Create` |
| `updateApiKey`, `deleteApiKey` | `Write`, `Invalidate` |
| `regenerateApiKey` | `Recount`, `Deactivate`, `Invalidate`, then `Count`, `Create`; with keepOldKeyActive only the last two |
| a port that throws | `Throw`; in `validateApiKey` a cache that throws is a miss |
| a cached entry ends, the clock | `Forget`, `Tick` |

That a user is disabled or changes plan is the choice of `FindRecord` to refuse
any key. Ended calls forget their variables, as locals are forgotten.

`MemoryCache` is `InMemoryCacheManager`. Its methods do not await, so each is
one action: `Get`, `Exists`, `Set`, `SetIfNotExists`, `Increment`, `Expire`,
`Delete` (a key or a pattern), `Clear`, `CleanupExpired`. The JavaScript Map's
order is the relation `older`; `GoesBefore` says in which order the eviction loop
of `storeEntry` takes entries out under each policy, and `Evicted` which of them
it takes. Histories record what was last written to a key and what the cache has
done with it.

`ReadThrough` is `withCache` over the managers of the factory, in several
processes that share a Redis, beside updates with `invalidateCache`:

| code | actions |
|---|---|
| `getCacheManager` and `get` up to the command | `WithCache` |
| the answer of Redis, or its failure | `GetAnswered`, `GetFailed` |
| the fetch function | `Fetch` |
| `set`: memory in the same turn, then Redis | `Store`, `StoreInRedis` |
| the caller goes on | `Return` |
| an update, `delete` / `deletePattern` over both levels | `Update`, `Invalidate`, `DeleteInRedis` |
| a breaker closes | `Reconnected` |

One key stands for all, since nothing relates two keys. A command that fails may
have taken effect all the same.

`Accounts` is the life of one email address. A call is one request; every call
of a repository, the hasher or the mailer is an action, and `Fail` may end any
call anywhere, with an exception or with the process:

| code | actions |
|---|---|
| registration | `Register`, `FindNobody`, `InsertUser`, then the token as below |
| request of a reset, resend of a verification | `RequestReset`, `Resend`, `FindAddressee`, `IssueToken`, `SendMail` |
| reset, verification | `ResetPassword`, `VerifyEmail`, `FindToken`, `FindOwner`, `WritePassword` or `WriteVerified`, `EraseToken` |
| the login handler, and `LoginService` with a consumer that saves its rehash | `Login`, `ReadUser`, `Compare`, `IssueSession`, `SaveRehash` |
| `handleCallback` | `OAuth`, `FindAccount`, `FindLocal`, `CreateUser`, `CreateLink`, `IssueSession` |
| `deleteExpired`, the clock | `DeleteExpired`, `Tick` |

`RateLimits` is `InMemoryRateLimitStore` with its limiter: `OpenWindow` and
`CountRequest` are the two ways through `check()`, beside `Delete`, `Clear` and
`Cleanup`. `granted` remembers how many requests
were let through before each instant, so that a span is a difference.

`ErrorAnswers` has no variables: the code tables, the classification of
exceptions, and the three ways to answer (`ChainAnswer` for
errorHandlerMiddleware, `HandlerAnswer` for withErrorHandler, `ProcessorAnswer`
for withErrorHandling).

`RequestPipeline` EXTENDS it: requests behind the standard wrappers
(`public`, `auth`, `admin`, `optional`), a custom chain that continues on errors,
and handlers inside of either error wrapper. A request runs synchronously from
one await to the next; these stretches are `Refuse`, `Receive`, `CheckRevoked`,
`Verify`, `Limited`, `Handle`, and `Timeout` answers without stopping anything.
`Proceed` is next() with its shared index, `Thrown` what a throwing middleware
does, with and without continueOnError.

`ClientErrors` EXTENDS it too: what a browser makes of the answers. It keeps the
language in localStorage, a cookie and the cookie of Next.js; `Read` gives, for
each of thirteen ways an error can come, what `readApiError` makes of it. Some of
them write words in a fixed language: `ErrorResponse`, `securityMiddleware`, and an
auth handler whose option names one (`ResolveAuthLocale`). `Card` is what the
components of ErrorBoundary.tsx draw for a number; they know Korean and English, are
told which, and take Korean otherwise.

`CacheSetup` is the synchronous setup of a process: `Initialize` with every
module that can refuse its part, `Reset`, the factory (`GetCacheManager`,
`GetHybridAlone`, `GetRedisAlone`, `UseLazily` for the module constants `cache` and
`geoCache`), managers kept in variables (`UseHeld`), `AskClient` for the memoised client,
`Outage`, and the three teardown calls.

`BatchRuns` is `BatchProcessor`: `Slice`, `Answer`, `Throw`, `Retry`, `Resume`,
`Skip` are the awaits of the sequential modes, `StartGroup`, `EndBatch` and
`EndGroup` those of the concurrent one, and `UpdateConfig` happens between any
two. A processor returns any number of results for a batch (`Returns`), and the code
adds that number to its successes.

`PasswordRules` states the rules of `PasswordValidator` in both modules as the
validator, its schema and its hints state them, the two strength meters, and the
hashers with `needsRehash`. A password is typed character by character, and a
stored hash lives through logins at servers of different settings.

The `MC*` modules give the constants small values; `MCRequestPipeline` composes
`RequestPipeline`, `ClientErrors` and `RateLimits`, and `MCToolkit` composes
`CacheSetup`, `BatchRuns` and `PasswordRules`. The parts composed there share no
state and no step, hence commute: one of them moves while the others rest at
their beginning, which shows everything their interleavings could.

In every module an operator introduced by "Faulty variant" is not part of the
specification: it is what a plausible mistake would have made of the operator
below it, and PROJECT.json pairs it with a property it breaks.

## 3. Runs, bounds and fairness

| run | question | bounds |
|---|---|---|
| RefreshRotation | an atomic store, or a cache without setIfNotExists whose claims are chained, with expiry, logouts, logins, lost replies and failures: single use, one live token per family, lasting revocation, no false alarm, refinement of `SingleUseTokens` | 2 requests, 3 tokens, one tick, token life 1, request span 1, marks 2 |
| RefreshLiveness | stores that lose writes or fail open, the store without claims, tokens without jti: every request ends | 2 requests, 3 tokens and a legacy one, no clock |
| RefreshShortMarks | *violation*: marks shorter than the token's life | marks 1, tokens 2 |
| RedisBreaker | threshold, never stuck, recovery | 1 manager, 2 commands, thresholds 2, 2 attempts, 1 loose timer |
| HybridClaims | marks found, claims stand, claims bounded, with writeToMemory and fallback both on and both off | 1 manager, 2 calls, thresholds 2 and 1, 1 attempt, 1 loose timer |
| ApiKeys | limit overshoot, revocation, expiry, rotation | 2 keys, plan of 1, 2 calls, 1 validation, one tick |
| ApiKeyRevoke | *violation*: a revoked key that validates | 1 key, 1 call, 1 validation |
| MemoryCache | accounting, and truthful reads, claims and misses under the three policies | 3 keys, a value that fits twice less and one that never fits, 2 entries, 3 bytes, 2 ticks |
| ReadThrough | how stale an entry can get, what an invalidation achieves, over each backend | 2 processes, 1 reader, 2 writers, 2 updates, TTL 1, call span 1, 3 ticks |
| Accounts | tokens, passwords and links under every failure | 2 calls, 2 tokens, 2 passwords, one tick |
| RequestPipeline | guards, answers, language, equal reading of equal errors; before them a limiter | 2 requests, 1 token, an error of every kind; all keys of the code table, 2 language lists; 3 clients, 2 windows, limit 2, window 2, 3 ticks |
| Toolkit | setup in any order around outages; batch runs; password rules | 4 inputs, 1 prefix, 1 holder, 4 managers; 5 items, 3 configurations, 0, 4 or one result per item; 5 policies, 74 bytes, 3 servers |

Why the bounds are enough. Every race in these protocols is between two parties
about one item: two requests and one token, two commands and one threshold, two
creations and one free place, a revocation and a reader, an update and a fetch,
two resets and one link. Three tokens give a parent and two rival successors, or
a login, its successor and a second family. A mark of two ticks outlives its
token of one and its request. Two keys in a plan of one let the limit be met,
exceeded, and met by a rotation after its old key is gone; a third call or key
repeats these cases. A threshold of two is the smallest at which a failure
counted twice differs from one counted once; in HybridClaims the local one is 1, so
that either breaker may open first. One loose timer and two overlapping
attempts are enough for a late one to undo an earlier one. Three keys in two
places make every write choose whom to evict; a value of two bytes in three makes
one write evict several. Two writers in different processes are needed for an
entry that survives in the other's memory; three ticks cover an entry, its
successor and what outlives both. Two tokens let a second link be sent while the
first is used, two words let a password be replaced. Three clients on two windows
make each new window push one out, and four instants with windows of two hold two
windows back to back. Four managers allow a prefix its managers, a teardown, and
its managers again. Five items in batches of two or three have a short last
batch; none and four results are fewer and more than any of them has items. The longest password a hasher reads is 72 bytes, and typing goes on past
it by characters of one and of three bytes. The proofs of section 4 do not depend
on any of this.

`MaxTime`, `MaxPings`, `MaxLoose`, `MaxVersion`, `MaxCount`, `MaxMade` and
`MaxTyped` cap counters the code does not cap (the clock, concurrent reconnect
attempts, unreachable timers, updates of the source, a counter, managers made,
bytes typed); each appears in the guard of the action that would exceed it.
`RequestSpan` and `CallSpan` bound how long a verified request or a call of
`withCache` can stay in flight, and `KeyLife` is the chosen life of a key. The
request count of a window stops at one past the limit, from where nothing but the
count would change. Deadlock is not checked: a service without requests rests.

Fairness. `FairSpec` of TokenRefresh assumes that a request in flight takes its
next step or fails: the store calls settle, by answer, error or client timeout.
It does not assume that the step succeeds, or that a queued claim is served:
that the chain moves on is what `EveryRequestEnds` shows. `BreakerFairSpec`
assumes that timers fire and that a PING returns, with an answer or an error;
nothing is assumed about commands, traffic or Redis being up. `Recovers` has the
premise that Redis eventually stays up. `PipelineSpec` assumes that the timers of
the chain fire, and nothing else: a handler, the limiter or the revocation list
may hang for ever, and `EveryRequestAnswered` holds all the same. The other
modules state no liveness: their calls do their steps in sequence and wait for
nobody.

Type invariants are checked where they also say something of the state
(`MemoryInv`: the order of the map is total and the bytes add up; `RateInv`: the
map keeps its bound; `PipelineInv`: no frame or handler run too many). Those of
the other modules with proofs are theorems and not part of the runs.

What the runs show that a unit test would hardly reach:

- `OneLiveToken`, `SingleUse`: every interleaving of two refreshes, logouts and
  failures leaves at most one exchangeable token per family.
- `NoFalseAlarm`: reuse detection has exactly two causes, a token presented
  twice and a claim whose reply was lost.
- `RevokedStaysDead`: after a stored revocation no request passes the family
  check. A request that had passed it before still gets a successor, which is
  itself dead at its next use.
- `TripsAtThreshold`: the global breaker opens at exactly its threshold of failures,
  though two managers report one failure in different turns, and answers to other
  calls close the breaker in between.
- `NeverStuck`, `Recovers`: no order of late replies and overlapping attempts
  loses the last timer.
- `MarkIsFound`, `ClaimStands`: with writeToMemory a mark survives any outage
  within the process.
- `ClaimsBounded`: the cost of the fallback is one extra winner, never two, and
  none before a command has failed.
- `OvershootBounded`: of n concurrent calls at most n - 1 exceed the plan, apart
  from keys that `updateApiKey` switches on, which counts nothing. Doing that
  repeatedly exceeds the plan without any concurrency.
- `RevocationHolds`: after a successful revocation a key can validate only
  through an entry that a failed invalidation left or an overtaken reader wrote.
- `RotationFailsClean`: without interference a rotation never loses its key to
  the limit. A port that fails after the deactivation can still do so.
- `KeptUnlessEvicted`, `ClaimsTruthful`: the memory cache loses a live entry, a
  used mark among them, only to capacity and only when nothing expired could have
  made the room; a claim is granted twice only after such a loss, or when the
  value never fitted.
- `MissIsFinal`: `expire()` may revive an entry that has run out, but never one a
  lookup has reported absent.
- `StalenessBounded`: whatever overtakes what, an entry ends a TTL and one call
  after its value was replaced, in Redis and in the memory of every process.
- `FreshAfterInvalidation`: a call that begins after an invalidation in its own
  process reads something older only from an entry that an overtaken fetch wrote
  or that the invalidation could not reach.
- `SpentTokensDead`, `LostTokensWorked`: links work once for whoever comes after
  a success, and a failure between writing and erasing leaves the link usable,
  never a lost link with nothing done.
- `OldPasswordDead`: a replaced password stays replaced, with one way back: the
  consumer of `LoginService` saves the rehash of a login that the reset overtook.
- `LinksProven`: a provider's identity joins a registered account only if its
  address was verified, also when registration and callback race.
- `RateInv`: two windows' worth in the span of one is the most, also across
  eviction, cleanup and replacement; a client that loses an open window in a map
  full of open ones starts afresh, which is the exception.
- `PipelineInv`: a handler that runs has passed every guard, also when its
  request has already timed out. `EveryRequestAnswered`: see fairness.
- `LanguageKept`: while a choice of language is kept, a page that asks for it and
  every answer whose language is detected agree on it. It says nothing of words in a
  fixed language (`Fixed`), nor of the error components, which detect none.
- `SameErrorReadsSame`: key, number and status agree across the ways that know an
  error, for every code of the table and every mapped AuthError, and a card has words
  for it.
- `ClientOfConfig`, `OneMemoryLevel`, `HeldIsCurrent`: an outage at the first use
  costs neither the client nor the shared memory level, but a manager taken in it
  and kept is a memory one for ever.
- `EachItemOnce`, `CountsAddUp`: the concurrent mode is immune to updateConfig,
  the sequential ones are to everything but a changed batch size; what an
  onProgress that throws, a missing retry or a processor with more or fewer results
  than items does to the counts is exact.
- `PoliciesAgree`, `LoginsSettle`: validator, schema and hints of either module
  are one rule, and rehashing at servers of different bcrypt costs ends.

## 4. Proofs

Every statement in the eight `*Proofs` modules is checked to its leaves with
SMT, Zenon and LS4. The assumptions on constants are the ASSUMEs of the modules
(finiteness, natural numbers, distinctness), and two that the code's
constructors justify: an AppError that a handler throws has a number of five
digits (`Constructed`; the constructor replaces any other), and a bcrypt hasher
has a cost and no other parameter (`CostOnly`). TLC evaluates all of them.

`TokenRefreshProofs`. `TypeCorrect`, `RevocationLasts`, `HonestNeverRevoked`,
`ExchangedOnce`, `OneLiveTokenPerFamily`, `ImplementsPromise`.

- Those about time assume `TtlsOK`: marks live at least as long as a token plus
  a request's span. The defaults (`defaultTtlSec` and `refreshTokenExpiry` both
  30 days) meet it up to the span of a request, which matters only for a token
  that is exchanged in the very instant it was signed and then presented again
  within a request's span of its expiry. A longer `refreshTokenExpiry` with the
  default TTL does not meet it; RefreshShortMarks shows what happens then.
- `ExchangedOnce` and `OneLiveTokenPerFamily` speak of stores that settle claims
  (`Settles`: atomic, or chained over a truthful cache). The refinement assumes
  that every configuration considered does.
- Single use is not inductive: nothing in it says why a second claim must fail.
  The strengthening `Clock` says that a mark outlives its token
  together with the requests that can still present it. `Exclusive` has four
  parts: a chained claim writes only at the head of its chain and to an
  unmarked token (`Writers`); a request about to sign is alone with its token,
  which is marked and has no successor yet (`Minters`); an unmarked token has no
  successor (`Unmarked`); families are lines (`Lines`). With `Clock` a used
  token looks used to everyone who could still present it, so that only one
  claim succeeds, and signing follows a claim.
- The refinement maps `spent` to the tokens ever marked used. A claim is
  `Consume`, a mint `Replace`, a login `Issue`, every other step a stutter.

`RedisProofs`, on the breakers. `BreakerTypeCorrect`, `BreakersNeverStuck`,
`GlobalTripsAtThreshold`. The first part of `NeverStuck` is inductive with the
types; the local part needs each way to close or re-arm to leave a timer, a
loose timer or an attempt, shown per helper (`OnItsWay`). The threshold needs that
the breaker's own count is that of the failures (`Counts`), hence that no failure is
missed or counted twice: `CountedOnce` says that an error on its way to the hybrid
manager is in the WeakSet exactly if it is a command's, which `RedisCacheManager`
has reported already.

`RedisProofs`, on the two levels. `ImplementsBreaker`, `HybridTypeCorrect`, `MarksAreFound`,
`ClaimsStand`, `ClaimsAreBounded`. `Kept` (with writeToMemory whatever was kept
is in memory) makes lookups find marks. `Granted` counts claims against what the
levels and the replies under way hold, and `Calm` says that before the first
failed command the breaker is closed, hence memory grants nothing.

`ApiKeysProofs`. `KeysTypeCorrect`, `ExpiredNeverValid`, `RevocationIsKept`,
`OvershootIsBounded`, `RotationIsClean`.

- `Stale`, the strengthening for revocation: revoked keys are inactive, what is
  cached of them is tainted, a validation about to save a result of an inactive
  key is marked as outrun, and one that began after the revocation is still
  before the repository. `ReadLate` does the same for expiry.
- `OvershootBounded` is inductive as it stands because it also counts the calls
  between count and create; a successful count resets the argument, since then
  fewer than `MaxKeys` keys are active and at most all calls are creating.
- `Room`: a rotation that nobody disturbed knows that without its old key there
  is place for one more.

`ReadThroughProofs`. `ReadThroughTypeCorrect`, `StalenessBoundedTheorem`,
`FreshAfterInvalidationTheorem`.

- Staleness of entries is not inductive: a fetched value may still be on its way
  to a level. `StaleInv` adds that whoever is about to store a replaced version
  began at most a call before the instant at which it was replaced, and that the
  clock waits for calls in flight; so what it stores ends in time.
- `FreshInv` rests on `EntriesAccountedFor`: an entry not marked as missed is at
  least as new as what was invalidated where it is read. A fetch in flight that an
  update overtook writes an entry that is marked, and an invalidation that fails
  marks what it leaves; a reader inherits the mark with the entry.

`AccountsProofs`. `AccountsTypeCorrect`, `SpentTokensDeadTheorem`,
`LostTokensWorkedTheorem`, `OldPasswordDeadTheorem`, `LinksProvenTheorem`.

- `TypeInv` adds to the types where a call can be in each operation (`Placed`),
  which every other argument needs to know what a call has already done.
- `TokenInv`: a token is worked before it is erased, and a request that began
  after its use was answered finds it gone.
- `WordInv`: words are chosen afresh (`WordsUnused`) and are one call's own until
  it has written them (`WordsApart`), so the word in the table tells which reset
  was the last; `WordsChosen` bounds them. On it `PassInv` shows that a late login
  that compares successfully has a word that is not retired, or a rehash of a
  retired one was saved.
- `LinksProven` alone is not inductive, for a callback that found the account and
  is about to link says nothing of it; `LinkInv` adds that while such
  a callback is under way there is an account and it is not an unverified
  registration; nothing takes a verification back.

`MemoryCacheProofs`. `AccountExact`, `ReadsAreLatest`, `WritesAreKept`,
`ClaimsAreSingle`, `MissesAreFinal`.

- The bytes of a set of keys are those of a part and of the rest (`BytesSplit`),
  so what an overwrite or a deletion gives back is what the entry had cost.
- The bounds need that the eviction loop ends with room. Whatever it leaves has an
  entry that goes first (`SomeGoesFirst`: the order is transitive and irreflexive on
  a finite map), and that one stays only if all that does not go before it fits
  beside the new value (`EvictionMakesRoom`).
- No live entry is taken while an expired one stays (`ExpiredGoFirst`): the expired
  one goes earlier, when the map was fuller still.
- `MemoryInv` is not inductive, for `expire` moves the end of the latest value with
  that of the entry; `Truthful` adds that the two are the same while the cache has
  kept the value, and that what is evicted or was found missing is not in the map.

`RequestPipelineProofs`. `HandlersAreGuarded`, `HandlersRunOnce`,
`FirstAnswerStands`, for any requests, tokens and errors.

- `GuardsHold` speaks of handlers only. `Guarded` says of a request anywhere in its
  chain that every middleware it has left behind has let it pass (`Passed`), that
  a token revoked before the request came is still revoked and led to no user
  (`TokenKnown`), and that only an authentication has a check under way.
- `next()` goes over no middleware that waits (`ProceedStops`), so a middleware that
  lets the request pass is the only one it leaves behind for that
  (`WaitingGuarded`). A chain that continues on errors has no guards to skip.
- `FirstAnswerStands` is an action property: what ends a request keeps an answer
  that a timeout gave (`EndedKeeps`, `ThrownKeeps`).
- `RequestsInBounds` is the whole of `PipelineInv`. Its other part is not inductive,
  for it bounds frames and runs of the handler each by itself. `InBounds` bounds
  their sum: a frame and a run each take a place of the chain that `next()` has come
  by, and a chain that continues on errors, the only one whose handler runs again,
  gives up a frame for it. The answers need that whatever an error carries, each of
  the three error paths comes to a number of the code table or to one that a
  constructor checked (`ErrorsAreAnswered`).

`RequestPipelineProofs`, on `RateLimits`. `TwoWindowsAtMost`.

- The bound over a span says nothing of the window that is open now.
  `RateInductive` adds per client what its window and its history know of each other
  (`Accounted`): in an open window no more was granted than it has counted, and in the
  window's length before it began at most one window's worth (`CountsOpen`); a client
  without an open window was granted at most one window's worth in the length of one
  up to now (`CountsIdle`). A new window may then begin, and a span touches two.
- An open window is evicted only when all windows of a full map are open
  (`EvictedIsExcused`), which is the exception of the property: its client starts afresh.

`RequestPipelineProofs`, on `ClientErrors`. `LanguageStaysChosen`,
`ErrorsReadTheSame`.

- `LanguageKept` rests on `ChoiceKept`: a choice that is kept is in localStorage and
  in the cookie. The browser asks the one first and the server the other
  (`BrowserDetects`, `ServerDetects`), and each way outside `Fixed` takes its words
  from the latter or has none (`WordsAreDetected`).
- `SameErrorReadsSame` compares ways in pairs; the proof compares each with one
  number, key and status of the error (`WaysTell`). It needs that classification never
  leaves the table (`ClassifiedHasKey`; it also shows that the detour of
  `classifyPrismaError` by ERROR_CODES changes nothing), that every number of the
  table has a status a response may have and words in all dictionaries
  (`TableCodesServe`), and that conversion by `AppError.from` keeps the number
  (`ConversionKeeps`).

`ToolkitProofs`, on `CacheSetup`. `SetupTypeCorrect`, `ModulesAgree`,
`ClientIsConfigured`, `MemoryLevelsAreOne`, `HeldStaysCurrent`.

- `OneConfiguration` lets a module be without a configuration, and would let a second
  input fill it. `OneInput` says that, as long as no call was torn, the modules are all
  unset or all from one input.
- `LevelsShared` adds to `OneMemoryLevel` that registered managers were made, so that a
  new one is none of them, and that a hybrid manager implies a memory one: the
  factory asks for the memory level by prefix, in an outage as well.
- `HeldIsCurrent` is about times without an outage, but must survive them.
  `HeldAsUp` compares a held manager with what the factory would give if Redis were
  up (`CurrentUp`), which an outage does not touch, and says that it is registered,
  so that no later call makes another.

`ToolkitProofs`, on `BatchRuns`. `BatchTypeCorrect`, `ItemsAreHandedOnce`,
`RunsAccountForAll`, for any number of items.

- In the two sequential modes (`InTurn`) the batch in flight is the slice at the
  index while the size stays; what was handed out lies below its end (`Reach`), what
  was counted below another (`Counting`): the plain mode counts a batch before the pause
  that moves the index.
- In the concurrent mode (`ByGroups`) an item is in a group to come or was handed out,
  the groups lie one after another, and the counts are those of what was handed out
  less the batch in flight, whose results so far are pending (`Pending`). The cut into groups is a partition into intervals
  (`GroupOf`), shown by dividing twice.

`ToolkitProofs`, on `PasswordRules`. `HashesAreKept`, `RulesAgreeAlways`,
`RehashingSettles`.

- The rules are compared for one password at a time, for any policy; the meters by
  the intervals of their scores. `PoliciesAgree` needs only that the typed password
  has a length, bytes and kinds of characters.
- `RehashingSettles` is an action property. That a bcrypt hash is replaced only for a
  higher cost needs that its other parameters are those of every bcrypt hasher,
  none (`HashKept`).

Only model-checked: the liveness properties (`EveryRequestEnds`, `Recovers`,
`EveryRequestAnswered`), which are out of the prover's reach under fairness, and the
runs that end in a violation. The caps of
section 3 (`MaxTime` and its like) remain in the theorems as constants of any size.

## 5. Disagreements between comments and code

Two runs end in a counterexample; the quotations are in PROJECT.json under
"findings".

1. `RefreshShortMarks`: the used mark lives `defaultTtlSec`, not the token's
   remaining time, because `refresh()` passes no expiry. A longer
   `refreshTokenExpiry` makes an exchanged token good again.
2. `ApiKeyRevoke`: a validation that read the record before a revocation caches
   its result after the invalidation, and the revoked key passes until the entry
   expires.

Others were met while modelling. They are part of the models, and the properties
name them as exceptions or are stated without what the comment says:

- The fallback of the hybrid `setIfNotExists` is not atomic within the process
  while another claim is waiting for Redis: two calls may win. `ClaimsBounded`
  says how many.
- The hybrid `set()` does not keep the value in memory when Redis fails unless
  writeToMemory is on: then a set is stored nowhere. `MarkIsFound` is about
  writeToMemory. The factory always switches it on.
- `ErrorResponse.*` has no request to look at and always answers in Korean, though
  the comment on `IErrorResponse` (`error-handler.ts`, near line 66) speaks of the
  words of the request's locale.
- The batch processor has a setting `timeout` that nothing reads.
- The continueOnError of a chain runs the remaining middlewares and the handler
  again after a failure, so on a custom chain the guards of `GuardsHold` that
  precede the failure are void.

## 6. Notes on the code, and what is not modelled

What a maintainer may want to know, in the order of the modules:

- Caches. The memory level of another process survives an invalidation until its
  TTL. `set` and `delete` of `RedisCacheManager` swallow errors, so that the
  hybrid manager takes them for successes. `increment` starts the TTL again.
  `destroy()` of a hybrid manager leaves a reconnect attempt in flight
  (`hybrid-cache-manager.ts:632`).
- Accounts. Registration treats `emailVerificationRequired` as true by default,
  login as false. Other outstanding reset tokens stay valid after a reset.
  Logout answers success whatever the store does (`logout.handler.ts:28`).
- Rate limits. An error whose message says "rate limit" is answered as 429
  (`rate-limit.ts:176`), whatever it was. An evicted client starts afresh.
- Chain. An answer made of an error carries no CORS or security headers. A
  handler that timed out goes on. The custom, wrapped and processed endpoints have
  no timeout.
- Errors. An AuthError without a mapping keeps its status in withErrorHandler and
  is 400 (or 401) in the chain; the auth handlers answer an AuthError with its own
  statusCode though the mapped number says another (TOKEN_INVALID: 400 and
  40102); ACCOUNT_DISABLED is 40308 there and 40002 elsewhere. ErrorProcessor does
  not know AuthErrors. An AppError with a code of 10000 to 19999 makes the
  constructor of the response throw. A code outside of the table has the key of
  its status in the chain and INTERNAL_SERVER_ERROR in the handler; `requireAdmin`
  uses such a code, 40301. `AppError.from` classifies Zod and AuthErrors by their
  words. The boundary shows 50001 and a card without a code 50002.
- Language. `detectClient` does not lower-case what it finds in storage,
  `detectServer` does; the client looks at navigator.language only, the server at
  the whole Accept-Language; the cookie lasts a year and localStorage for ever.
  `ErrorResponse` and `securityMiddleware` write Korean whatever the request says; the
  option `locale` of the auth handlers goes before the request; `ErrorBoundary`,
  `ErrorCard` and `InlineError` accept ko and en as a prop and take ko otherwise. An
  auth handler without `includeCode` leaves a legacy answer no more than its status.
- Batches. A batch counts as many successes as its processor returns results. A batchSize or maxConcurrentBatches of 0 loops for ever;
  retryAttempts of 0 counts batches the processor never saw. The abort timer of
  the base provider does not cover the reading of the body.
- Passwords. The form's default pattern asks for a digit even with requireNumber
  false; an empty password scores 20; two servers whose argon2 settings are not
  comparable replace each other's hashes for ever.

Not modelled:

- Access tokens apart from what their verification answers; the browser's JWT
  client, cookies, provider HTTP, key handling: no shared state, or a
  precondition of an action. JWT manager, token checker and allowed origins are
  taken to be configured. One access token suffices for the guards, and the role
  in it is a choice of `Verify`.
- The contents of cached values: the properties are about presence and versions.
- `increment` and `expire` over both levels of a hybrid cache; metrics, prefixes,
  TTL tables.
- In `ApiKeys`, permissions, rate limits, ownership, usage counting and key
  formats; two keys never have one hash. Open API authentication is a caller of
  it that keeps nothing.
- In `Accounts`, disabled accounts, magic links, the login after a signup and
  profile changes. One address at a time: nothing relates two.
- A limiter over Redis, which belongs to the application: `Limited` is one await
  with any verdict. A custom chain with both a timeout and continueOnError.
- Several commands of one pipeline of the Redis client that fail with one error
  object, which the global breaker then counts once.
- Restart of a process: the breakers and the memory cache start afresh, and the
  token marks are Redis's. A request a restart cuts off is `Fail`.
- The words of messages, friendly-messages, the drawing of error cards.
- Object storage, logging, monitoring, security helpers, exports and paging,
  geolocation providers, string validators: I/O or stateless functions.

## 7. What is left

In order of importance:

1. `HybridClaims` as the store `TokenRefresh` assumes: when its claims settle in
   the sense of `Settles`, as a refinement.
2. Expiry, deletion and eviction in the hybrid cache together with its claims,
   hence `MemoryCache` in the place of the memory level.
3. The browser's JWT client with its queue of requests during a refresh, against
   `TokenRefresh`.
4. Magic links and the login after a signup in `Accounts`; disabled accounts.
5. Paging, CSV and short codes against reference definitions.
6. The middleware chain with `RateLimits` as its limiter, in the place of a verdict
   that may be anything.
