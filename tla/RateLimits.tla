------------------------------ MODULE RateLimits ------------------------------
(***************************************************************************)
(* InMemoryRateLimitStore behind createInMemoryRateLimiter: a fixed window *)
(* per client, opened by its first request, in a map of at most MaxEntries *)
(* windows.  check() is synchronous, so each call is one action.  What is  *)
(* hard is what a client gets over time: two windows back to back, windows *)
(* that lose their place to those of other clients, and the boundary.      *)
(*                                                                         *)
(* The Map keeps the insertion order, which settles the choice among       *)
(* windows that end together; the model leaves that choice open.           *)
(***************************************************************************)
EXTENDS Integers, FiniteSets

CONSTANTS
    Client,      \* the identifiers: "user:..." or "ip:..."
    Limit,       \* requests per window
    Window,      \* windowMs
    MaxEntries,
    NoWindow,
    MaxTime      \* bound of the model: the last instant

ASSUME RateConstantsOK ==
    /\ IsFiniteSet(Client)
    /\ Limit \in Nat /\ Window \in Nat \ {0} /\ MaxEntries \in Nat \ {0}
    /\ NoWindow \notin [count : Nat, expiresAt : Nat]
    /\ MaxTime \in Nat

VARIABLES
    store,   \* per client: its window, or NoWindow
    now,
    granted  \* history: per client and mark, the requests granted before that
             \* mark and since the client last lost a window for want of room

rateVars == <<store, now, granted>>

WindowRecord == [count : Nat, expiresAt : Nat]
Instants == 0 .. MaxTime

\* The marks are where spans of time begin and end; at the last one the history
\* has counted everything.
Marks == 0 .. MaxTime + 1
Nothing == [t \in Marks |-> 0]
GrantedAt(n, history) == [t \in Marks |-> IF t > n THEN history[t] + 1 ELSE history[t]]

RateInit ==
    /\ store = [c \in Client |-> NoWindow]
    /\ now = 0
    /\ granted = [c \in Client |-> Nothing]

Stored == {c \in Client : store[c] # NoWindow}

\* A window that check() counts in.
Open(c) == store[c] # NoWindow /\ store[c].expiresAt > now

Full == Cardinality(Stored) >= MaxEntries

\* Faulty variant: the window that ends last goes first.
EvictNewest == {c \in Stored : \A d \in Stored : store[d].expiresAt <= store[c].expiresAt}

\* evictOldest: the window that ends first, open or not.
EvictOldest == {c \in Stored : \A d \in Stored : store[c].expiresAt <= store[d].expiresAt}

\* A client is excused from its count if its open window was evicted while
\* every other one was open too.
Excused(out) == {c \in out : Open(c) /\ \A d \in Stored : Open(d)}

Granted(c, out) ==
    granted' = [d \in Client |->
                   IF d \in Excused(out) THEN Nothing
                   ELSE IF d = c THEN GrantedAt(now, granted[d])
                   ELSE granted[d]]

\* The first request of a window: it is granted without a look at the limit.
\* A full map makes room first, also for a client whose own window has run out
\* and is only replaced.
OpenWindow(c) ==
    /\ ~Open(c)
    /\ \E out \in IF Full THEN {{d} : d \in EvictOldest} ELSE {{}} :
        /\ store' = [d \in Client |->
                        IF d = c THEN [count |-> 1, expiresAt |-> now + Window]
                        ELSE IF d \in out THEN NoWindow ELSE store[d]]
        /\ Granted(c, out)
    /\ UNCHANGED now

\* "success" of a later request.
Grants(n) == n <= Limit

\* A later request of the window.  The count goes on after the limit; the
\* model stops it at Limit + 1, where nothing but the count changes any more.
CountRequest(c) ==
    /\ Open(c)
    /\ LET n == store[c].count + 1 IN
        /\ store' = [store EXCEPT ![c].count = IF n <= Limit + 1 THEN n ELSE @]
        /\ granted' = IF Grants(n) THEN [granted EXCEPT ![c] = GrantedAt(now, @)] ELSE granted
    /\ UNCHANGED now

\* check()
Check(c) == OpenWindow(c) \/ CountRequest(c)

\* delete(): the client starts again, for its caller has reset it.
Delete(c) ==
    /\ c \in Stored
    /\ store' = [store EXCEPT ![c] = NoWindow]
    /\ granted' = [granted EXCEPT ![c] = Nothing]
    /\ UNCHANGED now

\* clear() and destroy()
Clear ==
    /\ Stored # {}
    /\ store' = [c \in Client |-> NoWindow]
    /\ granted' = [c \in Client |-> Nothing]
    /\ UNCHANGED now

\* The cleanup timer.
Cleanup ==
    /\ \E c \in Stored : ~Open(c)
    /\ store' = [c \in Client |-> IF Open(c) THEN store[c] ELSE NoWindow]
    /\ UNCHANGED <<now, granted>>

\* Date.now() is taken to be monotonic.
Tick == now < MaxTime /\ now' = now + 1 /\ UNCHANGED <<store, granted>>

RateNext ==
    \/ \E c \in Client : Check(c) \/ Delete(c)
    \/ Clear
    \/ Cleanup
    \/ Tick

RateSpec == RateInit /\ [][RateNext]_rateVars

------------------------------------------------------------------------------
(* Properties.                                                             *)

\* Types, and: the map never outgrows its bound, and no window ends later than
\* a whole window from now.
RateTypeOK ==
    /\ store \in [Client -> WindowRecord \cup {NoWindow}]
    /\ now \in Instants
    /\ granted \in [Client -> [Marks -> Nat]]
    /\ Cardinality(Stored) <= MaxEntries
    /\ \A c \in Stored : store[c].count \in 1 .. (Limit + 1) \cup {1}
                         /\ store[c].expiresAt <= now + Window

\* What one window may grant: with a limit of 0 the first request passes.
PerWindow == IF Limit = 0 THEN 1 ELSE Limit

\* Over any span as long as a window a client is granted at most what two
\* windows grant, whatever is cleaned up, replaced or evicted meanwhile, unless
\* its own window fell victim to a map full of open windows, or was deleted.
GrantsBounded ==
    \A c \in Client, t \in Instants :
        t + Window \in Marks => granted[c][t + Window] - granted[c][t] <= 2 * PerWindow

\* Both: a limiter that keeps its bound and its windows, and grants no more than
\* they allow.
RateInv == RateTypeOK /\ GrantsBounded
==============================================================================
