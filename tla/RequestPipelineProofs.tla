------------------------- MODULE RequestPipelineProofs -------------------------
(* That the guards of the wrappers hold for any number of requests in flight,  *)
(* any tokens and anything a handler or a limiter may throw; that a limiter    *)
(* grants no more than two windows over the span of one; and that a failure    *)
(* reads the same, and in the language chosen, on whichever way it is answered.*)
EXTENDS RequestPipeline, ClientErrors, RateLimits, SequenceTheorems, FiniteSetTheorems, TLAPS

------------------------------------------------------------------------------
(* The chains.                                                             *)

\* The names of the middlewares.
Middleware == {"errors", "security", "cors", "init", "auth", "optionalAuth", "role", "limit", "log"}

\* The guards come after the first four middlewares, and then the limiter.
LEMMA StandardChain ==
    ASSUME NEW guards \in Seq(Middleware)
    PROVE  /\ Standard(guards) \in Seq(Middleware) /\ Len(Standard(guards)) = Len(guards) + 6
           /\ \A i \in 1 .. Len(guards) : Standard(guards)[4 + i] = guards[i]
           /\ Standard(guards)[Len(guards) + 5] = "limit"
  <1> DEFINE first == <<"errors", "security", "cors", "init">>
             last == <<"limit", "log">>
  <1>1. first \in Seq(Middleware) /\ Len(first) = 4
    BY DEF Middleware
  <1>2. last \in Seq(Middleware) /\ Len(last) = 2 /\ last[1] = "limit"
    BY DEF Middleware
  <1>3. Standard(guards) = (first \o guards) \o last
    BY DEF Standard
  <1> HIDE DEF first, last
  <1>0. Len(guards) \in Nat
    BY LenProperties
  <1> DEFINE head == first \o guards
  <1>4. /\ head \in Seq(Middleware) /\ Len(head) = 4 + Len(guards)
        /\ \A i \in 1 .. 4 + Len(guards) : head[i] = IF i <= 4 THEN first[i] ELSE guards[i - 4]
    <2>1. /\ head \in Seq(Middleware) /\ Len(head) = Len(first) + Len(guards)
          /\ \A i \in 1 .. Len(first) + Len(guards) :
               head[i] = IF i <= Len(first) THEN first[i] ELSE guards[i - Len(first)]
      BY <1>1, ConcatProperties
    <2> HIDE DEF head
    <2> QED
      BY <1>1, <2>1
  <1> HIDE DEF head
  <1>5. /\ Standard(guards) \in Seq(Middleware)
        /\ Len(Standard(guards)) = Len(guards) + 6
        /\ \A i \in 1 .. Len(guards) + 6 :
             Standard(guards)[i] = IF i <= 4 + Len(guards) THEN head[i]
                                   ELSE last[i - (4 + Len(guards))]
    <2>1. Standard(guards) = head \o last
      BY <1>3 DEF head
    <2>2. /\ head \o last \in Seq(Middleware) /\ Len(head \o last) = Len(head) + Len(last)
          /\ \A i \in 1 .. Len(head) + Len(last) :
               (head \o last)[i] = IF i <= Len(head) THEN head[i] ELSE last[i - Len(head)]
      BY <1>2, <1>4, ConcatProperties
    <2>3. Len(head) + Len(last) = Len(guards) + 6
      BY <1>0, <1>2, <1>4
    <2> QED
      BY <1>4, <2>1, <2>2, <2>3
  <1>6. ASSUME NEW i \in 1 .. Len(guards) PROVE Standard(guards)[4 + i] = guards[i]
    <2>1. 4 + i \in 1 .. 4 + Len(guards) /\ 4 + i \in 1 .. Len(guards) + 6 /\ ~ (4 + i <= 4)
          /\ 4 + i <= 4 + Len(guards) /\ (4 + i) - 4 = i
      BY <1>0
    <2> QED
      BY <1>4, <1>5, <2>1
  <1>7. Standard(guards)[Len(guards) + 5] = "limit"
    <2>1. Len(guards) + 5 - (4 + Len(guards)) = 1
          /\ Len(guards) + 5 \in 1 .. Len(guards) + 6 /\ ~ (Len(guards) + 5 <= 4 + Len(guards))
      BY <1>0
    <2> QED
      BY <1>2, <1>5, <2>1
  <1> QED
    BY <1>5, <1>6, <1>7

\* A chain is a sequence of at most eight middlewares; every standard wrapper
\* has the limiter, two of them the authentication.
LEMMA Chains ==
    /\ Timed \subseteq Endpoint /\ Continues \subseteq Endpoint /\ Timed \cap Continues = {}
    /\ \A e \in Endpoint : Chain[e] \in Seq(Middleware) /\ Len(Chain[e]) \in 0 .. 8
    /\ \A e \in Timed : \E i \in DOMAIN Chain[e] : Chain[e][i] = "limit"
    /\ \A e \in {"auth", "admin"} : \E i \in DOMAIN Chain[e] : Chain[e][i] = "auth"
  <1>1. Endpoint = {"public", "auth", "admin", "optional", "custom", "wrapped", "processed"}
    BY DEF Endpoint, Chain
  <1>2. /\ Chain["public"] = Standard(<<>>) /\ Chain["auth"] = Standard(<<"auth">>)
        /\ Chain["admin"] = Standard(<<"auth", "role">>)
        /\ Chain["optional"] = Standard(<<"optionalAuth">>)
        /\ Chain["custom"] = <<"errors", "init", "limit", "log">>
        /\ Chain["wrapped"] = <<>> /\ Chain["processed"] = <<>>
    BY DEF Chain
  <1>3. /\ Chain["public"] \in Seq(Middleware) /\ Len(Chain["public"]) = 6
        /\ Chain["public"][5] = "limit"
    <2> DEFINE g == <<>>
    <2>1. g \in Seq(Middleware) /\ Len(g) = 0 /\ Chain["public"] = Standard(g)
      BY <1>2
    <2> HIDE DEF g
    <2>2. /\ Standard(g) \in Seq(Middleware) /\ Len(Standard(g)) = Len(g) + 6
          /\ \A i \in 1 .. Len(g) : Standard(g)[4 + i] = g[i]
          /\ Standard(g)[Len(g) + 5] = "limit"
      BY <2>1, StandardChain
    <2> QED
      BY <2>1, <2>2
  <1>4. /\ Chain["auth"] \in Seq(Middleware) /\ Len(Chain["auth"]) = 7
        /\ Chain["auth"][5] = "auth" /\ Chain["auth"][6] = "limit"
    <2> DEFINE g == <<"auth">>
    <2>1. g \in Seq(Middleware) /\ Len(g) = 1 /\ g[1] = "auth" /\ Chain["auth"] = Standard(g)
      BY <1>2 DEF Middleware
    <2> HIDE DEF g
    <2>2. /\ Standard(g) \in Seq(Middleware) /\ Len(Standard(g)) = Len(g) + 6
          /\ \A i \in 1 .. Len(g) : Standard(g)[4 + i] = g[i]
          /\ Standard(g)[Len(g) + 5] = "limit"
      BY <2>1, StandardChain
    <2> QED
      BY <2>1, <2>2
  <1>5. /\ Chain["admin"] \in Seq(Middleware) /\ Len(Chain["admin"]) = 8
        /\ Chain["admin"][5] = "auth" /\ Chain["admin"][7] = "limit"
    <2> DEFINE g == <<"auth", "role">>
    <2>1. g \in Seq(Middleware) /\ Len(g) = 2 /\ g[1] = "auth" /\ Chain["admin"] = Standard(g)
      BY <1>2 DEF Middleware
    <2> HIDE DEF g
    <2>2. /\ Standard(g) \in Seq(Middleware) /\ Len(Standard(g)) = Len(g) + 6
          /\ \A i \in 1 .. Len(g) : Standard(g)[4 + i] = g[i]
          /\ Standard(g)[Len(g) + 5] = "limit"
      BY <2>1, StandardChain
    <2> QED
      BY <2>1, <2>2
  <1>6. /\ Chain["optional"] \in Seq(Middleware) /\ Len(Chain["optional"]) = 7
        /\ Chain["optional"][6] = "limit"
    <2> DEFINE g == <<"optionalAuth">>
    <2>1. g \in Seq(Middleware) /\ Len(g) = 1 /\ Chain["optional"] = Standard(g)
      BY <1>2 DEF Middleware
    <2> HIDE DEF g
    <2>2. /\ Standard(g) \in Seq(Middleware) /\ Len(Standard(g)) = Len(g) + 6
          /\ \A i \in 1 .. Len(g) : Standard(g)[4 + i] = g[i]
          /\ Standard(g)[Len(g) + 5] = "limit"
      BY <2>1, StandardChain
    <2> QED
      BY <2>1, <2>2
  <1>7. /\ Chain["custom"] \in Seq(Middleware) /\ Len(Chain["custom"]) = 4
        /\ Chain["wrapped"] \in Seq(Middleware) /\ Len(Chain["wrapped"]) = 0
        /\ Chain["processed"] \in Seq(Middleware) /\ Len(Chain["processed"]) = 0
    BY <1>2 DEF Middleware
  <1>8. \A e \in Endpoint : Chain[e] \in Seq(Middleware) /\ Len(Chain[e]) \in 0 .. 8
    <2>1. ASSUME NEW e \in Endpoint PROVE Chain[e] \in Seq(Middleware)
      BY <1>1, <1>3, <1>4, <1>5, <1>6, <1>7
    <2>2. ASSUME NEW e \in Endpoint PROVE Len(Chain[e]) \in {0, 4, 6, 7, 8}
      BY <1>1, <1>3, <1>4, <1>5, <1>6, <1>7
    <2> QED
      BY <2>1, <2>2
  <1>9. \A e \in Timed : \E i \in DOMAIN Chain[e] : Chain[e][i] = "limit"
    BY <1>3, <1>4, <1>5, <1>6, LenProperties DEF Timed
  <1>10. \A e \in {"auth", "admin"} : \E i \in DOMAIN Chain[e] : Chain[e][i] = "auth"
    BY <1>4, <1>5, LenProperties
  <1>11. Timed \subseteq Endpoint /\ Continues \subseteq Endpoint /\ Timed \cap Continues = {}
    BY <1>1 DEF Timed, Continues
  <1> QED
    BY <1>8, <1>9, <1>10, <1>11

------------------------------------------------------------------------------
(* What is known of a request, wherever it is.                             *)

\* A request is a record with the fields of Unstarted.
IsRequest(q) ==
    /\ q \in [endpoint : Endpoint, token : Token \cup {None}, dead : BOOLEAN, pos : 0 .. 9,
              checked : BOOLEAN, user : Role \cup {None}, cleared : BOOLEAN,
              open : {q.open}, runs : Nat, answer : {q.answer}]
    /\ q.pos <= HandlerAt(q)

\* The middleware m has let the request pass.
LetPass(q, m) ==
    /\ m = "limit" => q.cleared
    /\ m = "auth" => q.user # None /\ (q.endpoint = "admin" => q.user = "admin")

\* So has every middleware that the request has left behind.
Passed(q) ==
    q.endpoint \in Timed =>
        \A i \in DOMAIN Chain[q.endpoint] : i < q.pos => LetPass(q, Chain[q.endpoint][i])

\* What is known of its token: that it was revoked before the request came is
\* found out by the check of the revocation list, hence no user was set.  The
\* tokens revoked by now are "gone".
TokenKnown(q, gone) ==
    /\ q.dead => q.token \in gone
    /\ q.user # None => ~q.dead

Guarded(q, gone) ==
    /\ IsRequest(q) /\ TokenKnown(q, gone) /\ Passed(q)
    /\ q.checked => ~q.dead /\ Stage(q) \in {"auth", "optionalAuth"}
    /\ q.endpoint \notin Continues => q.runs = IF q.pos = HandlerAt(q) THEN 1 ELSE 0

\* Of every request.
AllGuarded ==
    /\ revoked \subseteq Token
    /\ req = [r \in Request |-> req[r]]
    /\ \A r \in Request : Guarded(req[r], revoked)

------------------------------------------------------------------------------
(* The steps of the chain.                                                 *)

\* The least of some positions.
LEMMA LeastPosition ==
    ASSUME NEW S \in SUBSET (1 .. 9), S # {}
    PROVE  Min(S) \in S /\ \A j \in S : Min(S) <= j
  <1>1. \E i \in S : \A j \in S : i <= j
    <2> SUFFICES ASSUME \A i \in S : \E j \in S : j < i
                 PROVE  FALSE
      OBVIOUS
    <2>1. 1 \notin S
      OBVIOUS
    <2>2. 2 \notin S
      BY <2>1
    <2>3. 3 \notin S
      BY <2>1, <2>2
    <2>4. 4 \notin S
      BY <2>1, <2>2, <2>3
    <2>5. 5 \notin S
      BY <2>1, <2>2, <2>3, <2>4
    <2>6. 6 \notin S
      BY <2>1, <2>2, <2>3, <2>4, <2>5
    <2>7. 7 \notin S
      BY <2>1, <2>2, <2>3, <2>4, <2>5, <2>6
    <2>8. 8 \notin S
      BY <2>1, <2>2, <2>3, <2>4, <2>5, <2>6, <2>7
    <2>9. 9 \notin S
      BY <2>1, <2>2, <2>3, <2>4, <2>5, <2>6, <2>7, <2>8
    <2>10. \A i \in 1 .. 9 : i \in {1, 2, 3, 4, 5, 6, 7, 8, 9}
      OBVIOUS
    <2>11. S = {}
      BY <2>1, <2>2, <2>3, <2>4, <2>5, <2>6, <2>7, <2>8, <2>9, <2>10
    <2> QED
      BY <2>11
  <1> QED
    BY <1>1 DEF Min

\* Where a request is: before the first middleware, in one, or in the handler.
LEMMA Stages ==
    ASSUME NEW q, IsRequest(q)
    PROVE  /\ HandlerAt(q) \in 1 .. 9 /\ DOMAIN Chain[q.endpoint] = 1 .. HandlerAt(q) - 1
           /\ \A m \in Waits : Stage(q) = m =>
                /\ q.pos \in DOMAIN Chain[q.endpoint] /\ Chain[q.endpoint][q.pos] = m
                /\ q.pos < HandlerAt(q)
           /\ Stage(q) = "handler" => q.pos = HandlerAt(q)
           /\ Stage(q) = "idle" => q.pos = 0
  <1>1. q.endpoint \in Endpoint /\ q.pos \in 0 .. 9 /\ q.pos <= HandlerAt(q)
    BY DEF IsRequest
  <1>2. Chain[q.endpoint] \in Seq(Middleware) /\ Len(Chain[q.endpoint]) \in 0 .. 8
    BY <1>1, Chains
  <1>3. HandlerAt(q) \in 1 .. 9 /\ DOMAIN Chain[q.endpoint] = 1 .. HandlerAt(q) - 1
    <2>1. DOMAIN Chain[q.endpoint] = 1 .. Len(Chain[q.endpoint])
      BY <1>2, LenProperties
    <2>2. HandlerAt(q) = Len(Chain[q.endpoint]) + 1
      BY DEF HandlerAt
    <2>3. HandlerAt(q) - 1 = Len(Chain[q.endpoint]) /\ HandlerAt(q) \in 1 .. 9
      <3>1. \A n \in 0 .. 8 : (n + 1) - 1 = n /\ n + 1 \in 1 .. 9
        OBVIOUS
      <3> QED
        BY <1>2, <2>2, <3>1
    <2> QED
      BY <2>1, <2>3
  <1>4. \A i \in DOMAIN Chain[q.endpoint] : Chain[q.endpoint][i] \notin {"handler", "idle"}
    BY <1>2, ElementOfSeq, LenProperties DEF Middleware
  <1>5. ASSUME NEW m \in Waits, Stage(q) = m
        PROVE  q.pos \in DOMAIN Chain[q.endpoint] /\ Chain[q.endpoint][q.pos] = m
    BY <1>5 DEF Stage, Waits
  <1>6. Stage(q) = "handler" => q.pos = HandlerAt(q)
    BY <1>4 DEF Stage
  <1>7. Stage(q) = "idle" => q.pos = 0
    BY <1>1, <1>3, <1>4 DEF Stage
  <1> QED
    BY <1>1, <1>3, <1>5, <1>6, <1>7

\* A record with the right fields is a request.
LEMMA RequestFields ==
    ASSUME NEW q,
           q = [endpoint |-> q.endpoint, token |-> q.token, dead |-> q.dead, pos |-> q.pos,
                checked |-> q.checked, user |-> q.user, cleared |-> q.cleared,
                open |-> q.open, runs |-> q.runs, answer |-> q.answer],
           q.endpoint \in Endpoint, q.token \in Token \cup {None}, q.dead \in BOOLEAN,
           q.pos \in 0 .. 9, q.checked \in BOOLEAN, q.user \in Role \cup {None},
           q.cleared \in BOOLEAN, q.runs \in Nat, q.pos <= Len(Chain[q.endpoint]) + 1
    PROVE  IsRequest(q)
  BY DEF IsRequest, HandlerAt

\* next() goes over no middleware that waits, and changes nothing but the place.
LEMMA ProceedStops ==
    ASSUME NEW q, IsRequest(q)
    PROVE  /\ IsRequest(Proceed(q))
           /\ \A i \in DOMAIN Chain[q.endpoint] :
                q.pos < i /\ i < Proceed(q).pos => Chain[q.endpoint][i] \notin Waits
           /\ Proceed(q).endpoint = q.endpoint /\ Proceed(q).token = q.token
           /\ Proceed(q).dead = q.dead /\ Proceed(q).user = q.user
           /\ Proceed(q).cleared = q.cleared /\ Proceed(q).checked = FALSE
           /\ Proceed(q).answer = q.answer
           /\ Proceed(q).runs = IF Proceed(q).pos = HandlerAt(q) THEN q.runs + 1 ELSE q.runs
  <1> DEFINE stops == {i \in DOMAIN Chain[q.endpoint] : i > q.pos /\ Chain[q.endpoint][i] \in Waits}
             to == Min(stops \cup {HandlerAt(q)})
             entered == {i \in DOMAIN Chain[q.endpoint] : q.pos < i /\ i <= to}
             n == Cardinality(entered)
  <1>1. HandlerAt(q) \in 1 .. 9 /\ DOMAIN Chain[q.endpoint] = 1 .. HandlerAt(q) - 1
    BY Stages
  <1>2. to \in stops \cup {HandlerAt(q)} /\ \A j \in stops \cup {HandlerAt(q)} : to <= j
    <2>1. stops \cup {HandlerAt(q)} \in SUBSET (1 .. 9)
      BY <1>1
    <2> QED
      BY <2>1, LeastPosition
  <1>3. to \in 1 .. 9 /\ to <= HandlerAt(q)
    BY <1>1, <1>2
  <1>4. \A i \in DOMAIN Chain[q.endpoint] :
            q.pos < i /\ i < to => Chain[q.endpoint][i] \notin Waits
    <2>1. stops \subseteq Int
      BY <1>1
    <2>2. ASSUME NEW i \in stops PROVE ~ (i < to)
      <3> HIDE DEF stops, to
      <3> QED
        BY <1>2, <1>3, <2>1
    <2> QED
      BY <2>2
  <1>5. Proceed(q) = [q EXCEPT !.pos = to, !.checked = FALSE, !.open = @ + n,
                               !.runs = IF to = HandlerAt(q) THEN @ + 1 ELSE @]
    BY DEF Proceed
  <1> HIDE DEF to, n
  <1>6. /\ Proceed(q).pos = to /\ Proceed(q).endpoint = q.endpoint /\ Proceed(q).token = q.token
        /\ Proceed(q).dead = q.dead /\ Proceed(q).user = q.user
        /\ Proceed(q).cleared = q.cleared /\ Proceed(q).checked = FALSE
        /\ Proceed(q).answer = q.answer
        /\ Proceed(q).runs = IF to = HandlerAt(q) THEN q.runs + 1 ELSE q.runs
    BY <1>5 DEF IsRequest
  <1>7. HandlerAt(Proceed(q)) = HandlerAt(q)
    BY <1>6 DEF HandlerAt
  <1>8. IsRequest(Proceed(q))
    <2> DEFINE p == Proceed(q)
    <2>1. p = [endpoint |-> p.endpoint, token |-> p.token, dead |-> p.dead, pos |-> p.pos,
               checked |-> p.checked, user |-> p.user, cleared |-> p.cleared,
               open |-> p.open, runs |-> p.runs, answer |-> p.answer]
      BY <1>5 DEF IsRequest
    <2>2. /\ p.endpoint \in Endpoint /\ p.token \in Token \cup {None} /\ p.dead \in BOOLEAN
          /\ p.user \in Role \cup {None} /\ p.cleared \in BOOLEAN /\ p.runs \in Nat
      BY <1>6 DEF IsRequest
    <2>3. p.checked \in BOOLEAN
      BY <1>6, Zenon
    <2>4. p.pos \in 0 .. 9 /\ p.pos <= Len(Chain[p.endpoint]) + 1
      BY <1>3, <1>6 DEF HandlerAt
    <2> HIDE DEF p
    <2>5. IsRequest(p)
      BY <2>1, <2>2, <2>3, <2>4, RequestFields
    <2> QED
      BY <2>5 DEF p
  <1> QED
    BY <1>4, <1>6, <1>8

\* next() is sound once the middleware that calls it has let the request pass.
LEMMA ProceedGuarded ==
    ASSUME NEW q, IsRequest(q), TokenKnown(q, revoked),
           q.endpoint \in Timed =>
             \A i \in DOMAIN Chain[q.endpoint] : i <= q.pos => LetPass(q, Chain[q.endpoint][i]),
           q.endpoint \notin Continues => q.runs = 0
    PROVE  Guarded(Proceed(q), revoked)
  <1>1. /\ IsRequest(Proceed(q))
        /\ \A i \in DOMAIN Chain[q.endpoint] :
             q.pos < i /\ i < Proceed(q).pos => Chain[q.endpoint][i] \notin Waits
        /\ Proceed(q).endpoint = q.endpoint /\ Proceed(q).token = q.token
        /\ Proceed(q).dead = q.dead /\ Proceed(q).user = q.user
        /\ Proceed(q).cleared = q.cleared /\ Proceed(q).checked = FALSE
        /\ Proceed(q).runs = IF Proceed(q).pos = HandlerAt(q) THEN q.runs + 1 ELSE q.runs
    BY ProceedStops
  <1>2. TokenKnown(Proceed(q), revoked)
    BY <1>1 DEF TokenKnown
  <1>3. Passed(Proceed(q))
    <2> SUFFICES ASSUME q.endpoint \in Timed, NEW i \in DOMAIN Chain[q.endpoint],
                        i < Proceed(q).pos
                 PROVE  LetPass(q, Chain[q.endpoint][i])
      BY <1>1 DEF Passed, LetPass
    <2>1. CASE i <= q.pos
      BY <2>1
    <2>2. CASE ~ (i <= q.pos)
      <3>1. i \in Int /\ q.pos \in Int
        BY Stages DEF IsRequest
      <3>2. Chain[q.endpoint][i] \notin Waits
        BY <1>1, <2>2, <3>1
      <3> QED
        BY <3>2 DEF LetPass, Waits
    <2> QED
      BY <2>1, <2>2
  <1>4. q.endpoint \notin Continues =>
            Proceed(q).runs = IF Proceed(q).pos = HandlerAt(Proceed(q)) THEN 1 ELSE 0
    BY <1>1 DEF HandlerAt
  <1> QED
    BY <1>1, <1>2, <1>3, <1>4 DEF Guarded

\* A place where nothing runs.
LEMMA UnstartedGuarded ==
    ASSUME NEW e \in Endpoint, NEW token \in Token \cup {None}, NEW answer
    PROVE  /\ IsRequest(Unstarted(e, token)) /\ TokenKnown(Unstarted(e, token), revoked)
           /\ Unstarted(e, token).endpoint = e /\ Unstarted(e, token).token = token
           /\ Unstarted(e, token).pos = 0 /\ Unstarted(e, token).runs = 0
           /\ Guarded([Unstarted(e, token) EXCEPT !.answer = answer], revoked)
  <1> DEFINE u == Unstarted(e, token)
             v == [u EXCEPT !.answer = answer]
  <1>1. /\ Len(Chain[e]) \in 0 .. 8 /\ DOMAIN Chain[e] = 1 .. Len(Chain[e])
        /\ 0 <= Len(Chain[e]) + 1
    <2>1. Len(Chain[e]) \in 0 .. 8 /\ DOMAIN Chain[e] = 1 .. Len(Chain[e])
      BY Chains, LenProperties
    <2>2. \A n \in 0 .. 8 : 0 <= n + 1
      OBVIOUS
    <2> QED
      BY <2>1, <2>2
  <1>2. /\ u = [endpoint |-> u.endpoint, token |-> u.token, dead |-> u.dead, pos |-> u.pos,
                checked |-> u.checked, user |-> u.user, cleared |-> u.cleared,
                open |-> u.open, runs |-> u.runs, answer |-> u.answer]
        /\ u.endpoint = e /\ u.token = token /\ u.pos = 0 /\ u.runs = 0 /\ u.user = None
        /\ u.checked = FALSE /\ u.cleared = FALSE
    BY DEF Unstarted
  <1>3. u.dead \in BOOLEAN /\ (u.dead => token \in revoked)
    <2> DEFINE known == token \in revoked
    <2>1. u.dead = known
      BY DEF Unstarted
    <2>2. known \in BOOLEAN /\ (known => token \in revoked)
      OBVIOUS
    <2> HIDE DEF u, known
    <2>3. u.dead \in BOOLEAN
      BY <2>1, <2>2, Zenon
    <2>4. u.dead => known
      BY <2>1, Zenon
    <2> QED
      BY <2>2, <2>3, <2>4
  <1> HIDE DEF u
  <1>4. IsRequest(u)
    <2>1. u.pos \in 0 .. 9 /\ u.runs \in Nat /\ u.user \in Role \cup {None}
      BY <1>2
    <2>2. u.checked \in BOOLEAN /\ u.cleared \in BOOLEAN
      BY <1>2, Zenon
    <2> QED
      BY <1>1, <1>2, <1>3, <2>1, <2>2, RequestFields
  <1>5. /\ IsRequest(v) /\ v.endpoint = e /\ v.token = token /\ v.pos = 0 /\ v.runs = 0
        /\ v.user = None /\ v.checked = FALSE /\ v.dead = u.dead
    <2>1. /\ v = [endpoint |-> v.endpoint, token |-> v.token, dead |-> v.dead, pos |-> v.pos,
                  checked |-> v.checked, user |-> v.user, cleared |-> v.cleared,
                  open |-> v.open, runs |-> v.runs, answer |-> v.answer]
          /\ v.endpoint = u.endpoint /\ v.token = u.token /\ v.pos = u.pos /\ v.runs = u.runs
          /\ v.user = u.user /\ v.checked = u.checked /\ v.dead = u.dead /\ v.cleared = u.cleared
      BY <1>4 DEF IsRequest
    <2>2. u.pos \in 0 .. 9 /\ u.runs \in Nat /\ u.user \in Role \cup {None}
          /\ u.checked \in BOOLEAN /\ u.cleared \in BOOLEAN
      BY <1>4 DEF IsRequest
    <2> HIDE DEF v
    <2> QED
      BY <1>1, <1>2, <1>3, <2>1, <2>2, RequestFields
  <1> HIDE DEF v
  <1>6. TokenKnown(u, revoked) /\ TokenKnown(v, revoked)
    BY <1>2, <1>3, <1>5 DEF TokenKnown
  <1>7. HandlerAt(v) \in 1 .. 9
    BY <1>5, Stages
  <1>8. Passed(v)
    BY <1>1, <1>5 DEF Passed
  <1>9. Guarded(v, revoked)
    BY <1>5, <1>6, <1>7, <1>8 DEF Guarded
  <1> QED
    BY <1>2, <1>4, <1>6, <1>9 DEF u, v

\* So is the place of a request that has ended.
LEMMA EndedGuarded ==
    ASSUME NEW q, q.endpoint \in Endpoint, NEW answer
    PROVE  Guarded(Ended(q, answer), revoked)
  <1> DEFINE a == IF q.answer = None THEN answer ELSE q.answer
  <1>1. Ended(q, answer) = [Unstarted(q.endpoint, None) EXCEPT !.answer = a]
    BY DEF Ended
  <1> HIDE DEF a
  <1> QED
    BY <1>1, UnstartedGuarded

\* An error ends the request, or its chain continues; that chain has no guards.
LEMMA ThrownGuarded ==
    ASSUME NEW q, IsRequest(q), TokenKnown(q, revoked), NEW e
    PROVE  Guarded(Thrown(q, e), revoked)
  <1>1. CASE q.endpoint \in Continues /\ q.open > 1
    <2> DEFINE p == [q EXCEPT !.open = @ - 1]
    <2>1. /\ IsRequest(p) /\ TokenKnown(p, revoked) /\ p.endpoint = q.endpoint
      BY DEF IsRequest, TokenKnown, HandlerAt
    <2>2. p.endpoint \notin Timed /\ p.endpoint \in Continues
      BY <1>1, <2>1, Chains
    <2>3. Thrown(q, e) = Proceed(p)
      BY <1>1 DEF Thrown
    <2> HIDE DEF p
    <2> QED
      BY <2>1, <2>2, <2>3, ProceedGuarded
  <1>2. CASE ~ (q.endpoint \in Continues /\ q.open > 1)
    <2>1. Thrown(q, e) = Ended(q, ErrorAnswer(q, e))
      BY <1>2 DEF Thrown
    <2> QED
      BY <2>1, EndedGuarded DEF IsRequest
  <1> QED
    BY <1>1, <1>2

------------------------------------------------------------------------------
(* Every step keeps the guards.                                            *)

\* A request that moves is guarded, and the others stay where they are.
LEMMA MoveGuarded ==
    ASSUME AllGuarded, NEW r \in Request, NEW p, Guarded(p, revoked),
           req' = [req EXCEPT ![r] = p], revoked' = revoked
    PROVE  AllGuarded'
  <1>1. req'[r] = p /\ \A s \in Request \ {r} : req'[s] = req[s]
    BY DEF AllGuarded
  <1>2. req' = [s \in Request |-> req'[s]]
    BY DEF AllGuarded
  <1>3. \A s \in Request : Guarded(req'[s], revoked)
    BY <1>1 DEF AllGuarded
  <1> QED
    BY <1>2, <1>3 DEF AllGuarded

\* A request whose answer is set is otherwise the same.
LEMMA AnswerSet ==
    ASSUME NEW q, IsRequest(q), NEW x, NEW p, p = [q EXCEPT !.answer = x]
    PROVE  /\ IsRequest(p) /\ p.answer = x
           /\ p.endpoint = q.endpoint /\ p.token = q.token /\ p.dead = q.dead /\ p.pos = q.pos
           /\ p.checked = q.checked /\ p.user = q.user /\ p.cleared = q.cleared /\ p.runs = q.runs
  <1>1. /\ p = [endpoint |-> p.endpoint, token |-> p.token, dead |-> p.dead, pos |-> p.pos,
                checked |-> p.checked, user |-> p.user, cleared |-> p.cleared,
                open |-> p.open, runs |-> p.runs, answer |-> p.answer]
        /\ p.answer = x
        /\ p.endpoint = q.endpoint /\ p.token = q.token /\ p.dead = q.dead /\ p.pos = q.pos
        /\ p.checked = q.checked /\ p.user = q.user /\ p.cleared = q.cleared /\ p.runs = q.runs
    BY DEF IsRequest
  <1>2. q.pos <= Len(Chain[q.endpoint]) + 1
    BY DEF IsRequest, HandlerAt
  <1>3. /\ p.endpoint \in Endpoint /\ p.token \in Token \cup {None} /\ p.dead \in BOOLEAN
        /\ p.pos \in 0 .. 9 /\ p.checked \in BOOLEAN /\ p.user \in Role \cup {None}
        /\ p.cleared \in BOOLEAN /\ p.runs \in Nat
    BY <1>1 DEF IsRequest
  <1> QED
    BY <1>1, <1>2, <1>3, RequestFields

\* So is one whose check of the revocation list is recorded,
LEMMA CheckedSet ==
    ASSUME NEW q, IsRequest(q), NEW p, p = [q EXCEPT !.checked = TRUE]
    PROVE  /\ IsRequest(p) /\ p.checked
           /\ p.endpoint = q.endpoint /\ p.token = q.token /\ p.dead = q.dead /\ p.pos = q.pos
           /\ p.user = q.user /\ p.cleared = q.cleared /\ p.runs = q.runs /\ p.answer = q.answer
  <1> DEFINE yes == TRUE
  <1>0. p = [q EXCEPT !.checked = yes] /\ yes \in BOOLEAN /\ yes
    OBVIOUS
  <1> HIDE DEF yes
  <1>1. /\ p = [endpoint |-> p.endpoint, token |-> p.token, dead |-> p.dead, pos |-> p.pos,
                checked |-> p.checked, user |-> p.user, cleared |-> p.cleared,
                open |-> p.open, runs |-> p.runs, answer |-> p.answer]
        /\ p.checked = yes
        /\ p.endpoint = q.endpoint /\ p.token = q.token /\ p.dead = q.dead /\ p.pos = q.pos
        /\ p.user = q.user /\ p.cleared = q.cleared /\ p.runs = q.runs /\ p.answer = q.answer
    BY <1>0 DEF IsRequest
  <1>2. q.pos <= Len(Chain[q.endpoint]) + 1
    BY DEF IsRequest, HandlerAt
  <1>3. /\ p.endpoint \in Endpoint /\ p.token \in Token \cup {None} /\ p.dead \in BOOLEAN
        /\ p.pos \in 0 .. 9 /\ p.checked \in BOOLEAN /\ p.user \in Role \cup {None}
        /\ p.cleared \in BOOLEAN /\ p.runs \in Nat
    BY <1>0, <1>1 DEF IsRequest
  <1>4. p.checked
    BY <1>0, <1>1, Zenon
  <1> QED
    BY <1>1, <1>2, <1>3, <1>4, RequestFields

\* one whose user is set,
LEMMA UserSet ==
    ASSUME NEW q, IsRequest(q), NEW x \in Role, NEW p, p = [q EXCEPT !.user = x]
    PROVE  /\ IsRequest(p) /\ p.user = x
           /\ p.endpoint = q.endpoint /\ p.token = q.token /\ p.dead = q.dead /\ p.pos = q.pos
           /\ p.checked = q.checked /\ p.cleared = q.cleared /\ p.runs = q.runs /\ p.answer = q.answer
  <1>1. /\ p = [endpoint |-> p.endpoint, token |-> p.token, dead |-> p.dead, pos |-> p.pos,
                checked |-> p.checked, user |-> p.user, cleared |-> p.cleared,
                open |-> p.open, runs |-> p.runs, answer |-> p.answer]
        /\ p.user = x
        /\ p.endpoint = q.endpoint /\ p.token = q.token /\ p.dead = q.dead /\ p.pos = q.pos
        /\ p.checked = q.checked /\ p.cleared = q.cleared /\ p.runs = q.runs /\ p.answer = q.answer
    BY DEF IsRequest
  <1>2. q.pos <= Len(Chain[q.endpoint]) + 1
    BY DEF IsRequest, HandlerAt
  <1>3. /\ p.endpoint \in Endpoint /\ p.token \in Token \cup {None} /\ p.dead \in BOOLEAN
        /\ p.pos \in 0 .. 9 /\ p.checked \in BOOLEAN /\ p.user \in Role \cup {None}
        /\ p.cleared \in BOOLEAN /\ p.runs \in Nat
    BY <1>1 DEF IsRequest
  <1> QED
    BY <1>1, <1>2, <1>3, RequestFields

\* and one that the limiter has let pass.
LEMMA ClearedSet ==
    ASSUME NEW q, IsRequest(q), NEW p, p = [q EXCEPT !.cleared = TRUE]
    PROVE  /\ IsRequest(p) /\ p.cleared
           /\ p.endpoint = q.endpoint /\ p.token = q.token /\ p.dead = q.dead /\ p.pos = q.pos
           /\ p.checked = q.checked /\ p.user = q.user /\ p.runs = q.runs /\ p.answer = q.answer
  <1> DEFINE yes == TRUE
  <1>0. p = [q EXCEPT !.cleared = yes] /\ yes \in BOOLEAN /\ yes
    OBVIOUS
  <1> HIDE DEF yes
  <1>1. /\ p = [endpoint |-> p.endpoint, token |-> p.token, dead |-> p.dead, pos |-> p.pos,
                checked |-> p.checked, user |-> p.user, cleared |-> p.cleared,
                open |-> p.open, runs |-> p.runs, answer |-> p.answer]
        /\ p.cleared = yes
        /\ p.endpoint = q.endpoint /\ p.token = q.token /\ p.dead = q.dead /\ p.pos = q.pos
        /\ p.checked = q.checked /\ p.user = q.user /\ p.runs = q.runs /\ p.answer = q.answer
    BY <1>0 DEF IsRequest
  <1>2. q.pos <= Len(Chain[q.endpoint]) + 1
    BY DEF IsRequest, HandlerAt
  <1>3. /\ p.endpoint \in Endpoint /\ p.token \in Token \cup {None} /\ p.dead \in BOOLEAN
        /\ p.pos \in 0 .. 9 /\ p.checked \in BOOLEAN /\ p.user \in Role \cup {None}
        /\ p.cleared \in BOOLEAN /\ p.runs \in Nat
    BY <1>0, <1>1 DEF IsRequest
  <1>4. p.cleared
    BY <1>0, <1>1, Zenon
  <1> QED
    BY <1>1, <1>2, <1>3, <1>4, RequestFields

\* An answer changes nothing that the guards depend on.
LEMMA AnswerGuarded ==
    ASSUME NEW q, Guarded(q, revoked), NEW answer
    PROVE  Guarded([q EXCEPT !.answer = answer], revoked)
  <1> DEFINE p == [q EXCEPT !.answer = answer]
  <1>1. /\ IsRequest(p)
        /\ p.endpoint = q.endpoint /\ p.token = q.token /\ p.dead = q.dead /\ p.pos = q.pos
        /\ p.checked = q.checked /\ p.user = q.user /\ p.cleared = q.cleared /\ p.runs = q.runs
    BY AnswerSet DEF Guarded
  <1> HIDE DEF p
  <1>2. Stage(p) = Stage(q) /\ HandlerAt(p) = HandlerAt(q)
    BY <1>1 DEF Stage, HandlerAt
  <1>3. TokenKnown(p, revoked) /\ Passed(p)
    BY <1>1 DEF Guarded, TokenKnown, Passed, LetPass
  <1>4. Guarded(p, revoked)
    BY <1>1, <1>2, <1>3 DEF Guarded
  <1> QED
    BY <1>4 DEF p

\* The revocation list answers that the token of the request is not on it.
LEMMA CheckedGuarded ==
    ASSUME NEW q, Guarded(q, revoked), q.token \notin revoked,
           Stage(q) \in {"auth", "optionalAuth"}
    PROVE  Guarded([q EXCEPT !.checked = TRUE], revoked)
  <1> DEFINE p == [q EXCEPT !.checked = TRUE]
  <1>1. /\ IsRequest(p)
        /\ p.endpoint = q.endpoint /\ p.token = q.token /\ p.dead = q.dead /\ p.pos = q.pos
        /\ p.user = q.user /\ p.cleared = q.cleared /\ p.runs = q.runs
    BY CheckedSet DEF Guarded
  <1> HIDE DEF p
  <1>2. Stage(p) = Stage(q) /\ HandlerAt(p) = HandlerAt(q)
    BY <1>1 DEF Stage, HandlerAt
  <1>3. TokenKnown(p, revoked) /\ Passed(p) /\ ~p.dead
    BY <1>1 DEF Guarded, TokenKnown, Passed, LetPass
  <1>4. Guarded(p, revoked)
    BY <1>1, <1>2, <1>3 DEF Guarded
  <1> QED
    BY <1>4 DEF p

\* A middleware that waits for something goes on once it has let the request
\* pass, if nothing is taken back that the ones before it had found.
LEMMA WaitingGuarded ==
    ASSUME NEW q, Guarded(q, revoked), Stage(q) \in Waits,
           NEW p, IsRequest(p), TokenKnown(p, revoked),
           p.endpoint = q.endpoint, p.pos = q.pos, p.runs = q.runs,
           LetPass(p, Stage(q)), \A m : LetPass(q, m) => LetPass(p, m)
    PROVE  Guarded(Proceed(p), revoked)
  <1>1. /\ q.pos \in DOMAIN Chain[q.endpoint] /\ Chain[q.endpoint][q.pos] = Stage(q)
        /\ q.pos < HandlerAt(q) /\ HandlerAt(q) \in 1 .. 9
        /\ DOMAIN Chain[q.endpoint] = 1 .. HandlerAt(q) - 1
    BY Stages DEF Guarded
  <1>2. ASSUME q.endpoint \in Timed, NEW i \in DOMAIN Chain[q.endpoint], i <= q.pos
        PROVE  LetPass(p, Chain[q.endpoint][i])
    <2>1. CASE i = q.pos
      BY <1>1, <2>1
    <2>2. CASE i < q.pos
      BY <1>2, <2>2 DEF Guarded, Passed
    <2> QED
      BY <1>1, <1>2, <2>1, <2>2
  <1>3. q.endpoint \notin Continues => q.runs = 0
    BY <1>1 DEF Guarded
  <1> QED
    BY <1>2, <1>3, ProceedGuarded

\* The authentication fails: optionalAuth goes on without a user.
LEMMA AuthFailsGuarded ==
    ASSUME NEW q, Guarded(q, revoked), Stage(q) \in {"auth", "optionalAuth"}, NEW key
    PROVE  Guarded(AuthFails(q, key), revoked)
  <1>1. IsRequest(q) /\ TokenKnown(q, revoked)
    BY DEF Guarded
  <1>2. CASE Stage(q) = "auth"
    BY <1>1, <1>2, ThrownGuarded DEF AuthFails
  <1>3. CASE Stage(q) = "optionalAuth"
    <2>1. LetPass(q, Stage(q)) /\ Stage(q) \in Waits
      BY <1>3 DEF LetPass, Waits
    <2>2. AuthFails(q, key) = Proceed(q)
      BY <1>3 DEF AuthFails
    <2> QED
      BY <1>1, <2>1, <2>2, WaitingGuarded
  <1> QED
    BY <1>2, <1>3

\* The token is verified: the request has a user, and goes on unless the user
\* is not the admin that adminMiddleware asks for.
LEMMA VerifiedGuarded ==
    ASSUME NEW q, Guarded(q, revoked), q.checked, NEW role \in Role
    PROVE  Guarded(Verified(q, role), revoked)
  <1> DEFINE p == [q EXCEPT !.user = role]
  <1>1. /\ IsRequest(p) /\ p.user = role /\ p.endpoint = q.endpoint /\ p.token = q.token
        /\ p.dead = q.dead /\ p.pos = q.pos /\ p.cleared = q.cleared /\ p.runs = q.runs
    BY UserSet DEF Guarded
  <1>2. Verified(q, role) = IF q.endpoint = "admin" /\ role # "admin"
                            THEN Thrown(p, FromKey("FORBIDDEN")) ELSE Proceed(p)
    BY DEF Verified
  <1> HIDE DEF p
  <1>3. TokenKnown(p, revoked)
    BY <1>1 DEF Guarded, TokenKnown
  <1>4. CASE q.endpoint = "admin" /\ role # "admin"
    BY <1>1, <1>2, <1>3, <1>4, ThrownGuarded
  <1>5. CASE ~ (q.endpoint = "admin" /\ role # "admin")
    <2>1. role # None /\ Stage(q) \in {"auth", "optionalAuth"}
      BY PipelineConstantsOK DEF Guarded
    <2>2. LetPass(p, Stage(q)) /\ \A m : LetPass(q, m) => LetPass(p, m)
      BY <1>1, <1>5, <2>1 DEF LetPass
    <2> QED
      BY <1>1, <1>2, <1>3, <1>5, <2>1, <2>2, WaitingGuarded DEF Waits
  <1> QED
    BY <1>4, <1>5

\* The limiter lets the request pass.
LEMMA ClearedGuarded ==
    ASSUME NEW q, Guarded(q, revoked), Stage(q) = "limit"
    PROVE  Guarded(Proceed([q EXCEPT !.cleared = TRUE]), revoked)
  <1> DEFINE p == [q EXCEPT !.cleared = TRUE]
  <1>1. /\ IsRequest(p) /\ p.cleared /\ p.endpoint = q.endpoint /\ p.token = q.token
        /\ p.dead = q.dead /\ p.pos = q.pos /\ p.user = q.user /\ p.runs = q.runs
    BY ClearedSet DEF Guarded
  <1> HIDE DEF p
  <1>2. TokenKnown(p, revoked)
    BY <1>1 DEF Guarded, TokenKnown
  <1>3. LetPass(p, Stage(q)) /\ \A m : LetPass(q, m) => LetPass(p, m)
    BY <1>1 DEF LetPass
  <1>4. Guarded(Proceed(p), revoked)
    BY <1>1, <1>2, <1>3, WaitingGuarded DEF Waits
  <1> QED
    BY <1>4 DEF p

\* A request that comes in runs up to its first await.
LEMMA ReceivedGuarded ==
    ASSUME NEW e \in Endpoint, NEW token \in Token \cup {None}
    PROVE  Guarded(Authenticating(Proceed(Unstarted(e, token))), revoked)
  <1> DEFINE u == Unstarted(e, token)
             q == Proceed(u)
  <1>1. /\ IsRequest(u) /\ TokenKnown(u, revoked) /\ u.endpoint = e /\ u.pos = 0 /\ u.runs = 0
    BY UnstartedGuarded
  <1>2. DOMAIN Chain[u.endpoint] = 1 .. HandlerAt(u) - 1
    BY <1>1, Stages
  <1> HIDE DEF u
  <1>3. Guarded(q, revoked)
    <2>1. \A i \in DOMAIN Chain[u.endpoint] : ~ (i <= u.pos)
      BY <1>1, <1>2
    <2> QED
      BY <1>1, <2>1, ProceedGuarded
  <1> HIDE DEF q
  <1>4. IsRequest(q) /\ TokenKnown(q, revoked)
    BY <1>3 DEF Guarded
  <1>5. CASE Stage(q) = "auth" /\ q.token = None
    <2>1. Authenticating(q) = Thrown(q, FromKey("UNAUTHORIZED"))
      BY <1>5 DEF Authenticating
    <2>2. Guarded(Authenticating(q), revoked)
      BY <1>4, <2>1, ThrownGuarded
    <2> QED
      BY <2>2 DEF q, u
  <1>6. CASE Stage(q) = "optionalAuth" /\ q.token = None
    <2>1. Authenticating(q) = Proceed(q)
      BY <1>6 DEF Authenticating
    <2>2. AuthFails(q, None) = Proceed(q)
      BY <1>6 DEF AuthFails
    <2>3. Guarded(Authenticating(q), revoked)
      BY <1>3, <1>6, <2>1, <2>2, AuthFailsGuarded
    <2> QED
      BY <2>3 DEF q, u
  <1>7. CASE ~ (Stage(q) \in {"auth", "optionalAuth"} /\ q.token = None)
    <2>1. Authenticating(q) = q
      BY <1>7 DEF Authenticating
    <2>2. Guarded(Authenticating(q), revoked)
      BY <1>3, <2>1
    <2> QED
      BY <2>2 DEF q, u
  <1> QED
    BY <1>5, <1>6, <1>7

\* No request is under way at first.
LEMMA InitGuarded == ASSUME PipelineInit PROVE AllGuarded
  <1> DEFINE u == Unstarted("public", None)
  <1>1. req = [r \in Request |-> u] /\ revoked = {}
    BY DEF PipelineInit
  <1>2. "public" \in Endpoint /\ None \in Token \cup {None}
    BY Chains DEF Timed
  <1>3. Guarded(u, revoked)
    <2>1. u = [u EXCEPT !.answer = None]
      <3>1. IsRequest(u)
        BY <1>2, UnstartedGuarded
      <3>2. u.answer = None
        BY DEF Unstarted
      <3> HIDE DEF u
      <3> QED
        BY <3>1, <3>2 DEF IsRequest
    <2> QED
      BY <1>2, <2>1, UnstartedGuarded
  <1> HIDE DEF u
  <1> QED
    BY <1>1, <1>3 DEF AllGuarded

\* Every step keeps the requests guarded.
LEMMA StepGuarded == ASSUME AllGuarded, [PipelineNext]_pipelineVars PROVE AllGuarded'
  <1>0. \A r \in Request : Guarded(req[r], revoked) /\ IsRequest(req[r]) /\ TokenKnown(req[r], revoked)
    BY DEF AllGuarded, Guarded
  <1>1. ASSUME NEW r \in Request, Refuse(r) PROVE AllGuarded'
    <2>1. PICK e \in Timed, s \in Shape : req' = [req EXCEPT ![r] = Ended(Unstarted(e, None), Refusal(s))]
      BY <1>1 DEF Refuse
    <2>2. Unstarted(e, None).endpoint = e /\ e \in Endpoint
      BY Chains DEF Unstarted
    <2>3. Guarded(Ended(Unstarted(e, None), Refusal(s)), revoked)
      BY <2>2, EndedGuarded
    <2> QED
      BY <1>1, <2>1, <2>3, MoveGuarded DEF Refuse
  <1>2. ASSUME NEW r \in Request, Receive(r) PROVE AllGuarded'
    <2>1. PICK e \in Endpoint : \E token \in Credentials(e) :
            req' = [req EXCEPT ![r] = Authenticating(Proceed(Unstarted(e, token)))]
      BY <1>2 DEF Receive
    <2>2. PICK token \in Credentials(e) :
            req' = [req EXCEPT ![r] = Authenticating(Proceed(Unstarted(e, token)))]
      BY <2>1
    <2>3. token \in Token \cup {None}
      BY DEF Credentials
    <2>4. Guarded(Authenticating(Proceed(Unstarted(e, token))), revoked)
      BY <2>3, ReceivedGuarded
    <2> QED
      BY <1>2, <2>2, <2>4, MoveGuarded DEF Receive
  <1>3. ASSUME NEW r \in Request, CheckRevoked(r) PROVE AllGuarded'
    <2>1. Stage(req[r]) \in {"auth", "optionalAuth"} /\ revoked' = revoked
      BY <1>3 DEF CheckRevoked
    <2>2. CASE req[r].token \notin revoked /\ req' = [req EXCEPT ![r].checked = TRUE]
      <3>1. Guarded([req[r] EXCEPT !.checked = TRUE], revoked)
        BY <1>0, <2>1, <2>2, CheckedGuarded
      <3> QED
        BY <2>1, <2>2, <3>1, MoveGuarded
    <2>3. CASE req' = [req EXCEPT ![r] = AuthFails(@, "INVALID_TOKEN")]
      <3>1. Guarded(AuthFails(req[r], "INVALID_TOKEN"), revoked)
        BY <1>0, <2>1, AuthFailsGuarded
      <3> QED
        BY <2>1, <2>3, <3>1, MoveGuarded
    <2> QED
      BY <1>3, <2>2, <2>3 DEF CheckRevoked
  <1>4. ASSUME NEW r \in Request, Verify(r) PROVE AllGuarded'
    <2>1. req[r].checked /\ revoked' = revoked /\ Stage(req[r]) \in {"auth", "optionalAuth"}
      BY <1>0, <1>4 DEF Verify, Guarded
    <2>2. ASSUME NEW role \in Role, req' = [req EXCEPT ![r] = Verified(@, role)]
          PROVE  AllGuarded'
      <3>1. Guarded(Verified(req[r], role), revoked)
        BY <1>0, <2>1, VerifiedGuarded
      <3> QED
        BY <2>1, <2>2, <3>1, MoveGuarded
    <2>3. ASSUME NEW key \in Rejections, req' = [req EXCEPT ![r] = AuthFails(@, key)]
          PROVE  AllGuarded'
      <3>1. Guarded(AuthFails(req[r], key), revoked)
        BY <1>0, <2>1, AuthFailsGuarded
      <3> QED
        BY <2>1, <2>3, <3>1, MoveGuarded
    <2> QED
      BY <1>4, <2>2, <2>3 DEF Verify
  <1>5. ASSUME NEW r \in Request, Limited(r) PROVE AllGuarded'
    <2>1. Stage(req[r]) = "limit" /\ revoked' = revoked
      BY <1>5 DEF Limited
    <2>2. CASE req' = [req EXCEPT ![r] = Proceed([@ EXCEPT !.cleared = TRUE])]
      <3>1. Guarded(Proceed([req[r] EXCEPT !.cleared = TRUE]), revoked)
        BY <1>0, <2>1, ClearedGuarded
      <3> QED
        BY <2>1, <2>2, <3>1, MoveGuarded
    <2>3. ASSUME NEW e, req' = [req EXCEPT ![r] = Thrown(@, e)] PROVE AllGuarded'
      <3>1. Guarded(Thrown(req[r], e), revoked)
        BY <1>0, ThrownGuarded
      <3> QED
        BY <2>1, <2>3, <3>1, MoveGuarded
    <2> QED
      BY <1>5, <2>2, <2>3 DEF Limited
  <1>6. ASSUME NEW r \in Request, Handle(r) PROVE AllGuarded'
    <2>1. revoked' = revoked /\ req[r].endpoint \in Endpoint
      BY <1>0, <1>6 DEF Handle, IsRequest
    <2>2. CASE req' = [req EXCEPT ![r] = Ended(@, [code |-> 0, status |-> 200])]
      <3>1. Guarded(Ended(req[r], [code |-> 0, status |-> 200]), revoked)
        BY <2>1, EndedGuarded
      <3> QED
        BY <2>1, <2>2, <3>1, MoveGuarded
    <2>3. ASSUME NEW e, req' = [req EXCEPT ![r] = Thrown(@, e)] PROVE AllGuarded'
      <3>1. Guarded(Thrown(req[r], e), revoked)
        BY <1>0, ThrownGuarded
      <3> QED
        BY <2>1, <2>3, <3>1, MoveGuarded
    <2> QED
      BY <1>6, <2>2, <2>3 DEF Handle
  <1>7. ASSUME NEW r \in Request, Timeout(r) PROVE AllGuarded'
    <2>1. req' = [req EXCEPT ![r] = [@ EXCEPT !.answer = ChainAnswer(TimeoutError)]]
          /\ revoked' = revoked
      BY <1>7 DEF Timeout
    <2>2. Guarded([req[r] EXCEPT !.answer = ChainAnswer(TimeoutError)], revoked)
      BY <1>0, AnswerGuarded
    <2> QED
      BY <2>1, <2>2, MoveGuarded
  <1>8. ASSUME NEW t \in Token, Revoke(t) PROVE AllGuarded'
    <2>1. req' = req /\ revoked \subseteq revoked' /\ revoked' \subseteq Token
      BY <1>8 DEF Revoke, AllGuarded
    <2>2. \A r \in Request : Guarded(req[r], revoked')
      BY <1>0, <2>1 DEF Guarded, TokenKnown
    <2> QED
      BY <2>1, <2>2 DEF AllGuarded
  <1>9. ASSUME UNCHANGED pipelineVars PROVE AllGuarded'
    BY <1>9 DEF pipelineVars, AllGuarded
  <1> QED
    BY <1>1, <1>2, <1>3, <1>4, <1>5, <1>6, <1>7, <1>8, <1>9 DEF PipelineNext

------------------------------------------------------------------------------
(* The theorems.                                                           *)

\* In every reachable state every request is guarded.
LEMMA AlwaysGuarded == PipelineSpec => []AllGuarded
  BY InitGuarded, StepGuarded, PTL DEF PipelineSpec

\* A handler runs, also after its request has timed out, only behind all the
\* guards of its endpoint: the limiter of a standard wrapper, a verified user
\* whose token was not revoked when the request came, the admin role.
THEOREM HandlersAreGuarded == PipelineSpec => []GuardsHold
  <1>1. AllGuarded => GuardsHold
    <2> SUFFICES ASSUME AllGuarded, NEW r \in Request, Stage(req[r]) = "handler"
                 PROVE  /\ req[r].endpoint \in Timed => req[r].cleared
                        /\ req[r].endpoint \in {"auth", "admin"} => req[r].user # None
                        /\ req[r].endpoint = "admin" => req[r].user = "admin"
                        /\ req[r].user # None => ~req[r].dead
      BY DEF GuardsHold
    <2> DEFINE q == req[r]
    <2>1. IsRequest(q) /\ TokenKnown(q, revoked) /\ Passed(q)
      BY DEF AllGuarded, Guarded
    <2>2. /\ q.pos = HandlerAt(q) /\ HandlerAt(q) \in 1 .. 9
          /\ DOMAIN Chain[q.endpoint] = 1 .. HandlerAt(q) - 1
      BY <2>1, Stages
    <2> HIDE DEF q
    <2>3. \A i \in DOMAIN Chain[q.endpoint] : i < q.pos
      BY <2>2
    <2>4. q.endpoint \in Timed =>
            \A i \in DOMAIN Chain[q.endpoint] : LetPass(q, Chain[q.endpoint][i])
      BY <2>1, <2>3 DEF Passed
    <2>5. q.endpoint \in Timed => q.cleared
      BY <2>4, Chains DEF LetPass
    <2>6. q.endpoint \in {"auth", "admin"} =>
            q.user # None /\ (q.endpoint = "admin" => q.user = "admin")
      <3>1. q.endpoint \in {"auth", "admin"} => q.endpoint \in Timed
        BY DEF Timed
      <3> QED
        BY <2>4, <3>1, Chains DEF LetPass
    <2>7. q.user # None => ~q.dead
      BY <2>1 DEF TokenKnown
    <2> QED
      BY <2>5, <2>6, <2>7 DEF q
  <1> QED
    BY <1>1, AlwaysGuarded, PTL

\* The handler of a request is started once, except where a chain continues on
\* errors.
HandlerOnce == \A r \in Request : req[r].endpoint \notin Continues => req[r].runs <= 1

\* The middlewares of a chain call next() once each, so that its handler is not
\* started twice, whatever times out or fails.
THEOREM HandlersRunOnce == PipelineSpec => []HandlerOnce
  <1>1. AllGuarded => HandlerOnce
    BY DEF AllGuarded, Guarded, HandlerOnce
  <1> QED
    BY <1>1, AlwaysGuarded, PTL

------------------------------------------------------------------------------
(* Frames, handler runs and answers are within their bounds.               *)

\* A frame and a handler run each need a place of the chain that next() has come
\* by: a chain that continues on errors gives up a frame for every further run.
InBounds(q) ==
    /\ q.open \in Nat /\ q.open + q.runs <= q.pos
    /\ q.pos = HandlerAt(q) => q.runs >= 1
    /\ q.endpoint \in Continues /\ q.pos # 0 => q.open >= 1
    /\ q.answer \in AnswerRecord \cup {None}

AllInBounds == \A r \in Request : InBounds(req[r])

\* The numbers of the code table.
LEMMA CodesInRange ==
    ASSUME NEW key \in ErrorKeys
    PROVE  IsCode(Code(key))
  <1>1. \A k \in DOMAIN RequestCodes : IsCode(RequestCodes[k])
    BY SMT DEF RequestCodes, IsCode
  <1>2. \A k \in DOMAIN AccessCodes : IsCode(AccessCodes[k])
    BY SMT DEF AccessCodes, IsCode
  <1>3. \A k \in DOMAIN ServiceCodes : IsCode(ServiceCodes[k])
    BY SMT DEF ServiceCodes, IsCode
  <1> QED
    BY <1>1, <1>2, <1>3, SMT DEF Code, ErrorKeys

\* The keys that the error handlers name are in the table.
LEMMA KeysKnown ==
    /\ {"VALIDATION_ERROR", "BAD_REQUEST", "UNAUTHORIZED", "INVALID_TOKEN", "TOKEN_EXPIRED",
        "PASSWORD_TOO_WEAK", "INVALID_CREDENTIALS"} \subseteq ErrorKeys
    /\ {"FORBIDDEN", "NOT_FOUND", "USER_NOT_FOUND", "CONFLICT", "DUPLICATE_RESOURCE",
        "EMAIL_ALREADY_EXISTS"} \subseteq ErrorKeys
    /\ {"INTERNAL_SERVER_ERROR", "SERVER_ERROR", "DATABASE_ERROR", "RATE_LIMIT_EXCEEDED",
        "EXTERNAL_SERVICE_ERROR", "CACHE_ERROR", "EMAIL_SEND_FAILED", "FILE_UPLOAD_FAILED",
        "BUSINESS_RULE_VIOLATION", "SERVICE_UNAVAILABLE"} \subseteq ErrorKeys
  <1>1. {"VALIDATION_ERROR", "BAD_REQUEST", "UNAUTHORIZED", "INVALID_TOKEN", "TOKEN_EXPIRED",
         "PASSWORD_TOO_WEAK", "INVALID_CREDENTIALS"} \subseteq DOMAIN RequestCodes
    BY SMT DEF RequestCodes
  <1>2. {"FORBIDDEN", "NOT_FOUND", "USER_NOT_FOUND", "CONFLICT", "DUPLICATE_RESOURCE",
         "EMAIL_ALREADY_EXISTS"} \subseteq DOMAIN AccessCodes
    BY SMT DEF AccessCodes
  <1>3. {"INTERNAL_SERVER_ERROR", "SERVER_ERROR", "DATABASE_ERROR", "RATE_LIMIT_EXCEEDED",
         "EXTERNAL_SERVICE_ERROR", "CACHE_ERROR", "EMAIL_SEND_FAILED", "FILE_UPLOAD_FAILED",
         "BUSINESS_RULE_VIOLATION", "SERVICE_UNAVAILABLE"} \subseteq DOMAIN ServiceCodes
    BY SMT DEF ServiceCodes
  <1> QED
    BY <1>1, <1>2, <1>3, SMT DEF ErrorKeys

LEMMA AuthKeysKnown ==
    ASSUME NEW key \in DOMAIN AuthErrorCodeMap
    PROVE  AuthErrorCodeMap[key] \in ErrorKeys
  <1>1. AuthErrorCodeMap[key] \in
          {"TOKEN_EXPIRED", "INVALID_TOKEN", "SERVER_ERROR", "EXTERNAL_SERVICE_ERROR",
           "PASSWORD_TOO_WEAK", "EMAIL_SEND_FAILED", "INVALID_CREDENTIALS", "USER_NOT_FOUND",
           "EMAIL_ALREADY_EXISTS", "UNAUTHORIZED"}
    BY SMT DEF AuthErrorCodeMap
  <1> QED
    BY <1>1, KeysKnown, SMT

\* The codes that Prisma errors map to.
LEMMA PrismaCodesInRange ==
    ASSUME NEW e
    PROVE  IsCode(PrismaAnswerCode(e)) /\ IsCode(ClassifyPrismaError(e))
  <1>1. \A k \in DOMAIN PrismaErrorMap : IsCode(PrismaErrorMap[k])
    BY SMT DEF PrismaErrorMap, IsCode
  <1>2. IsCode(Code("VALIDATION_ERROR")) /\ IsCode(Code("DATABASE_ERROR"))
    BY KeysKnown, CodesInRange, SMT
  <1>3. IsCode(PrismaAnswerCode(e))
    BY <1>1, <1>2, SMT DEF PrismaAnswerCode
  <1> QED
    BY <1>2, <1>3, SMT DEF ClassifyPrismaError

\* The first rule that applies is one of the rules.
LEMMA FirstRuleKnown ==
    ASSUME NEW e
    PROVE  FirstRule(WordRules, e) \in ErrorKeys /\ FirstRule(ProcessRules, e) \in ErrorKeys
  <1>1. ASSUME NEW rules, DOMAIN rules \subseteq 1 .. 9,
               \A i \in DOMAIN rules : rules[i][2] \in ErrorKeys
        PROVE  FirstRule(rules, e) \in ErrorKeys
    <2> DEFINE hits == {i \in DOMAIN rules : rules[i][1] \cap e.words # {}}
               first == CHOOSE i \in hits : \A j \in hits : i <= j
    <2>1. FirstRule(rules, e) = IF hits = {} THEN "SERVER_ERROR" ELSE rules[first][2]
      BY SMT DEF FirstRule
    <2>2. hits # {} => first \in hits
      <3>1. hits \in SUBSET (1 .. 9)
        BY <1>1, SMT
      <3>2. hits # {} => \E i \in hits : \A j \in hits : i <= j
        <4> HIDE DEF hits
        <4>1. hits # {} => Min(hits) \in hits /\ \A j \in hits : Min(hits) <= j
          BY <3>1, LeastPosition
        <4> QED
          BY <4>1
      <3> HIDE DEF hits
      <3> QED
        BY <3>2, SMT DEF first
    <2>3. hits # {} => first \in DOMAIN rules
      BY <2>2, SMT
    <2> HIDE DEF hits, first
    <2> QED
      BY <1>1, <2>1, <2>3, KeysKnown, SMT
  <1>2. DOMAIN WordRules = 1 .. 9
        /\ \A i \in 1 .. 9 : WordRules[i][2] \in
             {"NOT_FOUND", "UNAUTHORIZED", "FORBIDDEN", "RATE_LIMIT_EXCEEDED", "DATABASE_ERROR",
              "EXTERNAL_SERVICE_ERROR", "CACHE_ERROR", "EMAIL_SEND_FAILED", "FILE_UPLOAD_FAILED"}
    BY SMT DEF WordRules
  <1>3. DOMAIN ProcessRules = 1 .. 3
        /\ \A i \in 1 .. 3 : ProcessRules[i][2] \in {"DUPLICATE_RESOURCE", "NOT_FOUND", "UNAUTHORIZED"}
    BY SMT DEF ProcessRules
  <1>4. FirstRule(WordRules, e) \in ErrorKeys
    BY <1>1, <1>2, KeysKnown, SMT
  <1>5. FirstRule(ProcessRules, e) \in ErrorKeys
    BY <1>1, <1>3, KeysKnown, SMT
  <1> QED
    BY <1>4, <1>5

LEMMA ClassifiedInRange ==
    ASSUME NEW e
    PROVE  IsCode(ClassifyError(e))
  BY PrismaCodesInRange, FirstRuleKnown, CodesInRange, SMT DEF ClassifyError

LEMMA AnswersAreRecords ==
    ASSUME NEW code, IsCode(code), NEW status
    PROVE  Answer(code, status) \in AnswerRecord
  BY SMT DEF Answer, AnswerRecord, IsCode

\* Whatever the program throws, each of the three error paths gives an answer.
LEMMA ErrorsAreAnswered ==
    ASSUME NEW e, Constructed(e)
    PROVE  /\ ChainAnswer(e) \in AnswerRecord /\ HandlerAnswer(e) \in AnswerRecord
           /\ ProcessorAnswer(e) \in AnswerRecord
  <1>1. \A key \in {"VALIDATION_ERROR", "INTERNAL_SERVER_ERROR", "SERVER_ERROR", "UNAUTHORIZED",
                    "BAD_REQUEST"} : IsCode(Code(key))
    BY CodesInRange, KeysKnown, SMT
  <1>2. e.class = "AppError" => IsCode(e.code)
    BY DEF Constructed
  <1>3. \A key \in DOMAIN AuthErrorCodeMap : IsCode(Code(AuthErrorCodeMap[key]))
    BY CodesInRange, AuthKeysKnown
  <1>4. IsCode(PrismaAnswerCode(e)) /\ IsCode(ClassifyError(e)) /\ IsCode(AuthFallback(e))
        /\ IsCode(Code(FirstRule(ProcessRules, e)))
    BY <1>1, CodesInRange, PrismaCodesInRange, ClassifiedInRange, FirstRuleKnown, SMT DEF AuthFallback
  <1>5. ChainAnswer(e) \in AnswerRecord
    <2> DEFINE code == CASE e.class = "AppError" -> e.code
                  [] e.class = "ZodError" -> Code("VALIDATION_ERROR")
                  [] e.class = "AuthError" /\ e.key \in DOMAIN AuthErrorCodeMap ->
                         Code(AuthErrorCodeMap[e.key])
                  [] e.class = "AuthError" /\ e.key \notin DOMAIN AuthErrorCodeMap -> AuthFallback(e)
                  [] e.class = "value" -> Code("INTERNAL_SERVER_ERROR")
                  [] OTHER -> ClassifyError(e)
    <2>1. IsCode(code)
      BY <1>1, <1>2, <1>3, <1>4, SMT
    <2>2. ChainAnswer(e) = Answer(code, HttpStatus(code))
      BY DEF ChainAnswer
    <2> HIDE DEF code
    <2> QED
      BY <2>1, <2>2, AnswersAreRecords
  <1>6. HandlerAnswer(e) \in AnswerRecord
    <2> DEFINE code == IF IsPrisma(e) THEN PrismaAnswerCode(e) ELSE ClassifyError(e)
    <2>1. IsCode(code)
      BY <1>4, SMT
    <2>2. HandlerAnswer(e) =
            CASE e.class = "AppError" -> Answer(e.code, HttpStatus(e.code))
              [] e.class = "ZodError" -> Answer(Code("VALIDATION_ERROR"), 400)
              [] e.class = "AuthError" /\ e.key \in DOMAIN AuthErrorCodeMap ->
                   Answer(Code(AuthErrorCodeMap[e.key]), HttpStatus(Code(AuthErrorCodeMap[e.key])))
              [] e.class = "AuthError" /\ e.key \notin DOMAIN AuthErrorCodeMap ->
                   Answer(AuthFallback(e), e.statusCode)
              [] e.class = "value" -> Answer(Code("INTERNAL_SERVER_ERROR"), 500)
              [] OTHER -> Answer(code, HttpStatus(code))
      BY DEF HandlerAnswer
    <2> HIDE DEF code
    <2>3. /\ e.class = "AppError" => Answer(e.code, HttpStatus(e.code)) \in AnswerRecord
          /\ Answer(Code("VALIDATION_ERROR"), 400) \in AnswerRecord
          /\ e.key \in DOMAIN AuthErrorCodeMap =>
               Answer(Code(AuthErrorCodeMap[e.key]), HttpStatus(Code(AuthErrorCodeMap[e.key])))
                 \in AnswerRecord
          /\ Answer(AuthFallback(e), e.statusCode) \in AnswerRecord
          /\ Answer(Code("INTERNAL_SERVER_ERROR"), 500) \in AnswerRecord
          /\ Answer(code, HttpStatus(code)) \in AnswerRecord
      BY <1>1, <1>2, <1>3, <1>4, <2>1, AnswersAreRecords, SMT
    <2> QED
      BY <2>2, <2>3, SMT
  <1>7. ProcessorAnswer(e) \in AnswerRecord
    <2>1. ProcessError(e) \in AnswerRecord
      <3> DEFINE code == IF e.class = "AppError" THEN e.code
                         ELSE IF IsPrisma(e) THEN PrismaAnswerCode(e)
                         ELSE Code(FirstRule(ProcessRules, e))
      <3>1. IsCode(code)
        BY <1>2, <1>4, SMT
      <3>2. ProcessError(e) = Answer(code, HttpStatus(code))
        BY DEF ProcessError
      <3> HIDE DEF code
      <3> QED
        BY <3>1, <3>2, AnswersAreRecords
    <2>2. Answer(Code("VALIDATION_ERROR"), 400) \in AnswerRecord
          /\ Answer(Code("SERVER_ERROR"), 500) \in AnswerRecord
      BY <1>1, AnswersAreRecords, SMT
    <2> QED
      BY <2>1, <2>2, SMT DEF ProcessorAnswer, IsError
  <1> QED
    BY <1>5, <1>6, <1>7

\* next() from q, which gave up a frame if it was in the handler.
LEMMA ProceedInBounds ==
    ASSUME NEW q, IsRequest(q), q.open \in Nat, q.open + q.runs <= q.pos,
           q.pos = HandlerAt(q) => q.open + q.runs + 1 <= q.pos,
           q.endpoint \in Continues /\ q.pos # 0 => q.open >= 1,
           q.answer \in AnswerRecord \cup {None}
    PROVE  InBounds(Proceed(q))
  <1> DEFINE stops == {i \in DOMAIN Chain[q.endpoint] : i > q.pos /\ Chain[q.endpoint][i] \in Waits}
             to == Min(stops \cup {HandlerAt(q)})
             entered == {i \in DOMAIN Chain[q.endpoint] : q.pos < i /\ i <= to}
             n == Cardinality(entered)
             p == Proceed(q)
             h == HandlerAt(q)
  <1>1. h \in 1 .. 9 /\ DOMAIN Chain[q.endpoint] = 1 .. h - 1
    BY Stages
  <1>2. q.pos \in Nat /\ q.runs \in Nat /\ q.pos <= h
    BY DEF IsRequest
  <1>3. to \in stops \cup {h} /\ \A j \in stops \cup {h} : to <= j
    <2>1. stops \cup {h} \in SUBSET (1 .. 9)
      BY <1>1
    <2> HIDE DEF stops, h
    <2> QED
      BY <2>1, LeastPosition DEF h
  <1>4. p = [q EXCEPT !.pos = to, !.checked = FALSE, !.open = @ + n,
                      !.runs = IF to = h THEN @ + 1 ELSE @]
    BY DEF Proceed
  <1> HIDE DEF to, n, h
  <1>5. /\ p.pos = to /\ p.open = q.open + n /\ p.endpoint = q.endpoint /\ p.answer = q.answer
        /\ p.runs = IF to = h THEN q.runs + 1 ELSE q.runs
    BY <1>4 DEF IsRequest
  <1>6. HandlerAt(p) = h
    BY <1>5 DEF HandlerAt, h
  <1> HIDE DEF p
  <1>7. to \in Nat /\ to <= h /\ to >= 1 /\ (q.pos < h => q.pos < to) /\ (q.pos = h => to = h)
    BY <1>1, <1>2, <1>3
  <1>8. /\ n \in Nat
        /\ to < h => n <= to - q.pos
        /\ to = h /\ q.pos < h => n <= h - 1 - q.pos
        /\ q.pos = h => n = 0
        /\ q.endpoint \in Continues /\ q.pos = 0 => n >= 1
    <2> DEFINE first == q.pos + 1
               last == IF to < h THEN to ELSE h - 1
    <2>0. first \in Int /\ first = q.pos + 1
      BY <1>2
    <2>1. last \in Int /\ h \in Nat
      BY <1>1, <1>7
    <2>2. entered \subseteq first .. last
      BY <1>1, <1>2, <1>7
    <2> HIDE DEF first, last, entered
    <2>3. /\ IsFiniteSet(first .. last)
          /\ Cardinality(first .. last) = IF first > last THEN 0 ELSE last - first + 1
      BY <2>0, <2>1, FS_Interval
    <2>4. IsFiniteSet(entered) /\ n <= Cardinality(first .. last)
      BY <2>2, <2>3, FS_Subset DEF n
    <2>5. n \in Nat
      BY <2>4, FS_CardinalityType DEF n
    <2>6. n <= IF first > last THEN 0 ELSE last - first + 1
      BY <2>3, <2>4
    <2>7. ASSUME q.endpoint \in Continues, q.pos = 0
          PROVE  n >= 1
      <3>1. h > 1
        <4>1. \E i \in DOMAIN Chain[q.endpoint] : TRUE
          BY <2>7 DEF Continues, Chain
        <4> QED
          BY <1>1, <4>1
      <3>2. 1 \in entered
        BY <1>1, <1>7, <2>7, <3>1 DEF entered
      <3>3. n # 0
        BY <2>4, <3>2, FS_EmptySet DEF n
      <3> QED
        BY <2>5, <3>3
    <2>8. CASE to < h
      <3>1. last = to /\ q.pos < h /\ q.pos < to
        BY <1>1, <1>2, <1>7, <2>8 DEF last
      <3> QED
        BY <1>2, <1>7, <2>0, <2>5, <2>6, <2>7, <2>8, <3>1
    <2>9. CASE to = h
      <3>1. last = h - 1
        BY <1>7, <2>1, <2>9 DEF last
      <3> QED
        BY <1>1, <1>2, <1>7, <2>0, <2>1, <2>5, <2>6, <2>7, <2>9, <3>1
    <2> QED
      BY <1>1, <1>7, <2>8, <2>9
  <1>9. p.open \in Nat
    BY <1>5, <1>8
  <1>10. p.open + p.runs <= p.pos
    <2>1. CASE to < h
      <3>1. q.pos < to \/ q.pos = h
        BY <1>1, <1>2, <1>7
      <3> QED
        BY <1>1, <1>2, <1>5, <1>7, <1>8, <2>1, <3>1
    <2>2. CASE to = h /\ q.pos < h
      BY <1>1, <1>2, <1>5, <1>7, <1>8, <2>2
    <2>3. CASE q.pos = h
      BY <1>1, <1>2, <1>5, <1>7, <1>8, <2>3 DEF h
    <2> QED
      BY <1>1, <1>2, <1>7, <2>1, <2>2, <2>3
  <1>11. p.pos = h => p.runs >= 1
    BY <1>2, <1>5
  <1>12. p.endpoint \in Continues => p.open >= 1
    BY <1>2, <1>5, <1>8
  <1>13. InBounds(p)
    BY <1>5, <1>6, <1>9, <1>10, <1>11, <1>12 DEF InBounds
  <1> QED
    BY <1>13 DEF p

\* A place where nothing runs.
LEMMA UnstartedInBounds ==
    ASSUME NEW e \in Endpoint, NEW token \in Token \cup {None},
           NEW answer \in AnswerRecord \cup {None}
    PROVE  InBounds([Unstarted(e, token) EXCEPT !.answer = answer])
  <1> DEFINE p == [Unstarted(e, token) EXCEPT !.answer = answer]
  <1>1. p.open = 0 /\ p.runs = 0 /\ p.pos = 0 /\ p.answer = answer
    BY DEF Unstarted
  <1>2. IsRequest(p)
    BY UnstartedGuarded DEF Guarded
  <1>3. HandlerAt(p) \in 1 .. 9
    BY <1>2, Stages
  <1> HIDE DEF p
  <1>4. InBounds(p)
    BY <1>1, <1>3 DEF InBounds
  <1> QED
    BY <1>4 DEF p

LEMMA EndedInBounds ==
    ASSUME NEW q, q.endpoint \in Endpoint, q.answer \in AnswerRecord \cup {None},
           NEW answer \in AnswerRecord \cup {None}
    PROVE  InBounds(Ended(q, answer))
  <1> DEFINE a == IF q.answer = None THEN answer ELSE q.answer
  <1>1. Ended(q, answer) = [Unstarted(q.endpoint, None) EXCEPT !.answer = a]
    BY DEF Ended
  <1>2. a \in AnswerRecord \cup {None}
    OBVIOUS
  <1> HIDE DEF a
  <1> QED
    BY <1>1, <1>2, UnstartedInBounds

\* An error gives up a frame before next() goes on.
LEMMA ThrownInBounds ==
    ASSUME NEW q, IsRequest(q), InBounds(q), NEW e, Constructed(e)
    PROVE  InBounds(Thrown(q, e))
  <1>0. /\ q.open \in Nat /\ q.runs \in Nat /\ q.pos \in Nat /\ q.endpoint \in Endpoint
        /\ q.open + q.runs <= q.pos /\ q.answer \in AnswerRecord \cup {None}
    BY DEF IsRequest, InBounds
  <1>1. CASE q.endpoint \in Continues /\ q.open > 1
    <2> DEFINE p == [q EXCEPT !.open = @ - 1]
    <2>1. /\ IsRequest(p) /\ p.endpoint = q.endpoint /\ p.open = q.open - 1
          /\ p.runs = q.runs /\ p.pos = q.pos /\ p.answer = q.answer
      BY DEF IsRequest, HandlerAt
    <2>2. Thrown(q, e) = Proceed(p)
      BY <1>1 DEF Thrown
    <2> HIDE DEF p
    <2>3. /\ p.open \in Nat /\ p.open + p.runs + 1 <= p.pos /\ p.open + p.runs <= p.pos
          /\ p.open >= 1
      BY <1>0, <1>1, <2>1
    <2> QED
      BY <1>0, <2>1, <2>2, <2>3, ProceedInBounds
  <1>2. CASE ~ (q.endpoint \in Continues /\ q.open > 1)
    <2>1. Thrown(q, e) = Ended(q, ErrorAnswer(q, e))
      BY <1>2 DEF Thrown
    <2>2. ErrorAnswer(q, e) \in AnswerRecord
      BY ErrorsAreAnswered DEF ErrorAnswer
    <2> QED
      BY <1>0, <2>1, <2>2, EndedInBounds
  <1> QED
    BY <1>1, <1>2

\* next() from a middleware that waits.
LEMMA WaitingInBounds ==
    ASSUME NEW q, IsRequest(q), InBounds(q), Stage(q) \in Waits
    PROVE  InBounds(Proceed(q))
  <1>1. q.pos \in DOMAIN Chain[q.endpoint] /\ q.pos < HandlerAt(q)
        /\ HandlerAt(q) \in 1 .. 9 /\ DOMAIN Chain[q.endpoint] = 1 .. HandlerAt(q) - 1
    BY Stages
  <1>2. q.pos # HandlerAt(q)
    BY <1>1
  <1> QED
    BY <1>2, ProceedInBounds DEF InBounds

\* Fields that the bounds do not look at.
LEMMA OtherFieldSet ==
    ASSUME NEW q, IsRequest(q), InBounds(q), NEW p, p.endpoint = q.endpoint, p.pos = q.pos,
           p.open = q.open, p.runs = q.runs, p.answer \in AnswerRecord \cup {None}
    PROVE  InBounds(p)
  BY DEF InBounds, HandlerAt

LEMMA FromKeyConstructed ==
    ASSUME NEW key \in ErrorKeys
    PROVE  Constructed(FromKey(key))
  <1> DEFINE code == Code(key)
             mended == IF IsCode(code) THEN code ELSE Code("INTERNAL_SERVER_ERROR")
  <1>1. IsCode(code)
    BY CodesInRange
  <1>2. FromKey(key) = Exception("AppError", mended, NoKey, 0, NoKey, {})
    BY DEF FromKey, AppError
  <1> HIDE DEF code
  <1>3. mended = code
    BY <1>1
  <1> HIDE DEF mended
  <1>4. FromKey(key).code = mended
    BY <1>2 DEF Exception
  <1> QED
    BY <1>1, <1>3, <1>4 DEF Constructed

LEMMA AuthFailsInBounds ==
    ASSUME NEW q, IsRequest(q), InBounds(q), Stage(q) \in {"auth", "optionalAuth"},
           NEW key \in ErrorKeys
    PROVE  InBounds(AuthFails(q, key))
  <1>1. InBounds(Thrown(q, FromKey(key)))
    BY FromKeyConstructed, ThrownInBounds
  <1>2. InBounds(Proceed(q))
    BY WaitingInBounds DEF Waits
  <1> QED
    BY <1>1, <1>2 DEF AuthFails

LEMMA VerifiedInBounds ==
    ASSUME NEW q, IsRequest(q), InBounds(q), Stage(q) \in {"auth", "optionalAuth"},
           NEW role \in Role
    PROVE  InBounds(Verified(q, role))
  <1> DEFINE p == [q EXCEPT !.user = role]
  <1>1. /\ IsRequest(p) /\ p.endpoint = q.endpoint /\ p.pos = q.pos /\ p.runs = q.runs
        /\ p.answer = q.answer
    BY UserSet
  <1>2. p.open = q.open
    BY DEF IsRequest
  <1>3. Verified(q, role) = IF q.endpoint = "admin" /\ role # "admin"
                            THEN Thrown(p, FromKey("FORBIDDEN")) ELSE Proceed(p)
    BY DEF Verified
  <1> HIDE DEF p
  <1>4. InBounds(p)
    BY <1>1, <1>2, OtherFieldSet DEF InBounds
  <1>5. Stage(p) = Stage(q)
    BY <1>1 DEF Stage, HandlerAt
  <1>6. InBounds(Proceed(p))
    BY <1>1, <1>4, <1>5, WaitingInBounds DEF Waits
  <1>7. InBounds(Thrown(p, FromKey("FORBIDDEN")))
    BY <1>1, <1>4, KeysKnown, FromKeyConstructed, ThrownInBounds
  <1> QED
    BY <1>3, <1>6, <1>7

LEMMA ClearedInBounds ==
    ASSUME NEW q, IsRequest(q), InBounds(q), Stage(q) = "limit"
    PROVE  InBounds(Proceed([q EXCEPT !.cleared = TRUE]))
  <1> DEFINE p == [q EXCEPT !.cleared = TRUE]
  <1>1. /\ IsRequest(p) /\ p.endpoint = q.endpoint /\ p.pos = q.pos /\ p.runs = q.runs
        /\ p.answer = q.answer
    BY ClearedSet
  <1>2. p.open = q.open
    BY DEF IsRequest
  <1> HIDE DEF p
  <1>3. InBounds(p)
    BY <1>1, <1>2, OtherFieldSet DEF InBounds
  <1>4. Stage(p) \in Waits
    BY <1>1 DEF Stage, HandlerAt, Waits
  <1>5. InBounds(Proceed(p))
    BY <1>1, <1>3, <1>4, WaitingInBounds
  <1> QED
    BY <1>5 DEF p

LEMMA ReceivedInBounds ==
    ASSUME NEW e \in Endpoint, NEW token \in Token \cup {None}
    PROVE  InBounds(Authenticating(Proceed(Unstarted(e, token))))
  <1> DEFINE u == Unstarted(e, token)
             q == Proceed(u)
  <1>1. IsRequest(u) /\ u.pos = 0 /\ u.runs = 0
    BY UnstartedGuarded
  <1>2. u.open = 0 /\ u.answer = None
    BY DEF Unstarted
  <1>3. HandlerAt(u) \in 1 .. 9
    BY <1>1, Stages
  <1> HIDE DEF u
  <1>a. /\ u.open \in Nat /\ u.open + u.runs <= u.pos /\ u.pos # HandlerAt(u)
        /\ u.answer \in AnswerRecord \cup {None}
    BY <1>1, <1>2, <1>3
  <1>b. IsRequest(q)
    BY <1>1, ProceedStops
  <1>c. InBounds(q)
    BY <1>1, <1>a, ProceedInBounds
  <1>4. IsRequest(q) /\ InBounds(q)
    BY <1>b, <1>c
  <1> HIDE DEF q
  <1>5. InBounds(Thrown(q, FromKey("UNAUTHORIZED")))
    BY <1>4, KeysKnown, FromKeyConstructed, ThrownInBounds
  <1>6. Stage(q) = "optionalAuth" => InBounds(Proceed(q))
    BY <1>4, WaitingInBounds DEF Waits
  <1>7. InBounds(Authenticating(q))
    BY <1>4, <1>5, <1>6 DEF Authenticating
  <1> QED
    BY <1>7 DEF q, u

\* The answers that the standard wrappers give at once.
LEMMA RefusalIsAnswer ==
    ASSUME NEW s
    PROVE  Refusal(s) \in AnswerRecord \cup {None}
  <1>1. \A status : /\ Answer(40500, status) \in AnswerRecord /\ Answer(41500, status) \in AnswerRecord
                    /\ Answer(41501, status) \in AnswerRecord /\ Answer(40300, status) \in AnswerRecord
    <2>1. IsCode(40500) /\ IsCode(41500) /\ IsCode(41501) /\ IsCode(40300)
      BY DEF IsCode
    <2> QED
      BY <2>1, AnswersAreRecords
  <1>2. [code |-> 0, status |-> 204] \in AnswerRecord
    BY DEF AnswerRecord
  <1> QED
    BY <1>1, <1>2, SMT DEF Refusal

LEMMA MoveInBounds ==
    ASSUME AllGuarded, AllInBounds, NEW r \in Request, NEW p, InBounds(p),
           req' = [req EXCEPT ![r] = p]
    PROVE  AllInBounds'
  <1>1. req'[r] = p /\ \A s \in Request \ {r} : req'[s] = req[s]
    BY DEF AllGuarded
  <1>2. \A s \in Request : InBounds(req'[s])
    BY <1>1 DEF AllInBounds
  <1> QED
    BY <1>2 DEF AllInBounds

LEMMA StepInBounds ==
    ASSUME AllGuarded, AllInBounds, [PipelineNext]_pipelineVars
    PROVE  AllInBounds'
  <1>0. \A r \in Request :
          IsRequest(req[r]) /\ InBounds(req[r]) /\ req[r].endpoint \in Endpoint
          /\ (req[r].checked => Stage(req[r]) \in {"auth", "optionalAuth"})
    BY DEF AllGuarded, Guarded, AllInBounds, IsRequest
  <1>1. ASSUME NEW r \in Request, Refuse(r) PROVE AllInBounds'
    <2>1. PICK e \in Timed, s \in Shape : req' = [req EXCEPT ![r] = Ended(Unstarted(e, None), Refusal(s))]
      BY <1>1 DEF Refuse
    <2>2. Unstarted(e, None).endpoint = e /\ Unstarted(e, None).answer = None /\ e \in Endpoint
      BY Chains DEF Unstarted
    <2>3. InBounds(Ended(Unstarted(e, None), Refusal(s)))
      BY <2>2, RefusalIsAnswer, EndedInBounds
    <2> QED
      BY <2>1, <2>3, MoveInBounds
  <1>2. ASSUME NEW r \in Request, Receive(r) PROVE AllInBounds'
    <2>1. PICK e \in Endpoint : \E token \in Credentials(e) :
            req' = [req EXCEPT ![r] = Authenticating(Proceed(Unstarted(e, token)))]
      BY <1>2 DEF Receive
    <2>2. PICK token \in Credentials(e) :
            req' = [req EXCEPT ![r] = Authenticating(Proceed(Unstarted(e, token)))]
      BY <2>1
    <2>3. token \in Token \cup {None}
      BY DEF Credentials
    <2> QED
      BY <2>2, <2>3, ReceivedInBounds, MoveInBounds
  <1>3. ASSUME NEW r \in Request, CheckRevoked(r) PROVE AllInBounds'
    <2>1. Stage(req[r]) \in {"auth", "optionalAuth"}
      BY <1>3 DEF CheckRevoked
    <2>2. CASE req' = [req EXCEPT ![r].checked = TRUE]
      <3> DEFINE p == [req[r] EXCEPT !.checked = TRUE]
      <3>1. p.endpoint = req[r].endpoint /\ p.pos = req[r].pos /\ p.runs = req[r].runs
            /\ p.answer = req[r].answer
        BY <1>0, CheckedSet
      <3>2. p.open = req[r].open
        BY <1>0 DEF IsRequest
      <3>3. req' = [req EXCEPT ![r] = p]
        BY <2>2
      <3> HIDE DEF p
      <3>4. InBounds(p)
        BY <1>0, <3>1, <3>2, OtherFieldSet DEF InBounds
      <3> QED
        BY <3>3, <3>4, MoveInBounds
    <2>3. CASE req' = [req EXCEPT ![r] = AuthFails(@, "INVALID_TOKEN")]
      <3>1. InBounds(AuthFails(req[r], "INVALID_TOKEN"))
        BY <1>0, <2>1, KeysKnown, AuthFailsInBounds
      <3> QED
        BY <2>3, <3>1, MoveInBounds
    <2> QED
      BY <1>3, <2>2, <2>3 DEF CheckRevoked
  <1>4. ASSUME NEW r \in Request, Verify(r) PROVE AllInBounds'
    <2>1. Stage(req[r]) \in {"auth", "optionalAuth"}
      BY <1>0, <1>4 DEF Verify
    <2>2. ASSUME NEW role \in Role, req' = [req EXCEPT ![r] = Verified(@, role)]
          PROVE  AllInBounds'
      BY <1>0, <2>1, <2>2, VerifiedInBounds, MoveInBounds
    <2>3. ASSUME NEW key \in Rejections, req' = [req EXCEPT ![r] = AuthFails(@, key)]
          PROVE  AllInBounds'
      <3>1. key \in ErrorKeys
        BY KeysKnown DEF Rejections
      <3> QED
        BY <1>0, <2>1, <2>3, <3>1, AuthFailsInBounds, MoveInBounds
    <2> QED
      BY <1>4, <2>2, <2>3 DEF Verify
  <1>5. ASSUME NEW r \in Request, Limited(r) PROVE AllInBounds'
    <2>1. Stage(req[r]) = "limit"
      BY <1>5 DEF Limited
    <2>2. CASE req' = [req EXCEPT ![r] = Proceed([@ EXCEPT !.cleared = TRUE])]
      BY <1>0, <2>1, <2>2, ClearedInBounds, MoveInBounds
    <2>3. ASSUME NEW e \in {FromKey("RATE_LIMIT_EXCEEDED")} \cup LimiterErrors,
                 req' = [req EXCEPT ![r] = Thrown(@, e)]
          PROVE  AllInBounds'
      <3>1. Constructed(e)
        BY KeysKnown, FromKeyConstructed, PipelineConstantsOK DEF PipelineConstantsOK
      <3> QED
        BY <1>0, <2>3, <3>1, ThrownInBounds, MoveInBounds
    <2> QED
      BY <1>5, <2>2, <2>3 DEF Limited
  <1>6. ASSUME NEW r \in Request, Handle(r) PROVE AllInBounds'
    <2>1. CASE req' = [req EXCEPT ![r] = Ended(@, [code |-> 0, status |-> 200])]
      <3>1. [code |-> 0, status |-> 200] \in AnswerRecord
        BY DEF AnswerRecord
      <3>2. InBounds(Ended(req[r], [code |-> 0, status |-> 200]))
        BY <1>0, <3>1, EndedInBounds DEF InBounds
      <3> QED
        BY <2>1, <3>2, MoveInBounds
    <2>2. ASSUME NEW e \in HandlerErrors, req' = [req EXCEPT ![r] = Thrown(@, e)]
          PROVE  AllInBounds'
      <3>1. Constructed(e)
        BY PipelineConstantsOK DEF PipelineConstantsOK
      <3> QED
        BY <1>0, <2>2, <3>1, ThrownInBounds, MoveInBounds
    <2> QED
      BY <1>6, <2>1, <2>2 DEF Handle
  <1>7. ASSUME NEW r \in Request, Timeout(r) PROVE AllInBounds'
    <2> DEFINE answer == ChainAnswer(TimeoutError)
               p == [req[r] EXCEPT !.answer = answer]
    <2>1. req' = [req EXCEPT ![r] = p]
      BY <1>7 DEF Timeout
    <2>2. answer \in AnswerRecord
      <3>1. Constructed(TimeoutError)
        BY DEF Constructed, TimeoutError, Exception
      <3> QED
        BY <3>1, ErrorsAreAnswered
    <2> HIDE DEF answer
    <2>3. p.endpoint = req[r].endpoint /\ p.pos = req[r].pos /\ p.runs = req[r].runs
          /\ p.answer = answer
      BY <1>0, AnswerSet
    <2>4. p.open = req[r].open
      BY <1>0 DEF IsRequest
    <2> HIDE DEF p
    <2>5. InBounds(p)
      BY <1>0, <2>2, <2>3, <2>4, OtherFieldSet
    <2> QED
      BY <2>1, <2>5, MoveInBounds
  <1>8. ASSUME UNCHANGED req PROVE AllInBounds'
    BY <1>8 DEF AllInBounds
  <1> QED
    BY <1>1, <1>2, <1>3, <1>4, <1>5, <1>6, <1>7, <1>8 DEF PipelineNext, Revoke, pipelineVars

LEMMA InitInBounds == ASSUME PipelineInit PROVE AllInBounds
  <1>1. "public" \in Endpoint
    BY Chains DEF Timed
  <1>2. ASSUME NEW r \in Request PROVE InBounds(req[r])
    <2> DEFINE u == Unstarted("public", None)
    <2>1. req[r] = u
      BY DEF PipelineInit
    <2>2. IsRequest(u)
      BY <1>1, UnstartedGuarded
    <2>3. u.open = 0 /\ u.runs = 0 /\ u.pos = 0 /\ u.answer = None
      BY DEF Unstarted
    <2>4. HandlerAt(u) \in 1 .. 9
      BY <2>2, Stages
    <2> HIDE DEF u
    <2> QED
      BY <2>1, <2>3, <2>4 DEF InBounds
  <1> QED
    BY <1>2 DEF AllInBounds

\* For any number of requests and anything that is thrown: no request has more middlewares
\* entered than its chain has, none starts its handler more often than the chain allows,
\* every answer has a code and a status, and the guards hold.
THEOREM RequestsInBounds == PipelineSpec => []PipelineInv
  <1>1. AllGuarded /\ AllInBounds => PipelineTypeOK
    <2> SUFFICES ASSUME AllGuarded, AllInBounds PROVE PipelineTypeOK
      OBVIOUS
    <2>1. ASSUME NEW r \in Request
          PROVE  LET q == req[r] IN
            /\ q.endpoint \in Endpoint
            /\ q.token \in Token \cup {None} /\ q.user \in Role \cup {None}
            /\ q.pos \in 0 .. HandlerAt(q)
            /\ q.dead \in BOOLEAN /\ q.checked \in BOOLEAN /\ q.cleared \in BOOLEAN
            /\ q.open \in 0 .. Len(Chain[q.endpoint])
            /\ q.runs \in 0 .. (IF q.endpoint \in Continues THEN Len(Chain[q.endpoint]) ELSE 1)
            /\ q.answer \in AnswerRecord \cup {None}
      <3> DEFINE q == req[r]
                 n == Len(Chain[q.endpoint])
      <3>1. IsRequest(q) /\ InBounds(q) /\ Guarded(q, revoked)
        BY DEF AllGuarded, AllInBounds, Guarded
      <3>2. /\ q.endpoint \in Endpoint /\ q.token \in Token \cup {None} /\ q.user \in Role \cup {None}
            /\ q.dead \in BOOLEAN /\ q.checked \in BOOLEAN /\ q.cleared \in BOOLEAN
        BY <3>1 DEF IsRequest
      <3>3. n \in Nat /\ HandlerAt(q) = n + 1
        BY <3>2, Chains DEF HandlerAt
      <3>4. /\ q.pos \in Nat /\ q.runs \in Nat /\ q.open \in Nat /\ q.pos <= HandlerAt(q)
            /\ q.open + q.runs <= q.pos /\ (q.pos = HandlerAt(q) => q.runs >= 1)
            /\ (q.endpoint \in Continues /\ q.pos # 0 => q.open >= 1)
            /\ (q.endpoint \notin Continues => q.runs = IF q.pos = HandlerAt(q) THEN 1 ELSE 0)
            /\ q.answer \in AnswerRecord \cup {None}
        BY <3>1 DEF IsRequest, InBounds, Guarded
      <3> HIDE DEF q, n
      <3>5. q.pos \in 0 .. HandlerAt(q) /\ q.open \in 0 .. n
        BY <3>3, <3>4
      <3>6. q.endpoint \in Continues => q.runs \in 0 .. n
        BY <3>3, <3>4
      <3>7. q.endpoint \notin Continues => q.runs \in 0 .. 1
        BY <3>3, <3>4
      <3> QED
        BY <3>2, <3>4, <3>5, <3>6, <3>7 DEF q, n
    <2> QED
      BY <2>1 DEF PipelineTypeOK, AllGuarded
  <1>2. PipelineInit => AllGuarded /\ AllInBounds
    BY InitGuarded, InitInBounds
  <1>3. AllGuarded /\ AllInBounds /\ [PipelineNext]_pipelineVars => (AllGuarded /\ AllInBounds)'
    BY StepGuarded, StepInBounds
  <1>4. PipelineSpec => []PipelineTypeOK
    BY <1>1, <1>2, <1>3, PTL DEF PipelineSpec
  <1> QED
    BY <1>4, HandlersAreGuarded, PTL DEF PipelineInv

------------------------------------------------------------------------------
(* Late answers.                                                           *)

\* While a request is under way, the answer that was given stands.
AnswerStands ==
    \A r \in Request :
        Stage(req[r]) # "idle" /\ req[r].answer # None => req'[r].answer = req[r].answer

\* The end of a request keeps an answer given before.
LEMMA EndedKeeps ==
    ASSUME NEW q, q.endpoint \in Endpoint, q.answer # None, NEW answer
    PROVE  Ended(q, answer).answer = q.answer
  <1>1. Ended(q, answer) = [Unstarted(q.endpoint, None) EXCEPT !.answer = q.answer]
    BY DEF Ended
  <1>2. IsRequest(Unstarted(q.endpoint, None))
    BY UnstartedGuarded
  <1> DEFINE u == Unstarted(q.endpoint, None)
  <1> HIDE DEF u
  <1>3. [u EXCEPT !.answer = q.answer].answer = q.answer
    BY <1>2 DEF IsRequest, u
  <1> QED
    BY <1>1, <1>3 DEF u

\* So does an error, whether the chain continues or not.
LEMMA ThrownKeeps ==
    ASSUME NEW q, IsRequest(q), q.answer # None, NEW e
    PROVE  Thrown(q, e).answer = q.answer
  <1>1. CASE q.endpoint \in Continues /\ q.open > 1
    <2> DEFINE p == [q EXCEPT !.open = @ - 1]
    <2>1. IsRequest(p) /\ p.answer = q.answer
      BY DEF IsRequest, HandlerAt
    <2>2. Thrown(q, e) = Proceed(p)
      BY <1>1 DEF Thrown
    <2> HIDE DEF p
    <2> QED
      BY <2>1, <2>2, ProceedStops
  <1>2. CASE ~ (q.endpoint \in Continues /\ q.open > 1)
    <2>1. Thrown(q, e) = Ended(q, ErrorAnswer(q, e))
      BY <1>2 DEF Thrown
    <2> QED
      BY <2>1, EndedKeeps DEF IsRequest
  <1> QED
    BY <1>1, <1>2

\* A failed authentication too.
LEMMA AuthFailsKeeps ==
    ASSUME NEW q, IsRequest(q), q.answer # None, NEW key
    PROVE  AuthFails(q, key).answer = q.answer
  BY ThrownKeeps, ProceedStops DEF AuthFails

\* The client of a request that timed out has its answer: whatever goes on behind
\* the timeout and ends later, in success or in an error, replaces no answer.
THEOREM FirstAnswerStands == PipelineSpec => [][AnswerStands]_pipelineVars
  <1>1. AllGuarded /\ [PipelineNext]_pipelineVars => [AnswerStands]_pipelineVars
    <2> SUFFICES ASSUME AllGuarded, PipelineNext, NEW s \in Request,
                        Stage(req[s]) # "idle", req[s].answer # None
                 PROVE  req'[s].answer = req[s].answer
      BY DEF AnswerStands
    <2>0. IsRequest(req[s]) /\ Guarded(req[s], revoked) /\ req = [r \in Request |-> req[r]]
      BY DEF AllGuarded, Guarded
    <2>1. ASSUME NEW r \in Request, NEW p, req' = [req EXCEPT ![r] = p],
                 r = s => p.answer = req[s].answer
          PROVE  req'[s].answer = req[s].answer
      BY <2>0, <2>1
    <2>2. ASSUME NEW r \in Request, Refuse(r) \/ Receive(r)
          PROVE  req'[s].answer = req[s].answer
      <3>1. r # s /\ \E p : req' = [req EXCEPT ![r] = p]
        BY <2>2 DEF Refuse, Receive
      <3> QED
        BY <2>1, <3>1
    <2>3. ASSUME NEW r \in Request, CheckRevoked(r) PROVE req'[s].answer = req[s].answer
      <3>1. CASE req' = [req EXCEPT ![r] = [@ EXCEPT !.checked = TRUE]]
        <4>1. [req[s] EXCEPT !.checked = TRUE].answer = req[s].answer
          BY <2>0, CheckedSet
        <4> QED
          BY <2>1, <3>1, <4>1
      <3>2. CASE req' = [req EXCEPT ![r] = AuthFails(@, "INVALID_TOKEN")]
        BY <2>0, <3>2, <2>1, AuthFailsKeeps
      <3> QED
        BY <2>3, <3>1, <3>2 DEF CheckRevoked
    <2>4. ASSUME NEW r \in Request, Verify(r) PROVE req'[s].answer = req[s].answer
      <3>1. ASSUME NEW role \in Role, req' = [req EXCEPT ![r] = Verified(@, role)]
            PROVE  req'[s].answer = req[s].answer
        <4>1. CASE r = s
          <5> DEFINE p == [req[s] EXCEPT !.user = role]
          <5>1. p.answer = req[s].answer /\ IsRequest(p)
            BY <2>0, UserSet
          <5>2. req'[s] = Thrown(p, FromKey("FORBIDDEN")) \/ req'[s] = Proceed(p)
            BY <2>0, <3>1, <4>1 DEF Verified
          <5> HIDE DEF p
          <5>3. CASE req'[s] = Thrown(p, FromKey("FORBIDDEN"))
            BY <5>1, <5>3, ThrownKeeps
          <5>4. CASE req'[s] = Proceed(p)
            BY <5>1, <5>4, ProceedStops
          <5> QED
            BY <5>2, <5>3, <5>4
        <4>2. CASE r # s
          BY <2>1, <3>1, <4>2
        <4> QED
          BY <4>1, <4>2
      <3>2. ASSUME NEW key \in Rejections, req' = [req EXCEPT ![r] = AuthFails(@, key)]
            PROVE  req'[s].answer = req[s].answer
        BY <2>0, <3>2, <2>1, AuthFailsKeeps
      <3> QED
        BY <2>4, <3>1, <3>2 DEF Verify
    <2>5. ASSUME NEW r \in Request, Limited(r) PROVE req'[s].answer = req[s].answer
      <3>1. CASE req' = [req EXCEPT ![r] = Proceed([@ EXCEPT !.cleared = TRUE])]
        <4> DEFINE p == [req[s] EXCEPT !.cleared = TRUE]
        <4>1. p.answer = req[s].answer /\ IsRequest(p)
          BY <2>0, ClearedSet
        <4>2. Proceed(p).answer = req[s].answer
          <5> HIDE DEF p
          <5> QED
            BY <4>1, ProceedStops
        <4> QED
          BY <2>1, <3>1, <4>2
      <3>2. ASSUME NEW e, req' = [req EXCEPT ![r] = Thrown(@, e)]
            PROVE  req'[s].answer = req[s].answer
        BY <2>0, <2>1, <3>2, ThrownKeeps
      <3> QED
        BY <2>5, <3>1, <3>2 DEF Limited
    <2>6. ASSUME NEW r \in Request, Handle(r) PROVE req'[s].answer = req[s].answer
      <3>1. CASE req' = [req EXCEPT ![r] = Ended(@, [code |-> 0, status |-> 200])]
        <4>1. Ended(req[s], [code |-> 0, status |-> 200]).answer = req[s].answer
          BY <2>0, EndedKeeps DEF IsRequest
        <4> QED
          BY <2>1, <3>1, <4>1
      <3>2. ASSUME NEW e, req' = [req EXCEPT ![r] = Thrown(@, e)]
            PROVE  req'[s].answer = req[s].answer
        BY <2>0, <2>1, <3>2, ThrownKeeps
      <3> QED
        BY <2>6, <3>1, <3>2 DEF Handle
    <2>7. ASSUME NEW r \in Request, Timeout(r) PROVE req'[s].answer = req[s].answer
      <3>1. r # s /\ \E p : req' = [req EXCEPT ![r] = p]
        <4>1. r # s
          BY <2>7 DEF Timeout
        <4>2. req' = [req EXCEPT ![r] = [@ EXCEPT !.answer = ChainAnswer(TimeoutError)]]
          BY <2>7 DEF Timeout
        <4> QED
          BY <4>1, <4>2
      <3> QED
        BY <2>1, <3>1
    <2>8. ASSUME NEW t \in Token, Revoke(t) PROVE req'[s].answer = req[s].answer
      BY <2>8 DEF Revoke
    <2> QED
      BY <2>2, <2>3, <2>4, <2>5, <2>6, <2>7, <2>8 DEF PipelineNext
  <1> QED
    BY <1>1, AlwaysGuarded, PTL DEF PipelineSpec

------------------------------------------------------------------------------
(* RateLimits: what the history of a client says about its window.         *)

LastMark == MaxTime + 1

\* A history only grows from mark to mark, and nothing is granted after n.
Grows(history, n) ==
    /\ history \in [Marks -> Nat]
    /\ \A t, u \in Marks : t <= u => history[t] <= history[u]
    /\ \A t \in Marks : t > n => history[t] = history[LastMark]

Bounded(history) ==
    \A t \in Marks : t + Window \in Marks => history[t + Window] - history[t] <= 2 * PerWindow

\* A window that is open at n.
IsOpen(window, n) == window # NoWindow /\ window.expiresAt > n
Start(window) == window.expiresAt - Window

\* In an open window at most what it has counted has been granted, and no more
\* than one window grants; and no more than that before it began.
CountsOpen(window, history, n) ==
    LET start == Start(window) IN
        /\ start \in Marks /\ start <= n
        /\ history[LastMark] - history[start] <= window.count
        /\ history[LastMark] - history[start] <= PerWindow
        /\ \A t \in Marks : start <= t + Window /\ t <= start =>
               history[start] - history[t] <= PerWindow

\* Without one, the last window was over by n, and no span that begins at most a
\* window before n has seen more than one window grants.
CountsIdle(history, n) ==
    /\ history[n] = history[LastMark]
    /\ \A t \in Marks : n <= t + Window => history[LastMark] - history[t] <= PerWindow

Accounted(window, history, n) ==
    /\ Grows(history, n) /\ Bounded(history)
    /\ IsOpen(window, n) => CountsOpen(window, history, n)
    /\ ~IsOpen(window, n) => CountsIdle(history, n)

RateInductive == RateTypeOK /\ \A c \in Client : Accounted(store[c], granted[c], now)

LEMMA SpanOfMarks ==
    /\ MaxTime \in Nat /\ Window \in Nat /\ Window > 0 /\ Limit \in Nat
    /\ PerWindow \in Nat /\ PerWindow >= 1
    /\ Limit # 0 => PerWindow = Limit
    /\ LastMark \in Marks /\ LastMark \in Nat
    /\ \A n \in Instants : n \in Marks /\ n \in Nat /\ n < LastMark
    /\ \A t \in Marks : t \in Nat /\ t <= LastMark /\ t + Window \in Nat /\ Nothing[t] = 0
  BY RateConstantsOK DEF RateConstantsOK, PerWindow, LastMark, Marks, Instants, Nothing

\* A client without a window and a history.
LEMMA NothingAccounted ==
    ASSUME NEW n \in Instants
    PROVE  Accounted(NoWindow, Nothing, n)
  <1>1. Nothing \in [Marks -> Nat]
    BY DEF Nothing
  <1>2. Grows(Nothing, n)
    BY <1>1, SpanOfMarks DEF Grows
  <1>3. Bounded(Nothing)
    BY SpanOfMarks DEF Bounded
  <1>4. CountsIdle(Nothing, n)
    BY SpanOfMarks DEF CountsIdle
  <1> QED
    BY <1>2, <1>3, <1>4 DEF Accounted, IsOpen

\* A request granted at n.
LEMMA GrantGrows ==
    ASSUME NEW n \in Instants, NEW history, Grows(history, n)
    PROVE  /\ Grows(GrantedAt(n, history), n)
           /\ \A t \in Marks : GrantedAt(n, history)[t] =
                IF t > n THEN history[t] + 1 ELSE history[t]
  <1> DEFINE after == GrantedAt(n, history)
  <1>1. \A t \in Marks : after[t] = IF t > n THEN history[t] + 1 ELSE history[t]
    BY DEF GrantedAt
  <1>2. \A t \in Marks : history[t] \in Nat
    BY DEF Grows
  <1>3. after \in [Marks -> Nat]
    BY <1>2 DEF GrantedAt
  <1> HIDE DEF after
  <1>4. ASSUME NEW t \in Marks, NEW u \in Marks, t <= u
        PROVE  after[t] <= after[u]
    <2>1. history[t] <= history[u]
      BY <1>4 DEF Grows
    <2> QED
      BY <1>1, <1>2, <1>4, <2>1, SpanOfMarks
  <1>5. ASSUME NEW t \in Marks, t > n
        PROVE  after[t] = after[LastMark]
    <2>1. history[t] = history[LastMark]
      BY <1>5 DEF Grows
    <2> QED
      BY <1>1, <1>5, <2>1, SpanOfMarks
  <1>6. Grows(after, n)
    BY <1>3, <1>4, <1>5 DEF Grows
  <1> QED
    BY <1>1, <1>6 DEF after

\* It stays within two windows' worth if the spans around n had room for it.
LEMMA GrantBounded ==
    ASSUME NEW n \in Instants, NEW history, Grows(history, n), Bounded(history),
           \A t \in Marks : n < t + Window /\ t <= n =>
               history[LastMark] + 1 - history[t] <= 2 * PerWindow
    PROVE  Bounded(GrantedAt(n, history))
  <1> DEFINE after == GrantedAt(n, history)
  <1>1. \A t \in Marks : after[t] = IF t > n THEN history[t] + 1 ELSE history[t]
    BY GrantGrows
  <1>2. \A t \in Marks : history[t] \in Nat
    BY DEF Grows
  <1> HIDE DEF after
  <1>3. ASSUME NEW t \in Marks, t + Window \in Marks
        PROVE  after[t + Window] - after[t] <= 2 * PerWindow
    <2> DEFINE u == t + Window
    <2>0. u \in Marks /\ u \in Nat /\ t \in Nat /\ n \in Nat /\ t < u
      BY <1>3, SpanOfMarks
    <2>1. history[u] - history[t] <= 2 * PerWindow
      BY <1>3 DEF Bounded
    <2>2. CASE t > n \/ u <= n
      <3> HIDE DEF u
      <3>1. after[u] - after[t] = history[u] - history[t]
        BY <1>1, <1>2, <2>0, <2>2
      <3> QED
        BY <2>1, <3>1 DEF u
    <2>3. CASE t <= n /\ u > n
      <3>1. history[LastMark] + 1 - history[t] <= 2 * PerWindow
        BY <2>3
      <3> HIDE DEF u
      <3>2. history[u] = history[LastMark]
        BY <2>0, <2>3 DEF Grows
      <3>3. after[u] - after[t] = history[LastMark] + 1 - history[t]
        BY <1>1, <1>2, <2>0, <2>3, <3>2
      <3> QED
        BY <3>1, <3>3 DEF u
    <2> QED
      BY <2>0, <2>2, <2>3
  <1>4. Bounded(after)
    BY <1>3 DEF Bounded
  <1> QED
    BY <1>4 DEF after

\* The first request of a window.
LEMMA OpeningAccounted ==
    ASSUME NEW n \in Instants, NEW window, NEW history,
           Accounted(window, history, n), ~IsOpen(window, n)
    PROVE  Accounted([count |-> 1, expiresAt |-> n + Window], GrantedAt(n, history), n)
  <1> DEFINE after == GrantedAt(n, history)
             opened == [count |-> 1, expiresAt |-> n + Window]
  <1>1. Grows(history, n) /\ Bounded(history) /\ CountsIdle(history, n)
    BY DEF Accounted
  <1>2. Grows(after, n) /\ \A t \in Marks : after[t] = IF t > n THEN history[t] + 1 ELSE history[t]
    BY <1>1, GrantGrows
  <1>3. \A t \in Marks : history[t] \in Nat
    BY <1>1 DEF Grows
  <1>4. n \in Marks /\ n \in Nat /\ LastMark \in Marks /\ LastMark > n
    BY SpanOfMarks
  <1>5. Bounded(after)
    <2>1. ASSUME NEW t \in Marks, n < t + Window, t <= n
          PROVE  history[LastMark] + 1 - history[t] <= 2 * PerWindow
      <3>1. history[LastMark] - history[t] <= PerWindow
        BY <1>1, <1>4, <2>1, SpanOfMarks DEF CountsIdle
      <3> QED
        BY <1>3, <1>4, <3>1, SpanOfMarks
    <2> QED
      BY <1>1, <2>1, GrantBounded
  <1> HIDE DEF after
  <1>6. IsOpen(opened, n) /\ Start(opened) = n /\ opened.count = 1
    <2>1. opened.expiresAt = n + Window /\ opened.count = 1
      OBVIOUS
    <2>2. opened # NoWindow
      <3>1. opened \in [count : Nat, expiresAt : Nat]
        BY <1>4, SpanOfMarks
      <3> QED
        BY <3>1, RateConstantsOK DEF RateConstantsOK
    <2> HIDE DEF opened
    <2> QED
      BY <1>4, <2>1, <2>2, SpanOfMarks DEF IsOpen, Start
  <1> HIDE DEF opened
  <1>7. after[LastMark] - after[n] = 1
    BY <1>1, <1>2, <1>3, <1>4 DEF CountsIdle
  <1>8. ASSUME NEW t \in Marks, n <= t + Window, t <= n
        PROVE  after[n] - after[t] <= PerWindow
    <2>1. history[LastMark] - history[t] <= PerWindow
      BY <1>1, <1>8 DEF CountsIdle
    <2>2. after[n] = history[LastMark] /\ after[t] = history[t]
      BY <1>1, <1>2, <1>4, <1>8, SpanOfMarks DEF CountsIdle
    <2> QED
      BY <2>1, <2>2
  <1>9. CountsOpen(opened, after, n)
    BY <1>4, <1>6, <1>7, <1>8, SpanOfMarks DEF CountsOpen
  <1>10. Accounted(opened, after, n)
    BY <1>2, <1>5, <1>6, <1>9 DEF Accounted
  <1> QED
    BY <1>10 DEF opened, after

\* A later request of a window, granted or not.
LEMMA CountingAccounted ==
    ASSUME NEW n \in Instants, NEW window \in WindowRecord, NEW history,
           Accounted(window, history, n), IsOpen(window, n),
           NEW counted \in WindowRecord, counted.expiresAt = window.expiresAt,
           counted.count >= window.count
    PROVE  /\ Accounted(counted, history, n)
           /\ window.count + 1 <= Limit /\ counted.count = window.count + 1 =>
                Accounted(counted, GrantedAt(n, history), n)
  <1> DEFINE after == GrantedAt(n, history)
             start == Start(window)
  <1>1. Grows(history, n) /\ Bounded(history) /\ CountsOpen(window, history, n)
    BY DEF Accounted
  <1>2. \A t \in Marks : history[t] \in Nat
    BY <1>1 DEF Grows
  <1>3. n \in Marks /\ n \in Nat /\ LastMark \in Marks /\ LastMark > n
    BY SpanOfMarks
  <1>4. IsOpen(counted, n) /\ Start(counted) = start
    BY RateConstantsOK DEF IsOpen, Start, RateConstantsOK, WindowRecord
  <1>5. window.count \in Nat /\ counted.count \in Nat /\ window.expiresAt \in Nat
    BY DEF WindowRecord
  <1>6. /\ start \in Marks /\ start <= n /\ start \in Nat
        /\ history[LastMark] - history[start] <= window.count
        /\ history[LastMark] - history[start] <= PerWindow
        /\ \A t \in Marks : start <= t + Window /\ t <= start =>
               history[start] - history[t] <= PerWindow
    BY <1>1, SpanOfMarks DEF CountsOpen
  <1>7. window.expiresAt = start + Window /\ n < start + Window
    BY <1>3, <1>5, SpanOfMarks DEF Start, IsOpen
  <1> HIDE DEF start
  <1>8. Accounted(counted, history, n)
    <2>1. history[LastMark] - history[start] <= counted.count
      BY <1>2, <1>3, <1>5, <1>6
    <2>2. CountsOpen(counted, history, n)
      BY <1>4, <1>6, <2>1 DEF CountsOpen
    <2> QED
      BY <1>1, <1>4, <2>2 DEF Accounted
  <1>9. ASSUME window.count + 1 <= Limit, counted.count = window.count + 1
        PROVE  Accounted(counted, after, n)
    <2>1. Grows(after, n)
          /\ \A t \in Marks : after[t] = IF t > n THEN history[t] + 1 ELSE history[t]
      BY <1>1, GrantGrows
    <2>2. history[LastMark] - history[start] + 1 <= PerWindow
      <3>1. PerWindow = Limit
        BY <1>5, <1>9, SpanOfMarks
      <3> QED
        BY <1>2, <1>3, <1>5, <1>6, <1>9, <3>1, SpanOfMarks
    <2>3. ASSUME NEW t \in Marks, n < t + Window, t <= n
          PROVE  history[LastMark] + 1 - history[t] <= 2 * PerWindow
      <3>1. CASE t >= start
        <4>1. history[start] <= history[t]
          BY <1>1, <1>6, <3>1, SpanOfMarks DEF Grows
        <4> QED
          BY <1>2, <1>3, <1>6, <2>2, <4>1, SpanOfMarks
      <3>2. CASE t < start
        <4>1. t <= start /\ start <= t + Window
          BY <1>3, <1>6, <2>3, <3>2, SpanOfMarks
        <4>2. history[start] - history[t] <= PerWindow
          BY <1>6, <4>1
        <4> QED
          BY <1>2, <1>3, <1>6, <2>2, <4>2, SpanOfMarks
      <3> QED
        BY <1>6, <3>1, <3>2, SpanOfMarks
    <2>4. Bounded(after)
      BY <1>1, <2>3, GrantBounded
    <2> HIDE DEF after
    <2>5. after[LastMark] = history[LastMark] + 1 /\ after[start] = history[start]
      BY <1>3, <1>6, <2>1
    <2>6. after[LastMark] - after[start] <= PerWindow
          /\ after[LastMark] - after[start] <= counted.count
      BY <1>2, <1>3, <1>5, <1>6, <1>9, <2>2, <2>5, SpanOfMarks
    <2>7. ASSUME NEW t \in Marks, start <= t + Window, t <= start
          PROVE  after[start] - after[t] <= PerWindow
      <3>1. after[t] = history[t]
        BY <1>3, <1>6, <2>1, <2>7, SpanOfMarks
      <3> QED
        BY <1>6, <2>5, <2>7, <3>1
    <2>8. CountsOpen(counted, after, n)
      BY <1>4, <1>6, <2>6, <2>7 DEF CountsOpen
    <2> QED
      BY <1>4, <2>1, <2>4, <2>8 DEF Accounted
  <1> QED
    BY <1>8, <1>9 DEF after

\* A window that is over may be removed.
LEMMA ClosingAccounted ==
    ASSUME NEW n \in Instants, NEW window, NEW history,
           Accounted(window, history, n), ~IsOpen(window, n)
    PROVE  Accounted(NoWindow, history, n)
  BY DEF Accounted, IsOpen

\* Time passes, and the window may be over.
LEMMA PassingAccounted ==
    ASSUME NEW n \in Instants, n < MaxTime, NEW window \in WindowRecord \cup {NoWindow},
           NEW history, Accounted(window, history, n)
    PROVE  Accounted(window, history, n + 1)
  <1> DEFINE start == Start(window)
  <1>1. Grows(history, n) /\ Bounded(history)
    BY DEF Accounted
  <1>2. \A t \in Marks : history[t] \in Nat
    BY <1>1 DEF Grows
  <1>3. n \in Marks /\ n \in Nat /\ LastMark \in Marks /\ LastMark > n
        /\ n + 1 \in Marks /\ n + 1 > n
    BY SpanOfMarks DEF LastMark, Marks
  <1>4. Grows(history, n + 1)
    BY <1>1, <1>3, SpanOfMarks DEF Grows
  <1>5. history[n + 1] = history[LastMark]
    BY <1>1, <1>3 DEF Grows
  <1>6. ASSUME IsOpen(window, n + 1)
        PROVE  CountsOpen(window, history, n + 1)
    <2>1. window \in WindowRecord /\ window.expiresAt \in Nat
      BY <1>6 DEF IsOpen, WindowRecord
    <2>2. IsOpen(window, n)
      BY <1>3, <1>6, <2>1 DEF IsOpen
    <2>3. CountsOpen(window, history, n)
      BY <2>2 DEF Accounted
    <2> HIDE DEF start
    <2>4. start \in Marks /\ start <= n
      BY <2>3 DEF CountsOpen, start
    <2>5. start <= n + 1
      BY <1>3, <2>4, SpanOfMarks
    <2> QED
      BY <2>3, <2>5 DEF CountsOpen, start
  <1>7. ASSUME ~IsOpen(window, n + 1), NEW t \in Marks, n + 1 <= t + Window
        PROVE  history[LastMark] - history[t] <= PerWindow
    <2>1. CASE ~IsOpen(window, n)
      <3>1. CountsIdle(history, n)
        BY <2>1 DEF Accounted
      <3> QED
        BY <1>3, <1>7, <3>1, SpanOfMarks DEF CountsIdle
    <2>2. CASE IsOpen(window, n)
      <3>1. window \in WindowRecord /\ window.expiresAt \in Nat
        BY <2>2 DEF IsOpen, WindowRecord
      <3>2. window.expiresAt = n + 1
        BY <1>3, <1>7, <2>2, <3>1 DEF IsOpen
      <3>3. start <= t /\ start \in Marks /\ history[LastMark] - history[start] <= PerWindow
        <4>1. CountsOpen(window, history, n)
          BY <2>2 DEF Accounted
        <4> QED
          BY <1>3, <1>7, <3>2, <4>1, SpanOfMarks DEF CountsOpen, Start
      <3> HIDE DEF start
      <3>4. history[start] <= history[t]
        BY <1>1, <3>3 DEF Grows
      <3> QED
        BY <1>2, <1>3, <3>3, <3>4, SpanOfMarks
    <2> QED
      BY <2>1, <2>2
  <1>8. ~IsOpen(window, n + 1) => CountsIdle(history, n + 1)
    BY <1>5, <1>7 DEF CountsIdle
  <1> QED
    BY <1>1, <1>4, <1>6, <1>8 DEF Accounted

------------------------------------------------------------------------------
(* RateLimits: the invariant, action by action.                            *)

\* What RateTypeOK says of one window.
Fits(window, n) ==
    window # NoWindow =>
        window.count \in 1 .. (Limit + 1) \cup {1} /\ window.expiresAt <= n + Window

LEMMA StoredIsFinite ==
    ASSUME RateTypeOK
    PROVE  /\ IsFiniteSet(Stored) /\ Cardinality(Stored) \in Nat /\ MaxEntries \in Nat
           /\ \A c \in Client : c \in Stored <=> store[c] # NoWindow
           /\ \A c \in Client : Fits(store[c], now)
           /\ Stored \subseteq Client
  <1>1. IsFiniteSet(Stored) /\ Stored \subseteq Client
    BY FS_Subset, RateConstantsOK DEF Stored, RateConstantsOK
  <1> QED
    BY <1>1, FS_CardinalityType, RateConstantsOK DEF Stored, Fits, RateTypeOK, RateConstantsOK

\* The parts from which the invariant follows.
LEMMA RateAssembled ==
    ASSUME store' \in [Client -> WindowRecord \cup {NoWindow}], now' \in Instants,
           granted' \in [Client -> [Marks -> Nat]],
           Cardinality(Stored') <= MaxEntries,
           \A c \in Client : Fits(store'[c], now') /\ Accounted(store'[c], granted'[c], now')
    PROVE  RateInductive'
  BY DEF RateInductive, RateTypeOK, Stored, Fits

\* Removing windows makes the map no larger.
LEMMA StoredShrinks ==
    ASSUME RateTypeOK, \A c \in Client : store'[c] # NoWindow => store[c] # NoWindow
    PROVE  Cardinality(Stored') <= MaxEntries
  <1>1. Stored' \subseteq Stored
    BY DEF Stored
  <1>2. Cardinality(Stored') <= Cardinality(Stored) /\ IsFiniteSet(Stored')
    BY <1>1, StoredIsFinite, FS_Subset
  <1> QED
    BY <1>2, StoredIsFinite, FS_CardinalityType DEF RateTypeOK

LEMMA RateInitially == RateInit => RateInductive
  <1> SUFFICES ASSUME RateInit
               PROVE  RateInductive
    OBVIOUS
  <1>1. now \in Instants
    BY RateConstantsOK DEF RateInit, Instants, RateConstantsOK
  <1>2. Stored = {}
    BY DEF RateInit, Stored
  <1>3. Cardinality(Stored) <= MaxEntries
    BY <1>2, FS_EmptySet, RateConstantsOK DEF RateConstantsOK
  <1>4. Nothing \in [Marks -> Nat]
    BY DEF Nothing
  <1>5. RateTypeOK
    BY <1>1, <1>2, <1>3, <1>4 DEF RateInit, RateTypeOK
  <1> QED
    BY <1>1, <1>5, NothingAccounted DEF RateInit, RateInductive

\* Whoever loses an open window to a newcomer loses it to a full map of open
\* windows, for the window that ends first is taken.
LEMMA EvictedIsExcused ==
    ASSUME RateTypeOK, NEW d \in EvictOldest, Open(d)
    PROVE  d \in Excused({d})
  <1>1. d \in Stored /\ \A e \in Stored : store[d].expiresAt <= store[e].expiresAt
    BY DEF EvictOldest
  <1>2. \A e \in Stored : store[e] \in WindowRecord /\ store[e].expiresAt \in Nat
    BY DEF RateTypeOK, Stored, WindowRecord
  <1>3. now \in Nat
    BY SpanOfMarks DEF RateTypeOK
  <1>4. \A e \in Stored : Open(e)
    BY <1>1, <1>2, <1>3 DEF Open, Stored
  <1> QED
    BY <1>4 DEF Excused

LEMMA OpenWindowKeeps ==
    ASSUME RateInductive, NEW c \in Client, OpenWindow(c)
    PROVE  RateInductive'
  <1> DEFINE opened == [count |-> 1, expiresAt |-> now + Window]
  <1>0. RateTypeOK /\ now \in Instants /\ now \in Nat
    BY SpanOfMarks DEF RateInductive, RateTypeOK
  <1>1. PICK out \in IF Full THEN {{d} : d \in EvictOldest} ELSE {{}} :
            /\ store' = [d \in Client |->
                            IF d = c THEN opened
                            ELSE IF d \in out THEN NoWindow ELSE store[d]]
            /\ Granted(c, out)
    BY DEF OpenWindow
  <1>2. now' = now /\ ~Open(c)
    BY DEF OpenWindow
  <1>3. opened \in WindowRecord /\ opened # NoWindow
        /\ opened.count = 1 /\ opened.expiresAt = now + Window
    BY <1>0, SpanOfMarks, RateConstantsOK DEF WindowRecord, RateConstantsOK
  <1>4. out \subseteq EvictOldest /\ EvictOldest \subseteq Stored
    BY <1>1 DEF EvictOldest
  <1> HIDE DEF opened
  <1>5. store' \in [Client -> WindowRecord \cup {NoWindow}]
    BY <1>0, <1>1, <1>3 DEF RateTypeOK
  <1>6. granted' \in [Client -> [Marks -> Nat]]
    <2>1. Nothing \in [Marks -> Nat]
      BY DEF Nothing
    <2>2. GrantedAt(now, granted[c]) \in [Marks -> Nat]
      BY <1>0, GrantGrows DEF RateInductive, Accounted, Grows
    <2> QED
      BY <1>0, <1>1, <2>1, <2>2 DEF Granted, RateTypeOK
  <1>7. Cardinality(Stored') <= MaxEntries
    <2>1. Stored' \subseteq (Stored \ out) \cup {c}
      BY <1>1 DEF Stored
    <2>2. IsFiniteSet(Stored \ out)
      BY <1>0, StoredIsFinite, FS_Subset
    <2>3. Cardinality(Stored \ out) \in Nat /\ Cardinality(Stored \ out) + 1 <= MaxEntries
      <3>1. CASE Full
        <4>1. PICK d \in EvictOldest : out = {d}
          BY <1>1, <3>1
        <4>2. d \in Stored
          BY <1>4
        <4>3. Cardinality(Stored \ {d}) = Cardinality(Stored) - 1
          BY <1>0, <4>2, StoredIsFinite, FS_RemoveElement
        <4> QED
          BY <1>0, <2>2, <4>1, <4>3, StoredIsFinite, FS_CardinalityType DEF RateTypeOK
      <3>2. CASE ~Full
        <4>1. out = {} /\ Stored \ out = Stored
          BY <1>1, <3>2
        <4> QED
          BY <1>0, <3>2, <4>1, StoredIsFinite DEF Full
      <3> QED
        BY <3>1, <3>2
    <2> DEFINE others == Stored \ out
    <2>4. IsFiniteSet(others) /\ Cardinality(others) \in Nat /\ Cardinality(others) + 1 <= MaxEntries
      BY <2>2, <2>3
    <2> HIDE DEF others
    <2>5. /\ IsFiniteSet(others \cup {c})
          /\ \/ Cardinality(others \cup {c}) = Cardinality(others)
             \/ Cardinality(others \cup {c}) = Cardinality(others) + 1
      BY <2>4, FS_AddElement
    <2>6. Cardinality(Stored') <= Cardinality(others \cup {c}) /\ IsFiniteSet(Stored')
      BY <2>1, <2>5, FS_Subset DEF others
    <2>7. Cardinality(Stored') \in Nat
      BY <2>6, FS_CardinalityType
    <2>8. MaxEntries \in Nat
      BY RateConstantsOK DEF RateConstantsOK
    <2> QED
      BY <2>4, <2>5, <2>6, <2>7, <2>8
  <1>8. ASSUME NEW d \in Client
        PROVE  Fits(store'[d], now') /\ Accounted(store'[d], granted'[d], now')
    <2>1. Accounted(store[d], granted[d], now) /\ Fits(store[d], now)
      BY <1>0, StoredIsFinite DEF RateInductive
    <2>2. CASE d = c
      <3>1. d \notin Excused(out)
        BY <1>2, <2>2 DEF Excused
      <3>2. granted'[d] = GrantedAt(now, granted[d]) /\ store'[d] = opened
        BY <1>1, <2>2, <3>1 DEF Granted
      <3>3. ~IsOpen(store[d], now)
        BY <1>2, <2>2 DEF Open, IsOpen
      <3>4. Accounted(opened, GrantedAt(now, granted[d]), now)
        BY <1>0, <2>1, <3>3, OpeningAccounted DEF opened
      <3>5. Fits(opened, now)
        BY <1>0, <1>3, SpanOfMarks DEF Fits
      <3> QED
        BY <1>2, <3>2, <3>4, <3>5
    <2>3. CASE d # c /\ d \in out
      <3>1. store'[d] = NoWindow
        BY <1>1, <2>3
      <3>2. Fits(NoWindow, now)
        BY DEF Fits
      <3>3. CASE Open(d)
        <4>1. out = {d}
          BY <1>1, <2>3
        <4>2. d \in Excused(out)
          BY <1>0, <1>4, <2>3, <3>3, <4>1, EvictedIsExcused
        <4>3. granted'[d] = Nothing
          BY <1>1, <4>2 DEF Granted
        <4> QED
          BY <1>0, <1>2, <3>1, <3>2, <4>3, NothingAccounted
      <3>4. CASE ~Open(d)
        <4>1. d \notin Excused(out)
          BY <3>4 DEF Excused
        <4>2. granted'[d] = granted[d]
          BY <1>1, <2>3, <4>1 DEF Granted
        <4>3. ~IsOpen(store[d], now)
          BY <3>4 DEF Open, IsOpen
        <4>4. Accounted(NoWindow, granted[d], now)
          BY <1>0, <2>1, <4>3, ClosingAccounted
        <4> QED
          BY <1>2, <3>1, <3>2, <4>2, <4>4
      <3> QED
        BY <3>3, <3>4
    <2>4. CASE d # c /\ d \notin out
      <3>1. d \notin Excused(out)
        BY <2>4 DEF Excused
      <3>2. store'[d] = store[d] /\ granted'[d] = granted[d]
        BY <1>1, <2>4, <3>1 DEF Granted
      <3> QED
        BY <1>2, <2>1, <3>2
    <2> QED
      BY <2>2, <2>3, <2>4
  <1> QED
    BY <1>0, <1>2, <1>5, <1>6, <1>7, <1>8, RateAssembled

LEMMA CountRequestKeeps ==
    ASSUME RateInductive, NEW c \in Client, CountRequest(c)
    PROVE  RateInductive'
  <1> DEFINE n == store[c].count + 1
             next == IF n <= Limit + 1 THEN n ELSE store[c].count
             counted == [store[c] EXCEPT !.count = next]
  <1>0. RateTypeOK /\ now \in Instants /\ now \in Nat /\ now' = now /\ Open(c)
    BY SpanOfMarks DEF RateInductive, RateTypeOK, CountRequest
  <1>1. /\ store' = [store EXCEPT ![c] = counted]
        /\ granted' = IF n <= Limit THEN [granted EXCEPT ![c] = GrantedAt(now, @)] ELSE granted
    BY DEF CountRequest, Grants
  <1>2. store[c] \in WindowRecord /\ store[c] # NoWindow
    BY <1>0 DEF RateTypeOK, Open
  <1>3. store[c].count \in Nat /\ store[c].expiresAt \in Nat /\ next \in Nat
    BY <1>2, SpanOfMarks DEF WindowRecord
  <1>4. /\ counted \in WindowRecord /\ counted.expiresAt = store[c].expiresAt
        /\ counted.count = next
    BY <1>2, <1>3 DEF WindowRecord
  <1>5. counted # NoWindow
    BY <1>4, RateConstantsOK DEF WindowRecord, RateConstantsOK
  <1>6. /\ next >= store[c].count
        /\ n <= Limit => next = store[c].count + 1
    BY <1>3, SpanOfMarks
  <1>7. Accounted(store[c], granted[c], now) /\ Fits(store[c], now)
    BY <1>0, StoredIsFinite DEF RateInductive
  <1>8. next \in 1 .. (Limit + 1) \cup {1}
    <2>1. store[c].count \in 1 .. (Limit + 1) \cup {1}
      BY <1>2, <1>7 DEF Fits
    <2> QED
      BY <1>3, <2>1, SpanOfMarks
  <1>9. IsOpen(store[c], now)
    BY <1>0 DEF Open, IsOpen
  <1> HIDE DEF counted, next
  <1>10. Accounted(counted, granted[c], now)
         /\ (n <= Limit => Accounted(counted, GrantedAt(now, granted[c]), now))
    BY <1>0, <1>2, <1>4, <1>6, <1>7, <1>9, CountingAccounted
  <1>11. Fits(counted, now)
    BY <1>2, <1>4, <1>7, <1>8 DEF Fits
  <1>12. store' \in [Client -> WindowRecord \cup {NoWindow}]
    BY <1>0, <1>1, <1>4 DEF RateTypeOK
  <1>13. granted' \in [Client -> [Marks -> Nat]]
    <2>1. n <= Limit => GrantedAt(now, granted[c]) \in [Marks -> Nat]
      BY <1>10 DEF Accounted, Grows
    <2> HIDE DEF n
    <2> QED
      BY <1>0, <1>1, <2>1 DEF RateTypeOK
  <1>14. Cardinality(Stored') <= MaxEntries
    BY <1>0, <1>1, <1>2, StoredShrinks DEF RateTypeOK
  <1>15. ASSUME NEW d \in Client
         PROVE  Fits(store'[d], now') /\ Accounted(store'[d], granted'[d], now')
    <2>1. CASE d = c
      <3>1. store'[d] = counted
            /\ granted'[d] = IF n <= Limit THEN GrantedAt(now, granted[c]) ELSE granted[c]
        BY <1>0, <1>1, <2>1 DEF RateTypeOK
      <3> HIDE DEF n
      <3> QED
        BY <1>0, <1>10, <1>11, <3>1
    <2>2. CASE d # c
      <3>1. store'[d] = store[d] /\ granted'[d] = granted[d]
        BY <1>0, <1>1, <2>2 DEF RateTypeOK
      <3> QED
        BY <1>0, <3>1, StoredIsFinite DEF RateInductive
    <2> QED
      BY <2>1, <2>2
  <1> QED
    BY <1>0, <1>12, <1>13, <1>14, <1>15, RateAssembled

\* Delete, clear and the cleanup: windows go, and with an open one its history.
LEMMA RemovalKeeps ==
    ASSUME RateInductive, now' = now,
           store' \in [Client -> WindowRecord \cup {NoWindow}],
           granted' \in [Client -> [Marks -> Nat]],
           \A c \in Client :
             \/ store'[c] = store[c] /\ granted'[c] = granted[c]
             \/ store'[c] = NoWindow /\ granted'[c] = Nothing
             \/ store'[c] = NoWindow /\ granted'[c] = granted[c] /\ ~Open(c)
    PROVE  RateInductive'
  <1>0. RateTypeOK /\ now \in Instants
    BY DEF RateInductive, RateTypeOK
  <1>1. Cardinality(Stored') <= MaxEntries
    BY <1>0, StoredShrinks
  <1>2. ASSUME NEW c \in Client
        PROVE  Fits(store'[c], now') /\ Accounted(store'[c], granted'[c], now')
    <2>1. Accounted(store[c], granted[c], now) /\ Fits(store[c], now) /\ Fits(NoWindow, now)
      BY <1>0, StoredIsFinite DEF RateInductive, Fits
    <2>2. ~Open(c) => Accounted(NoWindow, granted[c], now)
      BY <1>0, <2>1, ClosingAccounted DEF Open, IsOpen
    <2> QED
      BY <1>0, <2>1, <2>2, NothingAccounted
  <1> QED
    BY <1>0, <1>1, <1>2, RateAssembled

LEMMA TickKeeps ==
    ASSUME RateInductive, Tick
    PROVE  RateInductive'
  <1>0. RateTypeOK /\ now \in Instants /\ now \in Nat
    BY SpanOfMarks DEF RateInductive, RateTypeOK
  <1>1. now < MaxTime /\ now' = now + 1 /\ store' = store /\ granted' = granted
    BY DEF Tick
  <1>2. now' \in Instants
    BY <1>0, <1>1, SpanOfMarks DEF Instants
  <1>3. Cardinality(Stored') <= MaxEntries
    BY <1>0, <1>1, StoredShrinks
  <1>4. ASSUME NEW c \in Client
        PROVE  Fits(store'[c], now') /\ Accounted(store'[c], granted'[c], now')
    <2>1. store[c] \in WindowRecord \cup {NoWindow}
      BY <1>0 DEF RateTypeOK
    <2>2. Accounted(store[c], granted[c], now) /\ Fits(store[c], now)
      BY <1>0, StoredIsFinite DEF RateInductive
    <2>3. Accounted(store[c], granted[c], now + 1)
      BY <1>0, <1>1, <2>1, <2>2, PassingAccounted
    <2>4. Fits(store[c], now + 1)
      BY <1>0, <2>1, <2>2, SpanOfMarks DEF Fits, WindowRecord
    <2> QED
      BY <1>1, <2>3, <2>4
  <1> QED
    BY <1>0, <1>1, <1>2, <1>3, <1>4, RateAssembled DEF RateTypeOK

LEMMA RateOnwards == RateInductive /\ [RateNext]_rateVars => RateInductive'
  <1> SUFFICES ASSUME RateInductive, [RateNext]_rateVars
               PROVE  RateInductive'
    OBVIOUS
  <1>0. RateTypeOK /\ Nothing \in [Marks -> Nat]
    BY DEF RateInductive, Nothing
  <1>1. ASSUME NEW c \in Client, Check(c)
        PROVE  RateInductive'
    BY <1>1, OpenWindowKeeps, CountRequestKeeps DEF Check
  <1>2. ASSUME NEW c \in Client, Delete(c)
        PROVE  RateInductive'
    <2>1. /\ store' = [store EXCEPT ![c] = NoWindow]
          /\ granted' = [granted EXCEPT ![c] = Nothing] /\ now' = now
      BY <1>2 DEF Delete
    <2>2. store' \in [Client -> WindowRecord \cup {NoWindow}]
          /\ granted' \in [Client -> [Marks -> Nat]]
      BY <1>0, <2>1 DEF RateTypeOK
    <2>3. \A d \in Client : \/ store'[d] = store[d] /\ granted'[d] = granted[d]
                            \/ store'[d] = NoWindow /\ granted'[d] = Nothing
      BY <1>0, <2>1 DEF RateTypeOK
    <2> QED
      BY <2>1, <2>2, <2>3, RemovalKeeps
  <1>3. CASE Clear
    <2>1. /\ store' = [d \in Client |-> NoWindow]
          /\ granted' = [d \in Client |-> Nothing] /\ now' = now
      BY <1>3 DEF Clear
    <2>2. store' \in [Client -> WindowRecord \cup {NoWindow}]
          /\ granted' \in [Client -> [Marks -> Nat]]
      BY <1>0, <2>1
    <2>3. \A d \in Client : store'[d] = NoWindow /\ granted'[d] = Nothing
      BY <2>1
    <2> QED
      BY <2>1, <2>2, <2>3, RemovalKeeps
  <1>4. CASE Cleanup
    <2>1. /\ store' = [d \in Client |-> IF Open(d) THEN store[d] ELSE NoWindow]
          /\ granted' = granted /\ now' = now
      BY <1>4 DEF Cleanup
    <2>2. store' \in [Client -> WindowRecord \cup {NoWindow}]
          /\ granted' \in [Client -> [Marks -> Nat]]
      BY <1>0, <2>1 DEF RateTypeOK
    <2>3. \A d \in Client :
            \/ store'[d] = store[d] /\ granted'[d] = granted[d]
            \/ store'[d] = NoWindow /\ granted'[d] = granted[d] /\ ~Open(d)
      BY <2>1
    <2> QED
      BY <2>1, <2>2, <2>3, RemovalKeeps
  <1>5. CASE Tick
    BY <1>5, TickKeeps
  <1>6. CASE UNCHANGED rateVars
    <2>1. store' = store /\ granted' = granted /\ now' = now
      BY <1>6 DEF rateVars
    <2> QED
      BY <1>0, <2>1, RemovalKeeps DEF RateTypeOK
  <1> QED
    BY <1>1, <1>2, <1>3, <1>4, <1>5, <1>6 DEF RateNext

\* For any limit, window and number of clients: the map never outgrows its bound, no window
\* ends later than a whole window from now, and over a span as long as a window a client is
\* granted at most what two windows grant, unless its open window fell victim to a map full
\* of open windows, or was deleted.
THEOREM TwoWindowsAtMost == RateSpec => []RateInv
  <1>1. RateInductive => RateInv
    <2> SUFFICES ASSUME RateInductive
                 PROVE  GrantsBounded
      BY DEF RateInductive, RateInv
    <2>1. \A c \in Client : Bounded(granted[c])
      BY DEF RateInductive, Accounted
    <2>2. \A t \in Instants : t \in Marks
      BY SpanOfMarks
    <2> QED
      BY <2>1, <2>2 DEF GrantsBounded, Bounded
  <1> QED
    BY <1>1, RateInitially, RateOnwards, PTL DEF RateSpec
------------------------------------------------------------------------------
(* ClientErrors: the language.                                             *)

\* A candidate that is supported and comes first is taken.
LEMMA FirstIsTaken ==
    ASSUME NEW c, DOMAIN c \in SUBSET (Nat \ {0}), 1 \in DOMAIN c, c[1] \in Locales
    PROVE  FirstLocale(c) = c[1]
  <1> DEFINE known == {i \in DOMAIN c : c[i] \in Locales}
  <1>1. 1 \in known /\ \A i \in known : i \in Nat /\ 1 <= i
    OBVIOUS
  <1>2. FirstLocale(c) = IF known = {} THEN "ko" ELSE c[Min(known)]
    BY DEF FirstLocale
  <1> HIDE DEF known
  <1>3. Min(known) = 1
    BY <1>1 DEF Min
  <1> QED
    BY <1>1, <1>2, <1>3

\* A browser comes out at a language that is supported, and at the one in
\* localStorage if there is one.
LEMMA BrowserDetects ==
    /\ DetectClient \in Locales
    /\ stored \in Locales => DetectClient = stored
  <1> DEFINE c == <<stored, cookie, Head(accepted)>>
             known == {i \in DOMAIN c : c[i] \in Locales}
  <1>1. DOMAIN c = 1 .. 3 /\ c[1] = stored
    OBVIOUS
  <1>2. DetectClient = FirstLocale(c)
    BY DEF DetectClient
  <1> HIDE DEF c
  <1>3. FirstLocale(c) = IF known = {} THEN "ko" ELSE c[Min(known)]
    BY DEF FirstLocale
  <1>4. known \in SUBSET (1 .. 9)
    BY <1>1
  <1>5. known # {} => Min(known) \in known
    BY <1>4, LeastPosition
  <1>6. FirstLocale(c) \in Locales
    <2>1. CASE known = {}
      BY <1>3, <2>1 DEF Locales
    <2>2. CASE known # {}
      BY <1>3, <1>5, <2>2
    <2> QED
      BY <2>1, <2>2
  <1>7. stored \in Locales => FirstLocale(c) = stored
    <2>1. DOMAIN c \in SUBSET (Nat \ {0}) /\ 1 \in DOMAIN c
      BY <1>1
    <2> QED
      BY <1>1, <2>1, FirstIsTaken
  <1> QED
    BY <1>2, <1>6, <1>7

\* The server takes the cookie if there is one, whatever Next.js and the browser want.
LEMMA ServerDetects ==
    ASSUME accepted \in Languages, cookie \in Locales
    PROVE  DetectServer = cookie
  <1> DEFINE own == <<cookie, nextCookie>>
             c == own \o accepted
             S == STRING \cup {cookie, nextCookie}
  <1>1. accepted \in Seq(S)
    BY ClientConstantsOK
  <1>2. own \in Seq(S) /\ Len(own) = 2 /\ own[1] = cookie
    OBVIOUS
  <1>3. DetectServer = FirstLocale(c)
    BY DEF DetectServer
  <1> HIDE DEF own, S
  <1>4. c \in Seq(S) /\ Len(c) = Len(own) + Len(accepted)
        /\ \A i \in 1 .. Len(own) + Len(accepted) :
             c[i] = IF i <= Len(own) THEN own[i] ELSE accepted[i - Len(own)]
    BY <1>1, <1>2, ConcatProperties
  <1>5. Len(accepted) \in Nat
    BY <1>1, LenProperties
  <1> HIDE DEF c
  <1>6. DOMAIN c = 1 .. Len(c)
    BY <1>4, LenProperties
  <1>7. c[1] = cookie /\ DOMAIN c \in SUBSET (Nat \ {0}) /\ 1 \in DOMAIN c
    BY <1>2, <1>4, <1>5, <1>6
  <1> QED
    BY <1>3, <1>7, FirstIsTaken

\* The words of every answer whose language is not fixed are in the language that the
\* server detects, or in none.
LEMMA WordsAreDetected ==
    ASSUME NEW way \in Ways \ Fixed, NEW e
    PROVE  Read(way, e).text.locale \in {DetectServer, NoKey}
  <1>1. \A code, l : ErrorMessage(code, l).locale = l
    BY DEF ErrorMessage
  <1>2. ASSUME NEW body
        PROVE  ReadApiError(body).text = body.text
    BY DEF ReadApiError
  <1>3. OwnText.locale = NoKey
    BY DEF OwnText
  <1>4. \A status, code, key, text : Body(status, code, key, text).text = text
    BY DEF Body
  <1>5. \A f : ChainBody(f).text.locale \in {DetectServer, NoKey}
    BY <1>1, <1>3, <1>4 DEF ChainBody
  <1>6. HandlerBody(e, DetectServer).text.locale \in {DetectServer, NoKey}
    BY <1>1, <1>3, <1>4 DEF HandlerBody
  <1>7. AuthBody(e, NoKey).text.locale = DetectServer
    BY <1>1, <1>4 DEF AuthBody, ResolveAuthLocale
  <1>8. /\ ProcessorBody(e).text.locale = NoKey /\ Extracted(e).text.locale = NoKey
        /\ Rewritten(LegacyBody(e)).text.locale = NoKey
        /\ Rewritten(LegacyBareBody(e)).text.locale = NoKey
    BY <1>3, <1>4 DEF ProcessorBody, Extracted, Rewritten
  <1>9. \A legacy : ReadLegacyError(legacy).text.locale = NoKey
    BY <1>2, <1>3, <1>4 DEF ReadLegacyError
  <1>10. way \in {"chain", "handler", "processor", "converted", "auth", "legacy", "legacyBare",
                  "rewritten", "rewrittenBare", "boundary"}
    BY DEF Ways, Fixed
  <1>11. CASE way \in {"chain", "handler", "converted", "auth"}
    BY <1>2, <1>5, <1>6, <1>7, <1>11 DEF Read
  <1>12. CASE way \in {"processor", "rewritten", "rewrittenBare", "boundary"}
    BY <1>2, <1>8, <1>12 DEF Read
  <1>13. CASE way \in {"legacy", "legacyBare"}
    BY <1>9, <1>13 DEF Read
  <1> QED
    BY <1>10, <1>11, <1>12, <1>13

\* A choice that is kept is kept in both places.
ChoiceKept ==
    /\ accepted \in Languages
    /\ choice # NoKey => choice \in Locales /\ stored = choice /\ cookie = choice

\* While a choice of the language is kept, detectClient and detectServer come to it, and
\* the words of every answer whose language is detected are in it: localStorage, from
\* which the browser reads, and the cookie, from which the server reads, move together
\* or not at all.
THEOREM LanguageStaysChosen == ClientSpec => []LanguageKept
  <1>1. ClientInit => ChoiceKept /\ LanguageKept
    BY DEF ClientInit, ChoiceKept, LanguageKept, Failed
  <1>2. ChoiceKept /\ LanguageKept /\ [ClientNext]_clientVars => (ChoiceKept /\ LanguageKept)'
    <2> SUFFICES ASSUME ChoiceKept, LanguageKept, [ClientNext]_clientVars
                 PROVE  ChoiceKept' /\ LanguageKept'
      OBVIOUS
    <2>1. ASSUME NEW l \in Locales, ChooseLocale(l)
          PROVE  ChoiceKept' /\ LanguageKept'
      BY <2>1 DEF ChooseLocale, ChoiceKept, LanguageKept, Failed
    <2>2. ASSUME NEW l \in Locales, Route(l)
          PROVE  ChoiceKept' /\ LanguageKept'
      BY <2>2 DEF Route, ChoiceKept, LanguageKept, Failed
    <2>3. CASE ClearLocale
      BY <2>3 DEF ClearLocale, ChoiceKept, LanguageKept, Failed
    <2>4. CASE CookieExpires
      BY <2>4 DEF CookieExpires, ChoiceKept, LanguageKept, Failed
    <2>5. CASE FillStorage
      BY <2>5 DEF FillStorage, ChoiceKept, LanguageKept, Failed
    <2>6. ASSUME NEW languages \in Languages, Accept(languages)
          PROVE  ChoiceKept' /\ LanguageKept'
      BY <2>6 DEF Accept, ChoiceKept, LanguageKept, Failed
    <2>7. ASSUME NEW e \in ClientError, Fail(e)
          PROVE  ChoiceKept' /\ LanguageKept'
      <3>1. /\ shown' = [error |-> e, page |-> DetectClient, read |-> [way \in Ways |-> Read(way, e)]]
            /\ stored' = stored /\ cookie' = cookie /\ accepted' = accepted /\ choice' = choice
        BY <2>7 DEF Fail
      <3>2. ChoiceKept'
        BY <3>1 DEF ChoiceKept
      <3>3. shown'.page = DetectClient /\ \A way \in Ways : shown'.read[way] = Read(way, e)
        BY <3>1
      <3>4. choice # NoKey => DetectClient = choice /\ DetectServer = choice
        BY BrowserDetects, ServerDetects DEF ChoiceKept
      <3>5. \A way \in Ways \ Fixed :
              choice # NoKey => shown'.read[way].text.locale \in {choice, NoKey}
        BY <3>3, <3>4, WordsAreDetected
      <3>6. LanguageKept'
        BY <3>1, <3>3, <3>4, <3>5 DEF LanguageKept
      <3> QED
        BY <3>2, <3>6
    <2>8. CASE UNCHANGED clientVars
      BY <2>8 DEF clientVars, ChoiceKept, LanguageKept, Failed
    <2> QED
      BY <2>1, <2>2, <2>3, <2>4, <2>5, <2>6, <2>7, <2>8 DEF ClientNext
  <1> QED
    BY <1>1, <1>2, PTL DEF ClientSpec
------------------------------------------------------------------------------
(* ClientErrors: the numbers and keys of the answers.                      *)

\* A number of the table is one of a failure, so that a response can carry it, and each
\* dictionary has words for it.
LEMMA TableCodesServe ==
    ASSUME NEW code, HasKey(code)
    PROVE  /\ IsCode(code)
           /\ Answer(code, HttpStatus(code)) = [code |-> code, status |-> HttpStatus(code)]
           /\ \A l \in Locales : ErrorMessage(code, l).entry = code
  <1> DEFINE Failure(n) == n \in Nat /\ 40000 <= n /\ n <= 59999
  <1>1. \A k \in DOMAIN RequestCodes : Failure(RequestCodes[k])
    BY SMT DEF RequestCodes
  <1>2. \A k \in DOMAIN AccessCodes : Failure(AccessCodes[k])
    BY SMT DEF AccessCodes
  <1>3. \A k \in DOMAIN ServiceCodes : Failure(ServiceCodes[k])
    BY SMT DEF ServiceCodes
  <1>4. PICK key \in ErrorKeys : Code(key) = code
    BY DEF HasKey
  <1>5. Failure(code)
    <2> HIDE DEF Failure
    <2> QED
      BY <1>1, <1>2, <1>3, <1>4, SMT DEF Code, ErrorKeys
  <1>6. IsCode(code)
    BY <1>5, SMT DEF IsCode
  <1>7. Answer(code, HttpStatus(code)) = [code |-> code, status |-> HttpStatus(code)]
    BY <1>5, SMT DEF Answer, HttpStatus
  <1>8. ASSUME NEW l \in Locales
        PROVE  ErrorMessage(code, l).entry = code
    <2> DEFINE words == {Code(k) : k \in ErrorKeys}
    <2>1. code \in words
      BY <1>4
    <2>2. MessageRegistry[l] = words
      BY DEF MessageRegistry, koMessages, enMessages, jaMessages, Locales
    <2> HIDE DEF words
    <2> QED
      BY <2>1, <2>2 DEF ErrorMessage
  <1> QED
    BY <1>6, <1>7, <1>8

\* A card has words for a number of the table, and for none, in both of its languages.
LEMMA CardHasWords ==
    ASSUME NEW number, number = 0 \/ HasKey(number), NEW l \in CardLocales
    PROVE  Card(number, l).entry # 0
  <1>1. Code("SERVER_ERROR") = 50002
    BY SMT DEF Code, RequestCodes, AccessCodes, ServiceCodes
  <1>2. HasKey(50002)
    BY <1>1, KeysKnown DEF HasKey
  <1> DEFINE code == IF number # 0 THEN number ELSE 50002
  <1>3. HasKey(code)
    BY <1>2
  <1>4. Card(number, l) = ErrorMessage(code, l) /\ l \in Locales
    BY DEF Card, CardLocales, Locales
  <1> HIDE DEF code
  <1>5. ErrorMessage(code, l).entry = code /\ IsCode(code)
    BY <1>3, <1>4, TableCodesServe
  <1> QED
    BY <1>4, <1>5, SMT DEF IsCode

\* Whatever the database reports has a number of the table: the detour of
\* classifyPrismaError by ERROR_CODES never changes it.
LEMMA ClassifiedHasKey ==
    ASSUME NEW e
    PROVE  /\ HasKey(ClassifyError(e))
           /\ IsPrisma(e) => ClassifyError(e) = PrismaAnswerCode(e)
  <1>1. \A k \in DOMAIN PrismaErrorMap : PrismaErrorMap[k] \in {40001, 40401, 40905, 40004}
    BY SMT DEF PrismaErrorMap
  <1>2. /\ Code("VALIDATION_ERROR") = 40001 /\ Code("NOT_FOUND") = 40401
        /\ Code("DUPLICATE_RESOURCE") = 40905 /\ Code("MISSING_REQUIRED_FIELD") = 40004
    BY SMT DEF Code, RequestCodes, AccessCodes, ServiceCodes
  <1>3. "MISSING_REQUIRED_FIELD" \in ErrorKeys
    BY SMT DEF ErrorKeys, RequestCodes
  <1>4. \A key \in ErrorKeys : HasKey(Code(key))
    BY DEF HasKey
  <1>5. \A k \in DOMAIN PrismaErrorMap : HasKey(PrismaErrorMap[k])
    BY <1>1, <1>2, <1>3, <1>4, KeysKnown, SMT
  <1>6. HasKey(PrismaAnswerCode(e))
    BY <1>4, <1>5, KeysKnown, SMT DEF PrismaAnswerCode
  <1>7. ClassifyPrismaError(e) = PrismaAnswerCode(e)
    BY <1>6 DEF ClassifyPrismaError, HasKey
  <1>8. HasKey(Code(FirstRule(WordRules, e)))
    BY <1>4, FirstRuleKnown
  <1> QED
    BY <1>6, <1>7, <1>8 DEF ClassifyError

\* The number and the key by which a client knows an error, whichever way it came.
NumberOf(e) ==
    CASE e.class = "AppError" -> e.code
      [] e.class = "ZodError" -> Code("VALIDATION_ERROR")
      [] e.class = "AuthError" -> Code(AuthErrorCodeMap[e.key])
      [] e.class = "value" -> Code("INTERNAL_SERVER_ERROR")
      [] OTHER -> ClassifyError(e)

NameOf(e) == IF e.class = "AuthError" THEN e.key ELSE KeyOf(NumberOf(e))

ByNumber(e) == [code |-> NumberOf(e), status |-> HttpStatus(NumberOf(e))]

\* The number of an error that the ways are meant for is in the table, and the chain and
\* the plain handler answer with it.
LEMMA AnsweredByNumber ==
    ASSUME NEW e, Foreseen(e)
    PROVE  /\ HasKey(NumberOf(e)) /\ IsCode(NumberOf(e))
           /\ ChainAnswer(e) = ByNumber(e) /\ HandlerAnswer(e) = ByNumber(e)
           /\ "processor" \in Agreeing(e) => ProcessorAnswer(e) = ByNumber(e)
  <1>1. \A key \in ErrorKeys : HasKey(Code(key))
    BY DEF HasKey
  <1>2. e.class = "AuthError" => e.key \in DOMAIN AuthErrorCodeMap
    BY DEF Foreseen
  <1>3. HasKey(NumberOf(e))
    <2>1. e.class = "AppError" => HasKey(e.code)
      BY DEF Foreseen
    <2>2. e.class = "AuthError" => HasKey(Code(AuthErrorCodeMap[e.key]))
      BY <1>1, <1>2, AuthKeysKnown
    <2>3. /\ HasKey(Code("VALIDATION_ERROR")) /\ HasKey(Code("INTERNAL_SERVER_ERROR"))
          /\ HasKey(ClassifyError(e))
      BY <1>1, KeysKnown, ClassifiedHasKey, SMT
    <2> QED
      BY <2>1, <2>2, <2>3, SMT DEF NumberOf
  <1>4. IsCode(NumberOf(e)) /\ Answer(NumberOf(e), HttpStatus(NumberOf(e))) = ByNumber(e)
    BY <1>3, TableCodesServe DEF ByNumber
  <1>5. HttpStatus(Code("VALIDATION_ERROR")) = 400 /\ HttpStatus(Code("INTERNAL_SERVER_ERROR")) = 500
    <2>1. Code("VALIDATION_ERROR") = 40001 /\ Code("INTERNAL_SERVER_ERROR") = 50001
      BY SMT DEF Code, RequestCodes, AccessCodes, ServiceCodes
    <2> QED
      BY <2>1, SMT DEF HttpStatus
  <1>6. ChainAnswer(e) = Answer(NumberOf(e), HttpStatus(NumberOf(e)))
    BY <1>2, SMT DEF ChainAnswer, NumberOf
  <1>7. HandlerAnswer(e) = Answer(NumberOf(e), HttpStatus(NumberOf(e)))
    <2>1. e.class \notin {"AppError", "ZodError", "AuthError", "value"} =>
            NumberOf(e) = IF IsPrisma(e) THEN PrismaAnswerCode(e) ELSE ClassifyError(e)
      BY ClassifiedHasKey, SMT DEF NumberOf
    <2> QED
      BY <1>2, <1>5, <2>1, SMT DEF HandlerAnswer, NumberOf
  <1>8. "processor" \in Agreeing(e) => ProcessorAnswer(e) = Answer(NumberOf(e), HttpStatus(NumberOf(e)))
    <2>1. "processor" \in Agreeing(e) =>
            e.class \in {"AppError", "ZodError", "Prisma", "PrismaValidation"}
      BY SMT DEF Agreeing
    <2>2. CASE e.class = "AppError"
      BY <2>2, SMT DEF ProcessorAnswer, ProcessError, IsError, NumberOf
    <2>3. CASE e.class = "ZodError"
      BY <1>5, <2>3, SMT DEF ProcessorAnswer, IsError, NumberOf
    <2>4. CASE e.class \in {"Prisma", "PrismaValidation"}
      <3>1. IsPrisma(e)
        BY <2>4, SMT DEF IsPrisma
      <3>2. NumberOf(e) = PrismaAnswerCode(e)
        BY <2>4, <3>1, ClassifiedHasKey, SMT DEF NumberOf
      <3>3. ProcessorAnswer(e) = ProcessError(e)
        BY <2>4, SMT DEF ProcessorAnswer, IsError
      <3>4. ProcessError(e) = Answer(PrismaAnswerCode(e), HttpStatus(PrismaAnswerCode(e)))
        BY <2>4, <3>1, SMT DEF ProcessError
      <3> QED
        BY <3>2, <3>3, <3>4
    <2> QED
      BY <2>1, <2>2, <2>3, <2>4
  <1> QED
    BY <1>3, <1>4, <1>6, <1>7, <1>8
\* A body that says nothing else of an error.
Tells(body, e) == body.key \in {NoKey, NameOf(e)} /\ body.code \in {0, NumberOf(e)}

\* The bodies of the chain and of the plain handler.
LEMMA ServerTells ==
    ASSUME NEW e, Foreseen(e), NEW l
    PROVE  /\ Tells(ChainBody(e), e) /\ ChainBody(e).status = HttpStatus(NumberOf(e))
           /\ Tells(HandlerBody(e, l), e) /\ HandlerBody(e, l).status = HttpStatus(NumberOf(e))
  <1>1. /\ HasKey(NumberOf(e)) /\ NumberOf(e) # 0
        /\ ChainAnswer(e) = ByNumber(e) /\ HandlerAnswer(e) = ByNumber(e)
    BY AnsweredByNumber, SMT DEF IsCode
  <1>2. ByNumber(e).code = NumberOf(e) /\ ByNumber(e).status = HttpStatus(NumberOf(e))
    BY DEF ByNumber
  <1>3. \A status, code, key, text :
          /\ Body(status, code, key, text).status = status
          /\ Body(status, code, key, text).code = code /\ Body(status, code, key, text).key = key
    BY DEF Body
  <1>4. ChainBody(e) =
          Body(HttpStatus(NumberOf(e)), NumberOf(e), NameOf(e), ErrorMessage(NumberOf(e), DetectServer))
    BY <1>1, <1>2 DEF ChainBody, NameOf
  <1>5. HandlerBody(e, l) =
          Body(HttpStatus(NumberOf(e)), NumberOf(e), NameOf(e), ErrorMessage(NumberOf(e), l))
    BY <1>1, <1>2 DEF HandlerBody, NameOf
  <1> QED
    BY <1>3, <1>4, <1>5 DEF Tells

\* AppError.from leaves the number as it is, unless another is found in the message.
LEMMA ConversionKeeps ==
    ASSUME NEW e, Foreseen(e), e.class \notin {"AuthError", "ZodError"},
           e.class \in {"AppError", "value"} \/ e.code = 0
    PROVE  Foreseen(Converted(e)) /\ NumberOf(Converted(e)) = NumberOf(e)
           /\ NameOf(Converted(e)) = NameOf(e)
  <1>1. HasKey(NumberOf(e)) /\ IsCode(NumberOf(e))
    BY AnsweredByNumber
  <1>2. CASE e.class = "AppError"
    <2>1. Converted(e) = e
      BY <1>2 DEF Converted
    <2> QED
      BY <2>1
  <1>3. CASE e.class # "AppError"
    <2> DEFINE f == AppError(NumberOf(e))
    <2>1. Converted(e) = f
      <3>1. e.class = "value" => NumberOf(e) = Code("INTERNAL_SERVER_ERROR")
        BY SMT DEF NumberOf
      <3>2. e.class # "value" => NumberOf(e) = ClassifyError(e)
        BY <1>3, SMT DEF NumberOf
      <3> QED
        BY <1>3, <3>1, <3>2 DEF Converted, FromKey
    <2>2. f.class = "AppError" /\ f.code = NumberOf(e)
      BY <1>1 DEF AppError, Exception
    <2> HIDE DEF f
    <2>3. NumberOf(f) = NumberOf(e)
      BY <2>2, SMT DEF NumberOf
    <2>4. Foreseen(f)
      BY <1>1, <2>2, SMT DEF Foreseen
    <2>5. NameOf(f) = NameOf(e)
      BY <2>2, <2>3, SMT DEF NameOf
    <2> QED
      BY <2>1, <2>3, <2>4, <2>5
  <1> QED
    BY <1>2, <1>3

\* The bodies of the auth handlers, in both formats and whatever their options.
LEMMA AuthTells ==
    ASSUME NEW e, Foreseen(e), e.class = "AuthError"
    PROVE  /\ \A option : Tells(AuthBody(e, option), e)
           /\ Tells(Rewritten(LegacyBody(e)), e)
           /\ LegacyBody(e).code = NameOf(e) /\ LegacyBareBody(e).code = NoKey
  <1>1. e.key \in DOMAIN AuthErrorCodeMap /\ e.key # NoKey
    BY ClientConstantsOK DEF Foreseen
  <1>2. NumberOf(e) = Mapped(e.key) /\ NameOf(e) = e.key
    BY <1>1, SMT DEF NumberOf, Mapped, NameOf
  <1>3. NumberOf(e) # 0
    BY AnsweredByNumber, SMT DEF IsCode
  <1>4. AuthSpec(e) = [status |-> e.statusCode, key |-> e.key, code |-> NumberOf(e),
                       legacyCode |-> e.key]
    BY <1>2 DEF AuthSpec
  <1>5. \A status, code, key, text :
          Body(status, code, key, text).code = code /\ Body(status, code, key, text).key = key
    BY DEF Body
  <1>6. BuiltCode(AuthSpec(e)) = NumberOf(e)
    BY <1>3, <1>4 DEF BuiltCode
  <1>7. ASSUME NEW option
        PROVE  Tells(AuthBody(e, option), e)
    <2>1. AuthBody(e, option) = Body(AuthSpec(e).status, NumberOf(e), e.key,
                                     ErrorMessage(NumberOf(e), ResolveAuthLocale(option)))
      BY <1>4, <1>6 DEF AuthBody
    <2> QED
      BY <1>2, <1>5, <2>1 DEF Tells
  <1>8. /\ LegacyBody(e) = [status |-> e.statusCode, code |-> e.key]
        /\ LegacyBareBody(e).code = NoKey
    BY <1>4 DEF LegacyBody, LegacyBareBody
  <1>9. Tells(Rewritten(LegacyBody(e)), e)
    <2> DEFINE spec == [status |-> e.statusCode, key |-> e.key, code |-> NumberOf(e)]
    <2>1. BuiltCode(spec) = NumberOf(e)
      BY <1>3 DEF BuiltCode
    <2>2. Rewritten(LegacyBody(e)) = Body(e.statusCode, BuiltCode(spec), e.key, OwnText)
      BY <1>1, <1>2, <1>8 DEF Rewritten
    <2> HIDE DEF spec
    <2> QED
      BY <1>2, <1>5, <2>1, <2>2 DEF Tells
  <1> QED
    BY <1>2, <1>7, <1>8, <1>9

\* What is read of an error, whichever of the ways that know it it came.
LEMMA WaysTell ==
    ASSUME NEW e, Foreseen(e), NEW way \in Agreeing(e)
    PROVE  /\ Tells(Read(way, e), e)
           /\ way \in SameStatus => Read(way, e).status = HttpStatus(NumberOf(e))
  <1>2. ASSUME NEW body, Tells(body, e)
        PROVE  Tells(ReadApiError(body), e) /\ ReadApiError(body).status = body.status
    BY <1>2 DEF ReadApiError, Tells
  <1>3. \A status, code, key, text :
          /\ Body(status, code, key, text).status = status
          /\ Body(status, code, key, text).code = code /\ Body(status, code, key, text).key = key
    BY DEF Body
  <1>4. CASE way = "chain"
    BY <1>2, <1>4, ServerTells DEF Read
  <1>5. CASE way = "handler"
    BY <1>2, <1>5, ServerTells DEF Read
  <1>6. CASE way = "processor"
    <2>1. ProcessorAnswer(e).status = HttpStatus(NumberOf(e)) /\ ProcessorAnswer(e).code = NumberOf(e)
      BY <1>6, AnsweredByNumber DEF ByNumber
    <2>2. Tells(ProcessorBody(e), e) /\ ProcessorBody(e).status = HttpStatus(NumberOf(e))
      BY <1>3, <2>1 DEF ProcessorBody, Tells
    <2> QED
      BY <1>2, <1>6, <2>2 DEF Read
  <1>7. CASE way = "table"
    <2>1. Tells(TableBody(e), e) /\ TableBody(e).status = HttpStatus(NumberOf(e))
      BY ServerTells DEF TableBody
    <2> QED
      BY <1>2, <1>7, <2>1 DEF Read
  <1>8. CASE way = "converted"
    <2>1. /\ e.class \notin {"AuthError", "ZodError"}
          /\ e.class \in {"AppError", "value"} \/ e.code = 0
      BY <1>8, SMT DEF Agreeing
    <2>2. /\ Foreseen(Converted(e)) /\ NumberOf(Converted(e)) = NumberOf(e)
          /\ NameOf(Converted(e)) = NameOf(e)
      BY <2>1, ConversionKeeps
    <2>3. /\ Tells(ChainBody(Converted(e)), e)
          /\ ChainBody(Converted(e)).status = HttpStatus(NumberOf(e))
      BY <2>2, ServerTells DEF Tells
    <2> QED
      BY <1>2, <1>8, <2>3 DEF Read
  <1>9. CASE way \in {"auth", "authLocale", "legacy", "legacyBare", "rewritten"}
    <2>1. e.class = "AuthError"
      BY <1>9, SMT DEF Agreeing
    <2>2. /\ \A option : Tells(AuthBody(e, option), e)
          /\ Tells(Rewritten(LegacyBody(e)), e)
          /\ LegacyBody(e).code = NameOf(e) /\ LegacyBareBody(e).code = NoKey
      BY <2>1, AuthTells
    <2>3. /\ Tells(Body(LegacyBody(e).status, 0, LegacyBody(e).code, OwnText), e)
          /\ Tells(Body(LegacyBareBody(e).status, 0, LegacyBareBody(e).code, OwnText), e)
      BY <1>3, <2>2 DEF Tells
    <2>4. way \notin SameStatus
      BY <1>9, SMT DEF SameStatus
    <2> QED
      BY <1>2, <1>9, <2>2, <2>3, <2>4 DEF Read, ReadLegacyError
  <1>10. CASE way = "boundary"
    <2>1. e.class = "AppError"
      BY <1>10, SMT DEF Agreeing
    <2>2. NumberOf(e) = e.code
      BY <2>1, SMT DEF NumberOf
    <2>3. Tells(Extracted(e), e)
      BY <1>3, <2>1, <2>2 DEF Extracted, Tells
    <2>4. way \notin SameStatus
      BY <1>10, SMT DEF SameStatus
    <2> QED
      BY <1>2, <1>10, <2>3, <2>4 DEF Read
  <1>11. way \in {"chain", "handler", "processor", "table", "converted", "auth", "authLocale",
                  "legacy", "legacyBare", "rewritten", "boundary"}
    BY SMT DEF Agreeing
  <1> QED
    BY <1>4, <1>5, <1>6, <1>7, <1>8, <1>9, <1>10, <1>11

\* Whatever is thrown, however the answers were written and in whatever languages: two
\* ways that know an error give a client the same number, key and status for it, where
\* they give one at all, and a card has words for it in both of its languages.
THEOREM ErrorsReadTheSame == ClientSpec => []SameErrorReadsSame
  <1>1. ClientInit => SameErrorReadsSame
    BY DEF ClientInit, SameErrorReadsSame, Failed
  <1>2. SameErrorReadsSame /\ [ClientNext]_clientVars => SameErrorReadsSame'
    <2> SUFFICES ASSUME SameErrorReadsSame, [ClientNext]_clientVars
                 PROVE  SameErrorReadsSame'
      OBVIOUS
    <2>1. CASE shown' = <<>>
      BY <2>1 DEF SameErrorReadsSame, Failed
    <2>2. CASE shown' = shown
      BY <2>2 DEF SameErrorReadsSame, Failed
    <2>3. ASSUME NEW e \in ClientError, Fail(e)
          PROVE  SameErrorReadsSame'
      <3>1. shown' = [error |-> e, page |-> DetectClient, read |-> [way \in Ways |-> Read(way, e)]]
        BY <2>3 DEF Fail
      <3>2. shown'.error = e /\ \A way \in Ways : shown'.read[way] = Read(way, e)
        BY <3>1
      <3>3. Agreeing(e) \subseteq Ways
        BY SMT DEF Agreeing, Ways
      <3>4. ASSUME Foreseen(e), NEW way \in Agreeing(e), NEW other \in Agreeing(e)
            PROVE  LET r == shown'.read[way]
                       s == shown'.read[other]
                   IN  /\ NoKey \in {r.key, s.key} \/ r.key = s.key
                       /\ 0 \in {r.code, s.code} \/ r.code = s.code
                       /\ {way, other} \subseteq SameStatus => r.status = s.status
                       /\ \A l \in CardLocales : Card(r.code, l).entry # 0
        <4> DEFINE r == shown'.read[way]
                   s == shown'.read[other]
        <4>1. r = Read(way, e) /\ s = Read(other, e)
          BY <3>2, <3>3
        <4>2. /\ Tells(r, e) /\ Tells(s, e)
              /\ way \in SameStatus => r.status = HttpStatus(NumberOf(e))
              /\ other \in SameStatus => s.status = HttpStatus(NumberOf(e))
          BY <3>4, <4>1, WaysTell
        <4> HIDE DEF r, s
        <4>3. /\ NoKey \in {r.key, s.key} \/ r.key = s.key
              /\ 0 \in {r.code, s.code} \/ r.code = s.code
              /\ {way, other} \subseteq SameStatus => r.status = s.status
          BY <4>2 DEF Tells
        <4>4. \A l \in CardLocales : Card(r.code, l).entry # 0
          BY <3>4, <4>2, AnsweredByNumber, CardHasWords DEF Tells
        <4> QED
          BY <4>3, <4>4 DEF r, s
      <3> QED
        BY <3>2, <3>4 DEF SameErrorReadsSame
    <2> QED
      BY <2>1, <2>2, <2>3
      DEF ClientNext, ChooseLocale, Route, ClearLocale, CookieExpires, FillStorage, Accept, clientVars
  <1> QED
    BY <1>1, <1>2, PTL DEF ClientSpec
==============================================================================
