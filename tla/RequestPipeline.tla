---------------------------- MODULE RequestPipeline ----------------------------
(***************************************************************************)
(* The life of a request behind the wrappers of next/middleware: the chain *)
(* of middlewares with its timeouts and its continueOnError option, the    *)
(* authentication, the rate limit, the handler, and the answer, which      *)
(* ErrorAnswers computes when something was thrown.  A request runs        *)
(* synchronously from one await to the next; these stretches are the       *)
(* actions.                                                                *)
(*                                                                         *)
(* The endpoints: the four standard wrappers, a chain of withCustomApi     *)
(* that continues on errors and sets no timeout, and a handler inside of   *)
(* withErrorHandler or of withErrorHandling, without a chain.              *)
(***************************************************************************)
EXTENDS ErrorAnswers, FiniteSets, FiniteSetsExt

CONSTANTS
    Request,        \* places for requests in flight; a place is used again
    Token,          \* the access tokens
    Shape,          \* what securityMiddleware and corsMiddleware look at
    HandlerErrors,  \* what a handler may throw
    LimiterErrors,  \* what isEnabled, check and the lookup of the limiter may throw
    None

Role == {"user", "admin"}

ASSUME PipelineConstantsOK ==
    /\ None \notin Token /\ None \notin HandlerErrors /\ None \notin LimiterErrors /\ None \notin Role
    /\ \A e \in HandlerErrors \cup LimiterErrors : Constructed(e)

VARIABLES
    req,     \* per place: the request
    revoked  \* the access tokens that were revoked

pipelineVars == <<req, revoked>>

Standard(guards) == <<"errors", "security", "cors", "init">> \o guards \o <<"limit", "log">>

\* The chains of the wrappers, and the one of the example of withCustomApi.
Chain == [public |-> Standard(<<>>), auth |-> Standard(<<"auth">>),
          admin |-> Standard(<<"auth", "role">>), optional |-> Standard(<<"optionalAuth">>),
          custom |-> <<"errors", "init", "limit", "log">>, wrapped |-> <<>>, processed |-> <<>>]

Endpoint == DOMAIN Chain
Timed == {"public", "auth", "admin", "optional"}
Continues == {"custom"}

HandlerAt(q) == Len(Chain[q.endpoint]) + 1
Stage(q) == IF q.pos \in DOMAIN Chain[q.endpoint] THEN Chain[q.endpoint][q.pos]
            ELSE IF q.pos = HandlerAt(q) THEN "handler" ELSE "idle"

Unstarted(endpoint, token) ==
    [endpoint |-> endpoint, token |-> token,
     dead |-> token \in revoked,  \* history: revoked before the request came
     pos |-> 0,                   \* the middleware that waits, HandlerAt, or 0: nothing runs
     checked |-> FALSE,           \* auth: the token is not revoked, its verification runs
     user |-> None,               \* context.user, as its role
     cleared |-> FALSE,           \* history: the rate limit let the request pass
     open |-> 0,                  \* the middlewares entered and not left
     runs |-> 0,                  \* how often the handler was started
     answer |-> None]

PipelineInit ==
    /\ revoked = {}
    /\ req = [r \in Request |-> Unstarted("public", None)]

------------------------------------------------------------------------------
(* The chain.                                                              *)

\* The first answer wins.  Of a request that is over only the answer is kept.
Ended(q, answer) ==
    [Unstarted(q.endpoint, None) EXCEPT !.answer = IF q.answer = None THEN answer ELSE q.answer]

ErrorAnswer(q, e) ==
    CASE q.endpoint = "wrapped" -> HandlerAnswer(e)
      [] q.endpoint = "processed" -> ProcessorAnswer(e)
      [] q.endpoint \notin {"wrapped", "processed"} -> ChainAnswer(e)

Waits == {"auth", "optionalAuth", "limit"}

\* next(), up to the next middleware that waits for something, or the handler.
\* The index only grows: after the last middleware every next() is the handler.
Proceed(q) ==
    LET stops == {i \in DOMAIN Chain[q.endpoint] : i > q.pos /\ Chain[q.endpoint][i] \in Waits}
        to == Min(stops \cup {HandlerAt(q)})
        entered == {i \in DOMAIN Chain[q.endpoint] : q.pos < i /\ i <= to}
    IN  [q EXCEPT !.pos = to, !.checked = FALSE, !.open = @ + Cardinality(entered),
                  !.runs = IF to = HandlerAt(q) THEN @ + 1 ELSE @]

\* The innermost middleware fails.  Under continueOnError its frame calls next()
\* again; otherwise, and where only the error handler is left, there is an answer.
Thrown(q, e) ==
    IF q.endpoint \in Continues /\ q.open > 1
    THEN Proceed([q EXCEPT !.open = @ - 1])
    ELSE Ended(q, ErrorAnswer(q, e))

------------------------------------------------------------------------------
(* A request comes in.                                                     *)

\* verifyOrigin
OriginOK(s) ==
    \/ s.method \notin {"POST", "PUT", "PATCH", "DELETE"}
    \/ s.origin = "allowed"
    \/ s.origin = None /\ s.referer = "allowed"

\* The order of the checks of securityMiddleware, and the preflight of corsMiddleware.
Refusal(s) ==
    CASE s.method = "TRACE" -> Answer(40500, 405)
      [] s.method \in {"POST", "PUT", "PATCH"} /\ s.contentType = None /\ s.body -> Answer(41500, 415)
      [] s.method \in {"POST", "PUT", "PATCH"} /\ s.contentType = "other" -> Answer(41501, 415)
      [] OTHER -> IF ~OriginOK(s) THEN Answer(40300, 403)
                  ELSE IF s.method = "OPTIONS" THEN [code |-> 0, status |-> 204] ELSE None

\* A request without a token does not wait for the authentication.
Authenticating(q) ==
    CASE Stage(q) = "auth" /\ q.token = None -> Thrown(q, FromKey("UNAUTHORIZED"))
      [] Stage(q) = "optionalAuth" /\ q.token = None -> Proceed(q)
      [] OTHER -> q

\* The tokens that an endpoint looks at.
Credentials(endpoint) ==
    IF endpoint \in {"auth", "admin", "optional"} THEN Token \cup {None} ELSE {None}

\* A standard wrapper answers at once.
Refuse(r) ==
    /\ Stage(req[r]) = "idle"
    /\ \E endpoint \in Timed, s \in Shape :
        /\ Refusal(s) # None
        /\ req' = [req EXCEPT ![r] = Ended(Unstarted(endpoint, None), Refusal(s))]
    /\ UNCHANGED revoked

\* The request is let in and runs up to its first await.
Receive(r) ==
    /\ Stage(req[r]) = "idle"
    /\ \E s \in Shape : Refusal(s) = None
    /\ \E endpoint \in Endpoint : \E token \in Credentials(endpoint) :
        req' = [req EXCEPT ![r] = Authenticating(Proceed(Unstarted(endpoint, token)))]
    /\ UNCHANGED revoked

------------------------------------------------------------------------------
(* The awaits of the middlewares and of the handler.                       *)

\* optionalAuthMiddleware ignores what authMiddleware answers.
AuthFails(q, key) == IF Stage(q) = "auth" THEN Thrown(q, FromKey(key)) ELSE Proceed(q)

\* Faulty variant: a revocation list that does not answer lets the token pass.
CheckRevokedOpen(r) ==
    /\ Stage(req[r]) \in {"auth", "optionalAuth"} /\ ~req[r].checked
    /\ req' = [req EXCEPT ![r] = IF req[r].token \in revoked THEN AuthFails(@, "INVALID_TOKEN")
                                 ELSE [@ EXCEPT !.checked = TRUE]]
       \/ req' = [req EXCEPT ![r].checked = TRUE]
    /\ UNCHANGED revoked

\* isAccessTokenRevoked answers, or fails.
CheckRevoked(r) ==
    /\ Stage(req[r]) \in {"auth", "optionalAuth"} /\ ~req[r].checked
    /\ \/ req[r].token \notin revoked /\ req' = [req EXCEPT ![r].checked = TRUE]
       \/ req' = [req EXCEPT ![r] = AuthFails(@, "INVALID_TOKEN")]
    /\ UNCHANGED revoked

\* The user is set; adminMiddleware follows without an await.
Verified(q, role) ==
    IF q.endpoint = "admin" /\ role # "admin"
    THEN Thrown([q EXCEPT !.user = role], FromKey("FORBIDDEN"))
    ELSE Proceed([q EXCEPT !.user = role])

\* What verifyAccessToken throws, as authMiddleware reports it: the token has
\* expired, or its signature, its claims or its type are not those of an access token.
Rejections == {"TOKEN_EXPIRED", "INVALID_TOKEN"}

\* verifyAccessToken answers, and the token names a role, or throws.
Verify(r) ==
    /\ req[r].checked
    /\ \/ \E role \in Role : req' = [req EXCEPT ![r] = Verified(@, role)]
       \/ \E key \in Rejections : req' = [req EXCEPT ![r] = AuthFails(@, key)]
    /\ UNCHANGED revoked

\* isEnabled and check.  What the windows of the limiter grant is in RateLimits.
Limited(r) ==
    /\ Stage(req[r]) = "limit"
    /\ \/ req' = [req EXCEPT ![r] = Proceed([@ EXCEPT !.cleared = TRUE])]
       \/ \E e \in {FromKey("RATE_LIMIT_EXCEEDED")} \cup LimiterErrors :
              req' = [req EXCEPT ![r] = Thrown(@, e)]
    /\ UNCHANGED revoked

\* The handler returns or throws.
Handle(r) ==
    /\ Stage(req[r]) = "handler"
    /\ \/ req' = [req EXCEPT ![r] = Ended(@, [code |-> 0, status |-> 200])]
       \/ \E e \in HandlerErrors : req' = [req EXCEPT ![r] = Thrown(@, e)]
    /\ UNCHANGED revoked

TimeoutError == Exception("Error", 0, NoKey, 0, NoKey, {})

\* Faulty variant: the handler is outside of every timeout.
TimeoutBeforeHandler(r) ==
    /\ Stage(req[r]) \notin {"idle", "handler"} /\ req[r].endpoint \in Timed /\ req[r].answer = None
    /\ req' = [req EXCEPT ![r].answer = ChainAnswer(TimeoutError)]
    /\ UNCHANGED revoked

\* A timer fires.  Every middleware has one, and those of the inner ones start
\* first, so that the error handler is there to answer.  What has timed out is
\* not stopped: it goes on, and its own answer is dropped.
Timeout(r) ==
    /\ Stage(req[r]) # "idle" /\ req[r].endpoint \in Timed /\ req[r].answer = None
    /\ req' = [req EXCEPT ![r].answer = ChainAnswer(TimeoutError)]
    /\ UNCHANGED revoked

\* A logout elsewhere.
Revoke(t) ==
    /\ t \notin revoked
    /\ revoked' = revoked \cup {t}
    /\ UNCHANGED req

PipelineNext ==
    \/ \E r \in Request :
          \/ Refuse(r) \/ Receive(r)
          \/ CheckRevoked(r) \/ Verify(r) \/ Limited(r) \/ Handle(r) \/ Timeout(r)
    \/ \E t \in Token : Revoke(t)

\* Timers fire.  Nothing else is sure to go on: a handler may hang.
PipelineSpec ==
    PipelineInit /\ [][PipelineNext]_pipelineVars /\ \A r \in Request : WF_pipelineVars(Timeout(r))

------------------------------------------------------------------------------
(* Properties.                                                             *)

AnswerRecord == [code : Nat, status : 200 .. 599]

\* Types, and: frames and handler runs never exceed the length of the chain by
\* more than the handler itself.
PipelineTypeOK ==
    /\ revoked \subseteq Token
    /\ \A r \in Request :
        LET q == req[r] IN
        /\ q.endpoint \in Endpoint
        /\ q.token \in Token \cup {None} /\ q.user \in Role \cup {None}
        /\ q.pos \in 0 .. HandlerAt(q)
        /\ q.dead \in BOOLEAN /\ q.checked \in BOOLEAN /\ q.cleared \in BOOLEAN
        /\ q.open \in 0 .. Len(Chain[q.endpoint])
        /\ q.runs \in 0 .. (IF q.endpoint \in Continues THEN Len(Chain[q.endpoint]) ELSE 1)
        /\ q.answer \in AnswerRecord \cup {None}

\* While a handler runs, also one whose request has timed out meanwhile, all the
\* guards of its endpoint have let the request pass: the limiter on the standard
\* endpoints; a verified user whose token had not been revoked when the request
\* came, on the endpoints that ask for one; the admin role.  And a user is never
\* one of a token revoked by then, on the optional endpoint either.
GuardsHold ==
    \A r \in Request :
        LET q == req[r] IN
        Stage(q) = "handler" =>
            /\ q.endpoint \in Timed => q.cleared
            /\ q.endpoint \in {"auth", "admin"} => q.user # None
            /\ q.endpoint = "admin" => q.user = "admin"
            /\ q.user # None => ~q.dead

Unanswered(r) == Stage(req[r]) # "idle" /\ req[r].answer = None

\* A request behind a standard wrapper is answered, even if its handler, the
\* revocation list or the limiter never answers.
EveryRequestAnswered ==
    \A r \in Request : Unanswered(r) /\ req[r].endpoint \in Timed ~> ~Unanswered(r)

\* The bounds on frames and handler runs, and the guards.
PipelineInv == PipelineTypeOK /\ GuardsHold
==============================================================================
