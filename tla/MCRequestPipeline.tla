--------------------------- MODULE MCRequestPipeline ---------------------------
(* RequestPipeline with two requests in flight and an error of each kind     *)
(* that the error paths tell apart.  The error of the limiter is the one     *)
(* of a rate limit type that has none: its words make it a 429.              *)
(* The windows of RateLimits, of which the limiter of a pipeline shows only  *)
(* the verdict, and ClientErrors, what becomes of the answers in a browser,  *)
(* share no state with the requests: one of the three moves while the others *)
(* are at their beginning.                                                   *)
EXTENDS RequestPipeline, ClientErrors, RateLimits

MCShape ==
    {[method |-> "GET", contentType |-> None, body |-> FALSE, origin |-> "other", referer |-> None],
     [method |-> "POST", contentType |-> None, body |-> TRUE, origin |-> "allowed", referer |-> None],
     [method |-> "POST", contentType |-> "allowed", body |-> TRUE, origin |-> None, referer |-> "other"],
     [method |-> "OPTIONS", contentType |-> None, body |-> FALSE, origin |-> "other", referer |-> None]}

MCHandlerErrors ==
    {AppError(40401), AppError(12345),
     Exception("ZodError", 0, NoKey, 0, NoKey, {}),
     Exception("AuthError", 0, "SOME_PLUGIN_CODE", 403, NoKey, {}),
     Exception("Prisma", 0, "P2003", 0, NoKey, {"prisma"}),
     Exception("Error", 0, NoKey, 0, NoKey, {"database"}),
     Exception("value", 0, NoKey, 0, NoKey, {})}

MCLimiterErrors == {Exception("Error", 0, NoKey, 0, NoKey, {"rate limit"})}

MCClientErrors ==
    MCHandlerErrors \cup {FromKey(key) : key \in RequestFactories \cup ServiceFactories} \cup
    {AppError(40499),
     Exception("AuthError", 0, "TOKEN_INVALID", 400, NoKey, {}),
     Exception("AuthError", 0, "PASSWORD_TOO_SHORT", 400, NoKey, {}),
     Exception("AuthError", 0, "EMAIL_SEND_FAILED", 500, NoKey, {}),
     Exception("PrismaValidation", 0, NoKey, 0, NoKey, {}),
     Exception("Error", 0, NoKey, 0, NoKey, {"not found"}),
     Exception("Error", 40905, NoKey, 0, NoKey, {"not found"})}

MCLanguages == {<<"fr", "ja">>, <<"en">>}

ClientAtRest == ClientInit /\ accepted = <<"en">>
MCInit == PipelineInit /\ ClientAtRest /\ RateInit

PipelineMoves == ClientAtRest /\ RateInit /\ PipelineNext /\ UNCHANGED <<clientVars, rateVars>>
ClientMoves == PipelineInit /\ RateInit /\ ClientNext /\ UNCHANGED <<pipelineVars, rateVars>>
LimiterMoves == PipelineInit /\ ClientAtRest /\ RateNext /\ UNCHANGED <<pipelineVars, clientVars>>
MCNext == PipelineMoves \/ ClientMoves \/ LimiterMoves

\* Timers fire.
MCSpec ==
    MCInit /\ [][MCNext]_<<pipelineVars, clientVars, rateVars>>
           /\ \A r \in Request : WF_pipelineVars(Timeout(r))
=============================================================================
