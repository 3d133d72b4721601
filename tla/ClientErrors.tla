----------------------------- MODULE ClientErrors -----------------------------
(***************************************************************************)
(* What the user of a browser reads when something fails.  The server puts *)
(* the answers of ErrorAnswers into bodies of different shapes and writes  *)
(* words in the language that it detects, or in a fixed one; readApiError  *)
(* reads them.  The components of ErrorBoundary.tsx draw a number in the   *)
(* language they are given; a page that wants to know the language asks    *)
(* detectClient.  The language is kept in two places, localStorage and a   *)
(* cookie, and Next.js has a cookie of its own.                            *)
(***************************************************************************)
EXTENDS ErrorAnswers, FiniteSetsExt

CONSTANTS
    ClientError,     \* what may be thrown
    Languages,       \* what a browser may accept, in order of preference
    AuthLocale       \* the "locale" option of the auth handlers that have one

Locales == {"ko", "en", "ja"}

ASSUME ClientConstantsOK ==
    /\ NoKey \notin Locales \cup DOMAIN AuthErrorCodeMap
    /\ Languages \subseteq Seq(STRING) \ {<<>>}
    /\ AuthLocale \in Locales

VARIABLES
    stored,      \* localStorage.locale
    cookie,      \* the cookie "locale"
    nextCookie,  \* the cookie NEXT_LOCALE, which the routing of Next.js writes
    accepted,    \* Accept-Language; its first entry is navigator.language
    full,        \* localStorage takes no more writes
    choice,      \* history: the last language that the user chose and that was kept
    shown        \* history: the last failure, at an endpoint of each kind

clientVars == <<stored, cookie, nextCookie, accepted, full, choice, shown>>

ClientInit ==
    /\ stored = NoKey /\ cookie = NoKey /\ nextCookie = NoKey
    /\ accepted \in Languages
    /\ full = FALSE /\ choice = NoKey /\ shown = <<>>

------------------------------------------------------------------------------
(* The language.                                                           *)

\* The first that is supported, or Korean.
FirstLocale(candidates) ==
    LET known == {i \in DOMAIN candidates : candidates[i] \in Locales}
    IN  IF known = {} THEN "ko" ELSE candidates[Min(known)]

DetectClient == FirstLocale(<<stored, cookie, Head(accepted)>>)

\* Faulty variant: the cookie of Next.js goes first.
DetectServerNextFirst == FirstLocale(<<nextCookie, cookie>> \o accepted)

DetectServer == FirstLocale(<<cookie, nextCookie>> \o accepted)

------------------------------------------------------------------------------
(* The words.                                                              *)

\* The dictionaries, as the codes that they have words for.
koMessages == {Code(key) : key \in ErrorKeys}
enMessages == {Code(key) : key \in ErrorKeys}
jaMessages == {Code(key) : key \in ErrorKeys}

MessageRegistry == [ko |-> koMessages, en |-> enMessages, ja |-> jaMessages]

\* getErrorMessage: entry 0 is the default message.
ErrorMessage(code, locale) ==
    [locale |-> locale, entry |-> IF code \in MessageRegistry[locale] THEN code ELSE 0]

\* The message of the error itself, in whatever language it was written.
OwnText == [locale |-> NoKey, entry |-> 0]

------------------------------------------------------------------------------
(* The bodies.                                                             *)

KeyOf(code) == CHOOSE key \in ErrorKeys : Code(key) = code
HasKey(code) == \E key \in ErrorKeys : Code(key) = code

RepresentativeKeys ==
    << <<401, "UNAUTHORIZED">>, <<403, "FORBIDDEN">>, <<404, "NOT_FOUND">>, <<409, "CONFLICT">>,
       <<422, "BUSINESS_RULE_VIOLATION">>, <<429, "RATE_LIMIT_EXCEEDED">>,
       <<503, "SERVICE_UNAVAILABLE">> >>

\* representativeCode, as a key.
RepresentativeKey(status) ==
    IF \E i \in DOMAIN RepresentativeKeys : RepresentativeKeys[i][1] = status
    THEN RepresentativeKeys[CHOOSE i \in DOMAIN RepresentativeKeys :
                                RepresentativeKeys[i][1] = status][2]
    ELSE IF status >= 500 THEN "INTERNAL_SERVER_ERROR" ELSE "BAD_REQUEST"

Body(status, code, key, text) == [status |-> status, code |-> code, key |-> key, text |-> text]

\* createErrorResponse of the chain.  A code of 0: the framework had to answer.
ChainBody(e) ==
    LET a == ChainAnswer(e)
        key == IF e.class = "AuthError" THEN e.key
               ELSE IF HasKey(a.code) THEN KeyOf(a.code) ELSE RepresentativeKey(a.status)
    IN  IF a.code = 0 THEN Body(a.status, 0, NoKey, OwnText)
        ELSE Body(a.status, a.code, key, ErrorMessage(a.code, DetectServer))

\* errorToResponse of error-handler.ts
HandlerBody(e, locale) ==
    LET a == HandlerAnswer(e)
        key == IF e.class = "AuthError" THEN e.key
               ELSE IF HasKey(a.code) THEN KeyOf(a.code) ELSE "INTERNAL_SERVER_ERROR"
    IN  IF a.code = 0 THEN Body(a.status, 0, NoKey, OwnText)
        ELSE Body(a.status, a.code, key, ErrorMessage(a.code, locale))

\* withErrorHandling writes neither a key nor words for the user.
ProcessorBody(e) == Body(ProcessorAnswer(e).status, ProcessorAnswer(e).code, NoKey, OwnText)

\* ErrorResponse.<name>(): an AppError at the spot, and no request to ask for a language.
TableBody(e) == HandlerBody(e, "ko")

\* AppError.from: a number in brackets in the message, as AppErrors have it in
\* theirs, goes before what the message says.
Converted(e) ==
    CASE e.class = "AppError" -> e
      [] e.class = "value" -> FromKey("INTERNAL_SERVER_ERROR")
      [] e.class \notin {"AppError", "value"} /\ e.code # 0 -> AppError(e.code)
      [] e.class \notin {"AppError", "value"} /\ e.code = 0 -> AppError(ClassifyError(e))

\* The refusals of securityMiddleware, which differ in their number: a body of its
\* own, in Korean and without a key.  This is the one for the origin.
SecurityBody == Body(403, 40300, NoKey, [locale |-> "ko", entry |-> 40300])

Mapped(key) == IF key \in DOMAIN AuthErrorCodeMap THEN Code(AuthErrorCodeMap[key]) ELSE 0

\* Faulty variant: the code of an AuthError is not looked up.
AuthSpecUnmapped(e) ==
    IF e.class = "AuthError"
    THEN [status |-> e.statusCode, key |-> e.key, code |-> 0, legacyCode |-> e.key]
    ELSE [status |-> 500, key |-> "INTERNAL_SERVER_ERROR", code |-> 0, legacyCode |-> NoKey]

\* What the login and register handlers answer: fromAuthError, or the error at
\* the end of the handler.
AuthSpec(e) ==
    IF e.class = "AuthError"
    THEN [status |-> e.statusCode, key |-> e.key, code |-> Mapped(e.key), legacyCode |-> e.key]
    ELSE [status |-> 500, key |-> "INTERNAL_SERVER_ERROR", code |-> 0, legacyCode |-> NoKey]

\* The number of buildErrorBody: the one given, that of the key, or that of the status.
BuiltCode(spec) ==
    IF spec.code # 0 THEN spec.code
    ELSE IF spec.key \in ErrorKeys THEN Code(spec.key) ELSE Code(RepresentativeKey(spec.status))

\* resolveAuthLocale: the option, if there is one, goes before what the request says.
ResolveAuthLocale(option) == IF option # NoKey THEN option ELSE DetectServer

AuthBody(e, option) ==
    LET spec == AuthSpec(e)
    IN  Body(spec.status, BuiltCode(spec), spec.key,
             ErrorMessage(BuiltCode(spec), ResolveAuthLocale(option)))

\* The same under errorFormat "legacy": a string, and a code that is a key.
LegacyBody(e) == [status |-> AuthSpec(e).status, code |-> AuthSpec(e).legacyCode]

\* The handlers that pass no includeCode write the string alone.
LegacyBareBody(e) == [status |-> AuthSpec(e).status, code |-> NoKey]

\* withStandardErrors around a legacy answer: the string becomes both messages.
Rewritten(legacy) ==
    LET key == IF legacy.code # NoKey THEN legacy.code ELSE RepresentativeKey(legacy.status)
        spec == [status |-> legacy.status, key |-> key, code |-> Mapped(key)]
    IN  Body(legacy.status, BuiltCode(spec), key, OwnText)

\* extractErrorInfo, of an error that was thrown while the page was drawn: no
\* answer, hence no status.
Extracted(e) == Body(0, IF e.class = "AppError" THEN e.code ELSE 50001, NoKey, OwnText)

------------------------------------------------------------------------------
(* The reader.                                                             *)

\* readApiError on a standard body, with the status of the response.
ReadApiError(body) ==
    [status |-> body.status, key |-> body.key, code |-> body.code, text |-> body.text]

\* readApiError on a legacy body: no number, and the string code is the key.
ReadLegacyError(body) == ReadApiError(Body(body.status, 0, body.code, OwnText))

\* ErrorCard and ErrorBoundary know two languages, and detect none: Korean, unless
\* the page passes one.
CardLocales == {"ko", "en"}

\* What they draw for a number, or for none.
Card(code, locale) == ErrorMessage(IF code # 0 THEN code ELSE 50002, locale)

Ways == {"chain", "handler", "processor", "table", "converted", "security", "auth", "authLocale",
         "legacy", "legacyBare", "rewritten", "rewrittenBare", "boundary"}

Read(way, e) ==
    CASE way = "chain"         -> ReadApiError(ChainBody(e))
      [] way = "handler"       -> ReadApiError(HandlerBody(e, DetectServer))
      [] way = "processor"     -> ReadApiError(ProcessorBody(e))
      [] way = "table"         -> ReadApiError(TableBody(e))
      [] way = "converted"     -> ReadApiError(ChainBody(Converted(e)))
      [] way = "security"      -> ReadApiError(SecurityBody)
      [] way = "auth"          -> ReadApiError(AuthBody(e, NoKey))
      [] way = "authLocale"    -> ReadApiError(AuthBody(e, AuthLocale))
      [] way = "legacy"        -> ReadLegacyError(LegacyBody(e))
      [] way = "legacyBare"    -> ReadLegacyError(LegacyBareBody(e))
      [] way = "rewritten"     -> ReadApiError(Rewritten(LegacyBody(e)))
      [] way = "rewrittenBare" -> ReadApiError(Rewritten(LegacyBareBody(e)))
      [] way = "boundary"      -> ReadApiError(Extracted(e))

------------------------------------------------------------------------------
(* The actions.                                                            *)

\* setClientLocale: when localStorage refuses, the cookie is not written either.
ChooseLocale(l) ==
    /\ IF full THEN UNCHANGED <<stored, cookie, choice>>
       ELSE stored' = l /\ cookie' = l /\ choice' = l
    /\ shown' = <<>>
    /\ UNCHANGED <<nextCookie, accepted, full>>

\* clearClientLocale
ClearLocale ==
    /\ stored' = NoKey /\ cookie' = NoKey /\ choice' = NoKey /\ shown' = <<>>
    /\ UNCHANGED <<nextCookie, accepted, full>>

\* After a year the cookie is gone and localStorage is not: the choice is no
\* longer known to the server.
CookieExpires ==
    /\ cookie # NoKey
    /\ cookie' = NoKey /\ choice' = NoKey /\ shown' = <<>>
    /\ UNCHANGED <<stored, nextCookie, accepted, full>>

\* Next.js routes to a language.
Route(l) ==
    /\ nextCookie' = l /\ shown' = <<>>
    /\ UNCHANGED <<stored, cookie, accepted, full, choice>>

FillStorage ==
    /\ ~full
    /\ full' = TRUE /\ shown' = <<>>
    /\ UNCHANGED <<stored, cookie, nextCookie, accepted, choice>>

\* The user sets the languages of the browser.
Accept(languages) ==
    /\ accepted' = languages /\ shown' = <<>>
    /\ UNCHANGED <<stored, cookie, nextCookie, full, choice>>

\* The same error at an endpoint of each kind, on a page that asks for the language.
Fail(e) ==
    /\ shown' = [error |-> e, page |-> DetectClient, read |-> [way \in Ways |-> Read(way, e)]]
    /\ UNCHANGED <<stored, cookie, nextCookie, accepted, full, choice>>

ClientNext ==
    \/ \E l \in Locales : ChooseLocale(l) \/ Route(l)
    \/ ClearLocale \/ CookieExpires \/ FillStorage
    \/ \E languages \in Languages : Accept(languages)
    \/ \E e \in ClientError : Fail(e)

ClientSpec == ClientInit /\ [][ClientNext]_clientVars

------------------------------------------------------------------------------
(* Properties.                                                             *)

Failed == shown # <<>>

\* The ways whose words are in a fixed language: ErrorResponse has no request to ask,
\* securityMiddleware does not ask, and an option of the auth handlers has its way.
Fixed == {"table", "security", "authLocale"}

\* While a choice of the user is kept, the browser and the server know of the same
\* language, the chosen one: a page that asks detectClient, and every answer whose
\* language is detected, whatever Next.js routes to, whatever the browser accepts, and
\* although a later choice could not be kept.  It is not promised of what is written in
\* a fixed language, nor of the components of ErrorBoundary.tsx, which are told theirs.
LanguageKept ==
    Failed /\ choice # NoKey =>
        /\ shown.page = choice
        /\ \A way \in Ways \ Fixed : shown.read[way].text.locale \in {choice, NoKey}

\* The ways that know an error of the kind.  A number in the message of another error
\* is looked for by AppError.from alone, and a legacy answer that was rewritten
\* without its code has only its status left.
Agreeing(e) ==
    CASE e.class = "AppError" -> {"chain", "handler", "processor", "table", "converted", "boundary"}
      [] e.class = "AuthError" ->
             {"chain", "handler", "auth", "authLocale", "legacy", "legacyBare", "rewritten"}
      [] e.class = "ZodError" -> {"chain", "handler", "processor"}
      [] e.class \in {"Prisma", "PrismaValidation"} ->
             {"chain", "handler", "processor"} \cup {w \in {"converted"} : e.code = 0}
      [] OTHER -> {"chain", "handler"} \cup {w \in {"converted"} : e.code = 0}

\* What the ways are meant for: codes of the table, and AuthErrors that are mapped.
Foreseen(e) ==
    /\ e.class = "AppError" => HasKey(e.code)
    /\ e.class = "AuthError" => e.key \in DOMAIN AuthErrorCodeMap

\* The auth handlers keep the status of an AuthError, and a page has none.
SameStatus == {"chain", "handler", "processor", "table", "converted"}

\* A client that branches on the key or on the number branches the same way
\* for the same error, whichever way it came: wherever there are both, they are
\* equal, and so is the status of what is not an auth handler.  A card has
\* words for it in both of its languages.
SameErrorReadsSame ==
    Failed /\ Foreseen(shown.error) =>
        \A way, other \in Agreeing(shown.error) :
            LET r == shown.read[way]
                s == shown.read[other]
            IN  /\ NoKey \in {r.key, s.key} \/ r.key = s.key
                /\ 0 \in {r.code, s.code} \/ r.code = s.code
                /\ {way, other} \subseteq SameStatus => r.status = s.status
                /\ \A l \in CardLocales : Card(r.code, l).entry # 0
==============================================================================
