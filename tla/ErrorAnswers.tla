----------------------------- MODULE ErrorAnswers -----------------------------
(***************************************************************************)
(* How an exception becomes an HTTP answer.  The toolkit has three ways:   *)
(* errorHandlerMiddleware on top of a middleware chain, withErrorHandler   *)
(* (next/error/error-handler.ts) and withErrorHandling                     *)
(* (next/utils/error-processor.ts) around a plain handler.  They share the *)
(* code tables below, but each decides for itself.  Pure operators; the    *)
(* requests they serve are those of RequestPipeline.                       *)
(*                                                                         *)
(* An exception is a record: its class as far as "instanceof" and the      *)
(* names of Zod and Prisma tell, the numeric code of an AppError or the    *)
(* five digits in brackets in the message of another error (0: none), the  *)
(* string code and statusCode of an AuthError, the string code of any      *)
(* other one, a Prisma code found in the head of its message, and the      *)
(* words of its message that somebody looks for.                           *)
(***************************************************************************)
EXTENDS Integers, Sequences

CONSTANT NoKey  \* "no such property"

Classes == {"AppError", "ZodError", "AuthError", "PrismaValidation", "Prisma", "Error", "value"}

\* Everything thrown is an Error but a Zod failure, which is told by its name,
\* and a bare value.
IsError(e) == e.class \notin {"ZodError", "value"}

------------------------------------------------------------------------------
(* The code tables: five digits, the first three the HTTP status.          *)

RequestCodes ==
    [VALIDATION_ERROR |-> 40001, BAD_REQUEST |-> 40002, INVALID_INPUT |-> 40003,
     MISSING_REQUIRED_FIELD |-> 40004, INVALID_URL_FORMAT |-> 40005,
     INVALID_EMAIL_FORMAT |-> 40006, PASSWORD_TOO_WEAK |-> 40007, LINK_INVALID |-> 40008,
     UNAUTHORIZED |-> 40101, INVALID_TOKEN |-> 40102, TOKEN_EXPIRED |-> 40103,
     INVALID_CREDENTIALS |-> 40106, SESSION_EXPIRED |-> 40107]

AccessCodes ==
    [FORBIDDEN |-> 40304, EMAIL_NOT_VERIFIED |-> 40305, ACCOUNT_DISABLED |-> 40308,
     ACCOUNT_LOCKED |-> 40309, NOT_FOUND |-> 40401, USER_NOT_FOUND |-> 40402,
     CONFLICT |-> 40904, DUPLICATE_RESOURCE |-> 40905, EMAIL_ALREADY_EXISTS |-> 40906]

ServiceCodes ==
    [BUSINESS_RULE_VIOLATION |-> 42201, INVALID_OPERATION |-> 42202, QUOTA_EXCEEDED |-> 42203,
     FILE_TOO_LARGE |-> 42211, UNSUPPORTED_FILE_TYPE |-> 42212,
     RATE_LIMIT_EXCEEDED |-> 42901, DAILY_LIMIT_EXCEEDED |-> 42902, API_QUOTA_EXCEEDED |-> 42903,
     INTERNAL_SERVER_ERROR |-> 50001, SERVER_ERROR |-> 50002, DATABASE_ERROR |-> 50003,
     EMAIL_SEND_FAILED |-> 50006, CACHE_ERROR |-> 50007, FILE_UPLOAD_FAILED |-> 50008,
     EXTERNAL_SERVICE_ERROR |-> 50304, SERVICE_UNAVAILABLE |-> 50305,
     ACCESS_BLOCKED |-> 40371, SECURITY_VALIDATION_FAILED |-> 40372, BLOCKED_URL |-> 40373,
     SUSPICIOUS_ACTIVITY |-> 40374, IP_BLOCKED |-> 40375, CORS_VIOLATION |-> 40376]

\* ERROR_CODES[key].code
Code(key) ==
    IF key \in DOMAIN RequestCodes THEN RequestCodes[key]
    ELSE IF key \in DOMAIN AccessCodes THEN AccessCodes[key] ELSE ServiceCodes[key]

ErrorKeys == DOMAIN RequestCodes \cup DOMAIN AccessCodes \cup DOMAIN ServiceCodes

HttpStatus(code) == code \div 100

\* PRISMA_ERROR_MAP
PrismaErrorMap ==
    [P2000 |-> 40001, P2001 |-> 40401, P2002 |-> 40905, P2003 |-> 40001, P2004 |-> 40001,
     P2005 |-> 40001, P2006 |-> 40001, P2011 |-> 40004, P2014 |-> 40001, P2015 |-> 40401,
     P2016 |-> 40001, P2017 |-> 40001, P2018 |-> 40401, P2025 |-> 40401]

\* P1001 stands for the codes of Prisma that have no mapping.
PrismaCodes == DOMAIN PrismaErrorMap \cup {"P1001"}

\* AUTH_ERROR_CODE_MAP, as the key of ERROR_CODES that each code maps to.
AuthErrorCodeMap ==
    [TOKEN_EXPIRED |-> "TOKEN_EXPIRED", TOKEN_INVALID |-> "INVALID_TOKEN",
     TOKEN_CREATION_FAILED |-> "SERVER_ERROR", TOKEN_VERIFICATION_FAILED |-> "INVALID_TOKEN",
     REFRESH_TOKEN_EXPIRED |-> "TOKEN_EXPIRED", INVALID_PAYLOAD |-> "INVALID_TOKEN",
     OAUTH_PROVIDER_NOT_CONFIGURED |-> "EXTERNAL_SERVICE_ERROR",
     OAUTH_TOKEN_EXCHANGE_FAILED |-> "EXTERNAL_SERVICE_ERROR",
     OAUTH_USER_INFO_FAILED |-> "EXTERNAL_SERVICE_ERROR",
     PASSWORD_TOO_SHORT |-> "PASSWORD_TOO_WEAK", PASSWORD_TOO_LONG |-> "PASSWORD_TOO_WEAK",
     PASSWORD_MISSING_NUMBER |-> "PASSWORD_TOO_WEAK",
     PASSWORD_MISSING_UPPERCASE |-> "PASSWORD_TOO_WEAK",
     PASSWORD_MISSING_LOWERCASE |-> "PASSWORD_TOO_WEAK",
     PASSWORD_MISSING_SPECIAL_CHAR |-> "PASSWORD_TOO_WEAK",
     PASSWORD_HASH_FAILED |-> "SERVER_ERROR", PASSWORD_VERIFY_FAILED |-> "SERVER_ERROR",
     EMAIL_SEND_FAILED |-> "EMAIL_SEND_FAILED", EMAIL_TOKEN_EXPIRED |-> "TOKEN_EXPIRED",
     EMAIL_TOKEN_INVALID |-> "INVALID_TOKEN", INVALID_CREDENTIALS |-> "INVALID_CREDENTIALS",
     USER_NOT_FOUND |-> "USER_NOT_FOUND", EMAIL_ALREADY_EXISTS |-> "EMAIL_ALREADY_EXISTS",
     UNAUTHORIZED |-> "UNAUTHORIZED"]

------------------------------------------------------------------------------
(* Constructing and classifying exceptions.                                *)

Exception(class, code, key, statusCode, head, words) ==
    [class |-> class, code |-> code, key |-> key, statusCode |-> statusCode,
     head |-> head, words |-> words]

\* Five digits, of which the first is that of a status.
IsCode(n) == n \in Nat /\ 10000 <= n /\ n <= 59999

\* new AppError(code): anything else counts as an internal error.
AppError(code) ==
    Exception("AppError", IF IsCode(code) THEN code ELSE Code("INTERNAL_SERVER_ERROR"),
              NoKey, 0, NoKey, {})

\* What the constructor leaves: there is no other way to an AppError.
Constructed(e) == e.class = "AppError" => IsCode(e.code)

\* fromKey and fromErrorInfo
FromKey(key) == AppError(Code(key))

\* The keys that the other static factories of AppError pass to fromKey: those
\* for what a request asks, and those for what a service can do.
RequestFactories == (DOMAIN RequestCodes \ {"LINK_INVALID"}) \cup DOMAIN AccessCodes
ServiceFactories == DOMAIN ServiceCodes

\* inspectPrismaError: the class name decides first for validation errors,
\* then a code property, then the class name, and the message only at last.
PrismaCode(e) ==
    IF e.class = "PrismaValidation" THEN NoKey
    ELSE IF e.key \in PrismaCodes THEN e.key
    ELSE IF e.class = "Prisma" THEN NoKey ELSE e.head

IsPrisma(e) == e.class \in {"PrismaValidation", "Prisma"} \/ e.key \in PrismaCodes \/ e.head # NoKey

\* The code of a Prisma error in processError and in resolvePrismaError.
PrismaAnswerCode(e) ==
    IF e.class = "PrismaValidation" THEN Code("VALIDATION_ERROR")
    ELSE IF PrismaCode(e) \in DOMAIN PrismaErrorMap THEN PrismaErrorMap[PrismaCode(e)]
    ELSE Code("DATABASE_ERROR")

\* classifyPrismaError: the mapped code counts only if ERROR_CODES has it.
ClassifyPrismaError(e) ==
    IF \E key \in ErrorKeys : Code(key) = PrismaAnswerCode(e)
    THEN PrismaAnswerCode(e) ELSE Code("DATABASE_ERROR")

\* The key of the first rule with a word of the message, or SERVER_ERROR.
FirstRule(rules, e) ==
    LET hits == {i \in DOMAIN rules : rules[i][1] \cap e.words # {}}
        first == CHOOSE i \in hits : \A j \in hits : i <= j
    IN  IF hits = {} THEN "SERVER_ERROR" ELSE rules[first][2]

\* The rules of classifyError.  The connection errors of Node are taken for words here.
WordRules ==
    << <<{"not found"}, "NOT_FOUND">>,
       <<{"unauthorized"}, "UNAUTHORIZED">>,
       <<{"forbidden", "access denied"}, "FORBIDDEN">>,
       <<{"too many request", "rate limit"}, "RATE_LIMIT_EXCEEDED">>,
       <<{"database", "prisma"}, "DATABASE_ERROR">>,
       <<{"ECONNREFUSED", "ECONNRESET", "ETIMEDOUT", "ENOTFOUND", "fetch failed", "network"},
         "EXTERNAL_SERVICE_ERROR">>,
       <<{"redis", "cache", "upstash"}, "CACHE_ERROR">>,
       <<{"email send", "email smtp"}, "EMAIL_SEND_FAILED">>,
       <<{"upload", "s3", "r2"}, "FILE_UPLOAD_FAILED">> >>

ClassifyError(e) ==
    IF IsPrisma(e) THEN ClassifyPrismaError(e) ELSE Code(FirstRule(WordRules, e))

------------------------------------------------------------------------------
(* The answers.                                                            *)

\* A response object refuses a status outside of 200 to 599 and, with a body,
\* one that has none: the exception leaves the error handler itself.
Answer(code, status) ==
    IF status \in (200 .. 599) \ {204, 205, 304}
    THEN [code |-> code, status |-> status] ELSE [code |-> 0, status |-> 500]

\* An AuthError whose code has no mapping.
AuthFallback(e) == IF e.statusCode = 401 THEN Code("UNAUTHORIZED") ELSE Code("BAD_REQUEST")

\* errorHandlerMiddleware
ChainAnswer(e) ==
    LET code == CASE e.class = "AppError" -> e.code
                  [] e.class = "ZodError" -> Code("VALIDATION_ERROR")
                  [] e.class = "AuthError" /\ e.key \in DOMAIN AuthErrorCodeMap ->
                         Code(AuthErrorCodeMap[e.key])
                  [] e.class = "AuthError" /\ e.key \notin DOMAIN AuthErrorCodeMap -> AuthFallback(e)
                  [] e.class = "value" -> Code("INTERNAL_SERVER_ERROR")
                  [] OTHER -> ClassifyError(e)
    IN  Answer(code, HttpStatus(code))

\* processError of error-handler.ts: an unmapped AuthError keeps its own status.
HandlerAnswer(e) ==
    CASE e.class = "AppError" -> Answer(e.code, HttpStatus(e.code))
      [] e.class = "ZodError" -> Answer(Code("VALIDATION_ERROR"), 400)
      [] e.class = "AuthError" /\ e.key \in DOMAIN AuthErrorCodeMap ->
             LET code == Code(AuthErrorCodeMap[e.key]) IN Answer(code, HttpStatus(code))
      [] e.class = "AuthError" /\ e.key \notin DOMAIN AuthErrorCodeMap ->
             Answer(AuthFallback(e), e.statusCode)
      [] e.class = "value" -> Answer(Code("INTERNAL_SERVER_ERROR"), 500)
      [] OTHER -> LET code == IF IsPrisma(e) THEN PrismaAnswerCode(e) ELSE ClassifyError(e)
                  IN  Answer(code, HttpStatus(code))

\* The two words that ErrorProcessor.process looks for, and a phrase of Prisma's.
ProcessRules ==
    << <<{"Unique constraint failed"}, "DUPLICATE_RESOURCE">>,
       <<{"not found"}, "NOT_FOUND">>,
       <<{"unauthorized"}, "UNAUTHORIZED">> >>

\* ErrorProcessor.process of an Error: it does not know AuthError.
ProcessError(e) ==
    LET code == IF e.class = "AppError" THEN e.code
                ELSE IF IsPrisma(e) THEN PrismaAnswerCode(e)
                ELSE Code(FirstRule(ProcessRules, e))
    IN  Answer(code, HttpStatus(code))

\* withErrorHandling: a bare value is a server error here, not an internal one.
ProcessorAnswer(e) ==
    CASE e.class = "ZodError" -> Answer(Code("VALIDATION_ERROR"), 400)
      [] IsError(e) -> ProcessError(e)
      [] e.class = "value" -> Answer(Code("SERVER_ERROR"), 500)
==============================================================================
