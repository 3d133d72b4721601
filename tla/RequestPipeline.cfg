SPECIFICATION MCSpec
CONSTANTS
    Request = {r1, r2}
    Token = {t}
    Shape <- MCShape
    HandlerErrors <- MCHandlerErrors
    LimiterErrors <- MCLimiterErrors
    ClientError <- MCClientErrors
    Languages <- MCLanguages
    AuthLocale = "ja"
    None = None
    NoKey = NoKey
    Client = {c1, c2, c3}
    Limit = 2
    Window = 2
    MaxEntries = 2
    NoWindow = NoWindow
    MaxTime = 3
INVARIANTS
    PipelineInv
    RateInv
    LanguageKept
    SameErrorReadsSame
PROPERTIES
    EveryRequestAnswered
