-------------------------------- MODULE Accounts --------------------------------
(***************************************************************************)
(* The account of one email address: registration, verification, password  *)
(* reset, login and OAuth sign-in, one action per call of a repository or  *)
(* of the mailer.  The adapters run one statement per call, which takes    *)
(* effect at one moment; nothing spans two of them.  The database keeps    *)
(* emails and provider identities unique.                                  *)
(*                                                                         *)
(* A token is what the hash in the table and the link in the mail have in  *)
(* common.  A word is a password; a hash is the word with the strength of  *)
(* its scheme.  Words are chosen afresh, so that a word tells who set it.  *)
(***************************************************************************)
EXTENDS Integers, FiniteSets

CONSTANTS
    Call, Token, Word, None,
    Features,   \* values of features.emailVerificationRequired
    TokenTtl,   \* per kind of token: tokenExpiryHours
    MaxTime     \* bound of the model: the last instant

Kind == {"verify", "reset"}

ASSUME AccountsConstantsOK ==
    /\ Features \subseteq {"on", "off", "unset"}
    /\ TokenTtl \in [Kind -> Nat] /\ MaxTime \in Nat
    /\ None \notin Token \cup Word

VARIABLES
    feature,
    user,       \* the row of the user, or {}
    linked,     \* the provider identity has a row, which points to the user
    token,      \* per token: where it is, its kind and its end
    mailed,     \* the tokens in the owner's mailbox
    op, pc,     \* per call: what it does, and where it is
    tk,         \* per call: the token it was given, or made
    word,       \* per call: the password it was given
    proven,     \* per call of OAuth: the provider has verified the email
    seen,       \* per login: the row it read
    now,
    chosen,     \* history: the words ever used
    worked,     \* history: the tokens that have set a password or verified
    spent,      \* history: those whose call has answered success
    late,       \* history, per call: its token was spent, or its word retired, when it began
    old,        \* history, per reset: the word it replaced
    retired,    \* history: the words replaced by resets that answered success
    revived     \* history: a rehash has overwritten another word

tableVars == <<user, linked, token>>
localVars == <<op, pc, tk, word, proven, seen>>
historyVars == <<worked, spent, late, old, retired, revived>>
accountVars == <<feature, tableVars, mailed, localVars, now, chosen, historyVars>>

Hash == [word : Word \cup {None}, weak : BOOLEAN]
User == [hash : Hash, by : {"register", "reset", "oauth"}, verified : BOOLEAN]
NewUser(h, who, v) == [hash |-> h, by |-> who, verified |-> v]
New(w) == [word |-> w, weak |-> FALSE]
Nobody == NewUser(New(None), "oauth", FALSE)
Fresh == {t \in Token : token[t].at = "unused"}

AccountsInit ==
    /\ feature \in Features
    /\ \/ user = {} /\ chosen = {}
       \/ \E w \in Word :
            /\ user = {NewUser([word |-> w, weak |-> TRUE], "register", TRUE)}
            /\ chosen = {w}
    /\ linked = FALSE /\ mailed = {} /\ now = 0
    /\ token = [t \in Token |-> [at |-> "unused", kind |-> "reset", until |-> 0]]
    /\ op = [c \in Call |-> "none"] /\ pc = [c \in Call |-> "idle"]
    /\ tk = [c \in Call |-> None] /\ word = [c \in Call |-> None]
    /\ proven = [c \in Call |-> FALSE]
    /\ seen = [c \in Call |-> Nobody]
    /\ worked = {} /\ spent = {} /\ retired = {} /\ revived = FALSE
    /\ late = [c \in Call |-> FALSE]
    /\ old = [c \in Call |-> None]

------------------------------------------------------------------------------
(* Calls begin, go on and end.  An ended call forgets its variables.       *)

At(c, label) == pc' = [pc EXCEPT ![c] = label]

Locals(c, o, label, t, w, p, u) ==
    /\ op' = [op EXCEPT ![c] = o] /\ At(c, label)
    /\ tk' = [tk EXCEPT ![c] = t] /\ word' = [word EXCEPT ![c] = w]
    /\ proven' = [proven EXCEPT ![c] = p] /\ seen' = [seen EXCEPT ![c] = u]

Begin(c, o, label, t, w, p) ==
    /\ pc[c] = "idle"
    /\ Locals(c, o, label, t, w, p, Nobody)
    /\ late' = [late EXCEPT ![c] = t \in spent \/ w \in retired]
    /\ UNCHANGED <<feature, tableVars, mailed, now, worked, spent, old, retired, revived>>

End(c) ==
    /\ Locals(c, "none", "idle", None, None, FALSE, Nobody)
    /\ late' = [late EXCEPT ![c] = FALSE] /\ old' = [old EXCEPT ![c] = None]

\* The call goes on, and nothing of its own changes but its place.
Go(c, label) == At(c, label) /\ UNCHANGED <<op, tk, word, proven, seen, late, old>>

Reads == UNCHANGED <<feature, tableVars, mailed, now, chosen, worked, spent, retired, revived>>

\* Any port may throw, and any instant may be the last of a request: the
\* handler answers an error.
Fail(c) == pc[c] # "idle" /\ End(c) /\ Reads

------------------------------------------------------------------------------
(* Registration.                                                           *)

Register(c) == \E w \in Word \ chosen :
    Begin(c, "register", "look", None, w, FALSE) /\ chosen' = chosen \cup {w}

\* findByEmail: an address in use is refused.
FindNobody(c) ==
    /\ op[c] = "register" /\ pc[c] = "look"
    /\ IF user = {} THEN Go(c, "insert") ELSE End(c)
    /\ Reads

\* userRepo.create.  The unique email refuses whoever comes second.
InsertUser(c) ==
    /\ op[c] = "register" /\ pc[c] = "insert"
    /\ IF user = {}
       THEN /\ user' = {NewUser(New(word[c]), "register", FALSE)}
            /\ IF feature = "off" THEN End(c) ELSE Go(c, "issue")
       ELSE End(c) /\ UNCHANGED user
    /\ UNCHANGED <<feature, linked, token, mailed, now, chosen, worked, spent, retired, revived>>

------------------------------------------------------------------------------
(* Tokens are made, mailed, and cleaned up.                                *)

\* requestReset and resend.
RequestReset(c) == Begin(c, "forgot", "look", None, None, FALSE) /\ UNCHANGED chosen
Resend(c) == Begin(c, "resend", "look", None, None, FALSE) /\ UNCHANGED chosen

\* Nobody to write to ends both, and so does an address that is verified.
FindAddressee(c) ==
    /\ op[c] \in {"forgot", "resend"} /\ pc[c] = "look"
    /\ IF \E u \in user : op[c] = "resend" => ~u.verified THEN Go(c, "issue") ELSE End(c)
    /\ Reads

\* tokenRepo.create.
IssueToken(c) ==
    /\ pc[c] = "issue"
    /\ \E t \in Fresh :
        LET kind == IF op[c] = "forgot" THEN "reset" ELSE "verify" IN
        /\ token' = [token EXCEPT ![t] = [at |-> "table", kind |-> kind,
                                          until |-> now + TokenTtl[kind]]]
        /\ tk' = [tk EXCEPT ![c] = t] /\ At(c, "mail")
    /\ UNCHANGED <<feature, user, linked, mailed, op, word, proven, seen, now, chosen,
                    historyVars>>

\* The mail goes out; that the mailer then throws makes no other difference.
SendMail(c) ==
    /\ pc[c] = "mail" /\ mailed' = mailed \cup {tk[c]} /\ End(c)
    /\ UNCHANGED <<feature, tableVars, now, chosen, worked, spent, retired, revived>>

Expired(t) == token[t].until < now
Forget(T) == [t \in Token |-> IF t \in T THEN [token[t] EXCEPT !.at = "gone"] ELSE token[t]]
InTable == {t \in Token : token[t].at = "table"}

\* deleteExpired, which the application calls now and then.
DeleteExpired ==
    /\ \E t \in InTable : Expired(t)
    /\ token' = Forget({t \in InTable : Expired(t)})
    /\ UNCHANGED <<feature, user, linked, mailed, localVars, now, chosen, historyVars>>

------------------------------------------------------------------------------
(* Tokens are used.                                                        *)

\* The owner of the mailbox follows a link, and may do so again.
ResetPassword(c) == \E t \in mailed, w \in Word \ chosen :
    /\ token[t].kind = "reset" /\ Begin(c, "reset", "find", t, w, FALSE)
    /\ chosen' = chosen \cup {w}

VerifyEmail(c) == \E t \in mailed :
    /\ token[t].kind = "verify" /\ Begin(c, "verify", "find", t, None, FALSE)
    /\ UNCHANGED chosen

\* Faulty variant: the token is deleted when it is found.
FindTokenErasing(c) ==
    /\ pc[c] = "find"
    /\ IF token[tk[c]].at = "table" /\ ~Expired(tk[c])
       THEN Go(c, IF op[c] = "reset" THEN "look" ELSE "write") ELSE End(c)
    /\ token' = Forget({tk[c]})
    /\ UNCHANGED <<feature, user, linked, mailed, now, chosen, worked, spent, retired, revived>>

\* findEmailByToken if the request has no email, and findByEmailAndToken.
FindToken(c) ==
    /\ pc[c] = "find"
    /\ IF token[tk[c]].at = "table" /\ ~Expired(tk[c])
       THEN Go(c, IF op[c] = "reset" THEN "look" ELSE "write") ELSE End(c)
    /\ Reads

FindOwner(c) ==
    /\ op[c] = "reset" /\ pc[c] = "look"
    /\ IF user = {} THEN End(c) ELSE Go(c, "write")
    /\ Reads

\* Faulty variant: update() takes the password of accounts without one only.
WritePasswordOnce(c) ==
    /\ op[c] = "reset" /\ pc[c] = "write"
    /\ \E u \in user :
        /\ user' = IF u.hash.word = None
                   THEN {NewUser(New(word[c]), "reset", u.verified)} ELSE user
        /\ old' = [old EXCEPT ![c] = u.hash.word]
    /\ worked' = worked \cup {tk[c]} /\ At(c, "erase")
    /\ UNCHANGED <<feature, linked, token, mailed, op, tk, word, proven, seen, now, chosen,
                    spent, late, retired, revived>>

\* userRepo.update.
WritePassword(c) ==
    /\ op[c] = "reset" /\ pc[c] = "write"
    /\ \E u \in user :
        /\ user' = {NewUser(New(word[c]), "reset", u.verified)}
        /\ old' = [old EXCEPT ![c] = u.hash.word]
    /\ worked' = worked \cup {tk[c]} /\ At(c, "erase")
    /\ UNCHANGED <<feature, linked, token, mailed, op, tk, word, proven, seen, now, chosen,
                    spent, late, retired, revived>>

\* userRepo.verifyEmail, by address: of nobody if there is no such user.
WriteVerified(c) ==
    /\ op[c] = "verify" /\ pc[c] = "write"
    /\ user' = {[u EXCEPT !.verified = TRUE] : u \in user}
    /\ worked' = worked \cup {tk[c]} /\ Go(c, "erase")
    /\ UNCHANGED <<feature, linked, token, mailed, now, chosen, spent, retired, revived>>

\* Faulty variant: the token is left in its table.
EraseNothing(c) ==
    /\ pc[c] = "erase" /\ End(c)
    /\ spent' = spent \cup {tk[c]} /\ retired' = retired \cup ({old[c]} \ {None})
    /\ UNCHANGED <<feature, tableVars, mailed, now, chosen, worked, revived>>

\* tokenRepo.delete, and the answer is success.
EraseToken(c) ==
    /\ pc[c] = "erase" /\ End(c)
    /\ token' = Forget({tk[c]})
    /\ spent' = spent \cup {tk[c]} /\ retired' = retired \cup ({old[c]} \ {None})
    /\ UNCHANGED <<feature, user, linked, mailed, now, chosen, worked, revived>>

------------------------------------------------------------------------------
(* Login.                                                                  *)

\* By the handler ("login"), or by LoginService and its consumer ("service").
Login(c) == \E o \in {"login", "service"}, w \in chosen :
    Begin(c, o, "look", None, w, FALSE) /\ UNCHANGED chosen

ReadUser(c) ==
    /\ op[c] \in {"login", "service"} /\ pc[c] = "look"
    /\ \/ /\ user # {} /\ At(c, "compare")
          /\ \E u \in user : seen' = [seen EXCEPT ![c] = u]
          /\ UNCHANGED <<op, tk, word, proven, late, old>>
       \/ user = {} /\ End(c)
    /\ Reads

\* The comparison takes its time.  The handler refuses unverified accounts
\* where verification is required; LoginService leaves that to its consumer.
Accepted(c) ==
    /\ seen[c].hash.word = word[c]
    /\ op[c] = "login" /\ feature = "on" => seen[c].verified

Compare(c) ==
    /\ pc[c] = "compare"
    /\ IF Accepted(c) THEN Go(c, "session") ELSE End(c)
    /\ Reads

\* updateLastLoginAt, and the answer is the session.  LoginService adds a
\* new hash of the word if the one it was given is of a weak scheme.
IssueSession(c) ==
    /\ pc[c] = "session"
    /\ IF op[c] = "service" /\ seen[c].hash.weak THEN Go(c, "save") ELSE End(c)
    /\ Reads

\* The consumer saves that hash in the user's record.
SaveRehash(c) ==
    /\ pc[c] = "save" /\ End(c)
    /\ user' = {[u EXCEPT !.hash = New(word[c])] : u \in user}
    /\ revived' = (revived \/ \E u \in user : u.hash.word # word[c])
    /\ UNCHANGED <<feature, linked, token, mailed, now, chosen, worked, spent, retired>>

------------------------------------------------------------------------------
(* handleCallback.                                                         *)

OAuth(c) == \E p \in BOOLEAN :
    Begin(c, "oauth", "provider", None, None, p) /\ UNCHANGED chosen

\* findByProvider: a linked identity signs in.
FindAccount(c) ==
    /\ pc[c] = "provider"
    /\ Go(c, IF linked THEN "session" ELSE "look")
    /\ Reads

\* Faulty variant: the provider's word is enough to link.
FindLocalTrusting(c) ==
    /\ op[c] = "oauth" /\ pc[c] = "look"
    /\ IF user = {} THEN Go(c, "create")
       ELSE IF proven[c] THEN Go(c, "link") ELSE End(c)
    /\ Reads

\* findByEmail: an account of that address is linked if the provider has
\* verified the address, and so has the account.
FindLocal(c) ==
    /\ op[c] = "oauth" /\ pc[c] = "look"
    /\ IF user = {} THEN Go(c, "create")
       ELSE IF proven[c] /\ \A u \in user : u.verified THEN Go(c, "link") ELSE End(c)
    /\ Reads

CreateUser(c) ==
    /\ op[c] = "oauth" /\ pc[c] = "create"
    /\ IF user = {}
       THEN /\ user' = {NewUser(New(None), "oauth", proven[c])}
            /\ Go(c, "link")
       ELSE End(c) /\ UNCHANGED user
    /\ UNCHANGED <<feature, linked, token, mailed, now, chosen, worked, spent, retired, revived>>

\* oauthRepo.create.  The unique identity refuses whoever comes second.
CreateLink(c) ==
    /\ pc[c] = "link"
    /\ IF linked THEN End(c) ELSE Go(c, "session")
    /\ linked' = TRUE
    /\ UNCHANGED <<feature, user, token, mailed, now, chosen, worked, spent, retired, revived>>

Tick ==
    /\ now < MaxTime /\ now' = now + 1
    /\ UNCHANGED <<feature, tableVars, mailed, localVars, chosen, historyVars>>

AccountsNext ==
    \/ \E c \in Call :
        \/ Register(c) \/ FindNobody(c) \/ InsertUser(c)
        \/ RequestReset(c) \/ Resend(c) \/ FindAddressee(c) \/ IssueToken(c) \/ SendMail(c)
        \/ ResetPassword(c) \/ VerifyEmail(c) \/ FindToken(c) \/ FindOwner(c)
        \/ WritePassword(c) \/ WriteVerified(c) \/ EraseToken(c)
        \/ Login(c) \/ ReadUser(c) \/ Compare(c) \/ IssueSession(c) \/ SaveRehash(c)
        \/ OAuth(c) \/ FindAccount(c) \/ FindLocal(c) \/ CreateUser(c) \/ CreateLink(c)
        \/ Fail(c)
    \/ DeleteExpired \/ Tick

AccountsSpec == AccountsInit /\ [][AccountsNext]_accountVars

------------------------------------------------------------------------------
(* Properties.                                                             *)

Operation == {"none", "register", "forgot", "resend", "reset", "verify", "login", "service", "oauth"}
Place == {"idle", "look", "insert", "issue", "mail", "find", "write", "erase", "compare",
          "session", "save", "provider", "create", "link"}

\* Every variable has its type; there is at most one user of the address.
AccountsTypeOK ==
    /\ feature \in Features /\ now \in Nat
    /\ user \subseteq User /\ \A u, v \in user : u = v
    /\ linked \in BOOLEAN /\ mailed \subseteq Token
    /\ token \in [Token -> [at : {"unused", "table", "gone"}, kind : Kind, until : Nat]]
    /\ op \in [Call -> Operation] /\ pc \in [Call -> Place]
    /\ tk \in [Call -> Token \cup {None}] /\ word \in [Call -> Word \cup {None}]
    /\ proven \in [Call -> BOOLEAN] /\ seen \in [Call -> User]
    /\ chosen \subseteq Word /\ worked \subseteq Token /\ spent \subseteq Token
    /\ late \in [Call -> BOOLEAN] /\ old \in [Call -> Word \cup {None}]
    /\ retired \subseteq Word /\ revived \in BOOLEAN

\* A link works once: a request that begins after one with the same token has
\* answered success gets no further than looking the token up.
SpentTokensDead ==
    \A c \in Call : late[c] /\ op[c] \in {"reset", "verify"} => pc[c] = "find"

\* And it is not lost by a failure halfway: a token that is gone before its
\* time has set the password or verified the address.
LostTokensWorked ==
    \A t \in Token : token[t].at = "gone" => t \in worked \/ Expired(t)

\* A login that begins after a reset has answered success is not accepted with
\* a password that this reset, or an earlier one, has replaced: unless a
\* consumer saved the rehash of a login that the reset overtook.
OldPasswordDead ==
    \A c \in Call :
        late[c] /\ op[c] # "oauth" /\ pc[c] \in {"session", "save"} => revived

\* Whoever registered with an address he never proved to own does not share
\* an account with the provider's identity of that address.
LinksProven ==
    \A u \in user : linked /\ u.by = "register" => u.verified
==============================================================================
