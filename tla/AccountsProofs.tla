----------------------------- MODULE AccountsProofs -----------------------------
(***************************************************************************)
(* Proofs about Accounts, for any number of concurrent calls, tokens and   *)
(* words, any features and any lifetimes of tokens.                        *)
(***************************************************************************)
EXTENDS Accounts, TLAPS

------------------------------------------------------------------------------
(* What a step does to the calls.                                          *)

LocalsOK ==
    /\ op \in [Call -> Operation] /\ pc \in [Call -> Place]
    /\ tk \in [Call -> Token \cup {None}] /\ word \in [Call -> Word \cup {None}]
    /\ proven \in [Call -> BOOLEAN] /\ seen \in [Call -> User]
    /\ late \in [Call -> BOOLEAN] /\ old \in [Call -> Word \cup {None}]

OthersSame(c) ==
    \A d \in Call \ {c} :
        /\ op'[d] = op[d] /\ pc'[d] = pc[d] /\ tk'[d] = tk[d] /\ word'[d] = word[d]
        /\ seen'[d] = seen[d] /\ (late'[d] <=> late[d]) /\ old'[d] = old[d]

Moved(c, label) ==
    /\ pc'[c] = label /\ op'[c] = op[c] /\ tk'[c] = tk[c] /\ word'[c] = word[c]
    /\ seen'[c] = seen[c] /\ (late'[c] <=> late[c]) /\ old'[c] = old[c]

Ended(c) == pc'[c] = "idle" /\ op'[c] = "none" /\ ~late'[c] /\ old'[c] = None

LEMMA NobodyIsAUser == Nobody \in User
  BY DEF Nobody, NewUser, New, User, Hash

\* A call that goes on changes its place.
LEMMA GoIs ==
    ASSUME LocalsOK, NEW c \in Call, NEW l \in Place, Go(c, l)
    PROVE  LocalsOK' /\ OthersSame(c) /\ Moved(c, l)
  <1>1. /\ pc' = [pc EXCEPT ![c] = l]
        /\ op' = op /\ tk' = tk /\ word' = word /\ proven' = proven /\ seen' = seen
        /\ late' = late /\ old' = old
    BY DEF Go, At
  <1>2. pc' \in [Call -> Place] /\ pc'[c] = l /\ \A d \in Call \ {c} : pc'[d] = pc[d]
    BY <1>1 DEF LocalsOK
  <1> QED
    BY <1>1, <1>2 DEF LocalsOK, OthersSame, Moved

\* What a call that begins, or ends, is left with.
LEMMA LocalsIs ==
    ASSUME LocalsOK, NEW c \in Call, NEW o \in Operation, NEW l \in Place,
           NEW t \in Token \cup {None}, NEW w \in Word \cup {None},
           \E p \in BOOLEAN : Locals(c, o, l, t, w, p, Nobody)
    PROVE  /\ op' \in [Call -> Operation] /\ pc' \in [Call -> Place]
           /\ tk' \in [Call -> Token \cup {None}] /\ word' \in [Call -> Word \cup {None}]
           /\ proven' \in [Call -> BOOLEAN] /\ seen' \in [Call -> User]
           /\ op'[c] = o /\ pc'[c] = l /\ tk'[c] = t /\ word'[c] = w
           /\ \A d \in Call \ {c} :
                /\ op'[d] = op[d] /\ pc'[d] = pc[d] /\ tk'[d] = tk[d]
                /\ word'[d] = word[d] /\ seen'[d] = seen[d]
  <1> PICK p \in BOOLEAN : Locals(c, o, l, t, w, p, Nobody)
    OBVIOUS
  <1>1. /\ op' = [op EXCEPT ![c] = o] /\ pc' = [pc EXCEPT ![c] = l]
        /\ tk' = [tk EXCEPT ![c] = t] /\ word' = [word EXCEPT ![c] = w]
        /\ proven' = [proven EXCEPT ![c] = p] /\ seen' = [seen EXCEPT ![c] = Nobody]
    BY DEF Locals, At
  <1>2. op' \in [Call -> Operation] /\ op'[c] = o /\ \A d \in Call \ {c} : op'[d] = op[d]
    BY <1>1 DEF LocalsOK
  <1>3. pc' \in [Call -> Place] /\ pc'[c] = l /\ \A d \in Call \ {c} : pc'[d] = pc[d]
    BY <1>1 DEF LocalsOK
  <1>4. tk' \in [Call -> Token \cup {None}] /\ tk'[c] = t /\ \A d \in Call \ {c} : tk'[d] = tk[d]
    BY <1>1 DEF LocalsOK
  <1>5. word' \in [Call -> Word \cup {None}] /\ word'[c] = w
        /\ \A d \in Call \ {c} : word'[d] = word[d]
    BY <1>1 DEF LocalsOK
  <1>6. proven' \in [Call -> BOOLEAN]
    BY <1>1 DEF LocalsOK
  <1>7. seen' \in [Call -> User] /\ \A d \in Call \ {c} : seen'[d] = seen[d]
    BY <1>1, NobodyIsAUser DEF LocalsOK
  <1> QED
    BY <1>2, <1>3, <1>4, <1>5, <1>6, <1>7

LEMMA EndIs ==
    ASSUME LocalsOK, NEW c \in Call, End(c)
    PROVE  LocalsOK' /\ OthersSame(c) /\ Ended(c)
  <1>1. \E p \in BOOLEAN : Locals(c, "none", "idle", None, None, p, Nobody)
    BY DEF End
  <1>2. late' \in [Call -> BOOLEAN] /\ ~late'[c] /\ \A d \in Call \ {c} : late'[d] = late[d]
    BY DEF End, LocalsOK
  <1>3. old' \in [Call -> Word \cup {None}] /\ old'[c] = None
        /\ \A d \in Call \ {c} : old'[d] = old[d]
    BY DEF End, LocalsOK
  <1>4. "none" \in Operation /\ "idle" \in Place 
        /\ None \in Token \cup {None} /\ None \in Word \cup {None}
    BY DEF Operation, Place
  <1>5. /\ op' \in [Call -> Operation] /\ pc' \in [Call -> Place]
        /\ tk' \in [Call -> Token \cup {None}] /\ word' \in [Call -> Word \cup {None}]
        /\ proven' \in [Call -> BOOLEAN] /\ seen' \in [Call -> User]
        /\ op'[c] = "none" /\ pc'[c] = "idle"
        /\ \A d \in Call \ {c} :
             /\ op'[d] = op[d] /\ pc'[d] = pc[d] /\ tk'[d] = tk[d]
             /\ word'[d] = word[d] /\ seen'[d] = seen[d]
    BY <1>1, <1>4, LocalsIs
  <1>6. LocalsOK'
    BY <1>2, <1>3, <1>5 DEF LocalsOK
  <1>7. OthersSame(c)
    BY <1>2, <1>3, <1>5 DEF OthersSame
  <1> QED
    BY <1>2, <1>3, <1>5, <1>6, <1>7 DEF Ended

LEMMA BeginIs ==
    ASSUME LocalsOK, NEW c \in Call, NEW o \in Operation, NEW l \in Place,
           NEW t \in Token \cup {None}, NEW w \in Word \cup {None},
           \E p \in BOOLEAN : Begin(c, o, l, t, w, p)
    PROVE  /\ LocalsOK' /\ OthersSame(c) /\ old' = old
           /\ op'[c] = o /\ pc'[c] = l /\ tk'[c] = t /\ word'[c] = w
           /\ (late'[c] <=> (t \in spent \/ w \in retired))
           /\ pc[c] = "idle"
           /\ UNCHANGED <<feature, user, linked, token, mailed, now, worked, spent, retired, revived>>
  <1> PICK p \in BOOLEAN : Begin(c, o, l, t, w, p)
    OBVIOUS
  <1>1. Locals(c, o, l, t, w, p, Nobody) /\ old' = old /\ pc[c] = "idle"
        /\ UNCHANGED <<feature, user, linked, token, mailed, now, worked, spent, retired, revived>>
    BY DEF Begin, tableVars
  <1>2. late' \in [Call -> BOOLEAN] /\ (late'[c] <=> (t \in spent \/ w \in retired))
        /\ \A d \in Call \ {c} : late'[d] = late[d]
    <2>1. (t \in spent \/ w \in retired) \in BOOLEAN
      OBVIOUS
    <2>2. late' = [late EXCEPT ![c] = (t \in spent \/ w \in retired)]
      BY DEF Begin
    <2> QED
      BY <2>1, <2>2 DEF LocalsOK
  <1>3. /\ op' \in [Call -> Operation] /\ pc' \in [Call -> Place]
        /\ tk' \in [Call -> Token \cup {None}] /\ word' \in [Call -> Word \cup {None}]
        /\ proven' \in [Call -> BOOLEAN] /\ seen' \in [Call -> User]
        /\ op'[c] = o /\ pc'[c] = l /\ tk'[c] = t /\ word'[c] = w
        /\ \A d \in Call \ {c} :
             /\ op'[d] = op[d] /\ pc'[d] = pc[d] /\ tk'[d] = tk[d]
             /\ word'[d] = word[d] /\ seen'[d] = seen[d]
    BY <1>1, LocalsIs
  <1>4. LocalsOK'
    BY <1>1, <1>2, <1>3 DEF LocalsOK
  <1>5. OthersSame(c)
    BY <1>1, <1>2, <1>3 DEF OthersSame
  <1> QED
    BY <1>1, <1>2, <1>3, <1>4, <1>5

------------------------------------------------------------------------------
(* Type correctness.                                                       *)

TablesOK ==
    /\ feature \in Features /\ now \in Nat
    /\ user \subseteq User /\ \A u, v \in user : u = v
    /\ linked \in BOOLEAN /\ mailed \subseteq Token
    /\ token \in [Token -> [at : {"unused", "table", "gone"}, kind : Kind, until : Nat]]
    /\ chosen \subseteq Word /\ worked \subseteq Token /\ spent \subseteq Token
    /\ retired \subseteq Word /\ revived \in BOOLEAN

\* Where a call can be, and what it has there.
Placed(c) ==
    /\ op[c] \in {"reset", "verify"} => tk[c] \in Token
    /\ pc[c] = "mail" => tk[c] \in Token
    /\ pc[c] = "find" => op[c] \in {"reset", "verify"}
    /\ pc[c] = "erase" => op[c] \in {"reset", "verify"} /\ tk[c] \in worked
    /\ pc[c] = "compare" => op[c] \in {"login", "service"}
    /\ pc[c] = "session" => op[c] \in {"login", "service", "oauth"}
    /\ pc[c] = "save" => op[c] = "service"
    /\ pc[c] \in {"provider", "link"} => op[c] = "oauth"

TypeInv == LocalsOK /\ TablesOK /\ \A c \in Call : Placed(c)

LEMMA TypeInvSuffices == TypeInv => AccountsTypeOK
  BY DEF TypeInv, LocalsOK, TablesOK, AccountsTypeOK

LEMMA TypeInit == AccountsInit => TypeInv
  <1> SUFFICES ASSUME AccountsInit PROVE TypeInv
    OBVIOUS
  <1>1. LocalsOK
    BY NobodyIsAUser DEF AccountsInit, LocalsOK, Operation, Place
  <1>2. user \subseteq User /\ \A u, v \in user : u = v
    <2>1. CASE user = {}
      BY <2>1
    <2>2. CASE \E w \in Word : user = {NewUser([word |-> w, weak |-> TRUE], "register", TRUE)}
      <3> PICK w \in Word : user = {NewUser([word |-> w, weak |-> TRUE], "register", TRUE)}
        BY <2>2
      <3>1. [word |-> w, weak |-> TRUE] \in Hash
        BY DEF Hash
      <3>2. NewUser([word |-> w, weak |-> TRUE], "register", TRUE) \in User
        BY <3>1 DEF NewUser, User
      <3> QED
        BY <3>2
    <2> QED
      BY <2>1, <2>2 DEF AccountsInit
  <1>3. TablesOK
    BY <1>2 DEF AccountsInit, TablesOK, Kind
  <1>4. \A c \in Call : Placed(c)
    BY DEF AccountsInit, Placed
  <1> QED
    BY <1>1, <1>3, <1>4 DEF TypeInv

\* Placed is kept for the calls that do not step.
LEMMA PlacedFrame ==
    ASSUME TypeInv, NEW c \in Call, OthersSame(c), worked \subseteq worked', Placed(c)'
    PROVE  \A d \in Call : Placed(d)'
  <1> TAKE d \in Call
  <1>1. CASE d # c
    BY <1>1 DEF TypeInv, Placed, OthersSame
  <1> QED
    BY <1>1

Beginning(c) ==
    \/ Register(c) \/ RequestReset(c) \/ Resend(c) \/ ResetPassword(c)
    \/ VerifyEmail(c) \/ Login(c) \/ OAuth(c)

\* The steps that read, and go on or end.
Reading(c) ==
    \/ FindNobody(c) \/ FindAddressee(c) \/ FindToken(c) \/ FindOwner(c)
    \/ Compare(c) \/ IssueSession(c) \/ FindAccount(c) \/ FindLocal(c) \/ Fail(c)

Writing(c) ==
    \/ InsertUser(c) \/ IssueToken(c) \/ SendMail(c) \/ WritePassword(c) \/ WriteVerified(c)
    \/ EraseToken(c) \/ ReadUser(c) \/ SaveRehash(c) \/ CreateUser(c) \/ CreateLink(c)

\* What the reading steps do: they end, or go on to the place that follows.
LEMMA ReadingIs ==
    ASSUME TypeInv, NEW c \in Call, Reading(c)
    PROVE  /\ Reads
           /\ LocalsOK' /\ OthersSame(c) /\ Placed(c)'
           /\ \/ Ended(c)
              \/ Moved(c, "insert") /\ op[c] = "register" /\ pc[c] = "look" /\ user = {}
              \/ Moved(c, "issue") /\ op[c] \in {"forgot", "resend"} /\ pc[c] = "look"
              \/ Moved(c, IF op[c] = "reset" THEN "look" ELSE "write")
                 /\ pc[c] = "find" /\ token[tk[c]].at = "table"
              \/ Moved(c, "write") /\ op[c] = "reset" /\ pc[c] = "look"
              \/ Moved(c, "session") /\ pc[c] = "compare" /\ seen[c].hash.word = word[c]
              \/ Moved(c, "save") /\ op[c] = "service" /\ pc[c] = "session"
              \/ Moved(c, "session") /\ op[c] = "oauth" /\ pc[c] = "provider"
              \/ Moved(c, "look") /\ op[c] = "oauth"
              \/ Moved(c, "create") /\ op[c] = "oauth"
              \/ Moved(c, "link") /\ op[c] = "oauth" /\ user # {} /\ \A u \in user : u.verified
  <1>p. Placed(c) /\ LocalsOK
    BY DEF TypeInv
  <1>m. ASSUME NEW l \in Place \ {"mail", "find", "erase"}, Moved(c, l),
               l = "compare" => op[c] \in {"login", "service"},
               l = "session" => op[c] \in {"login", "service", "oauth"},
               l = "save" => op[c] = "service",
               l \in {"provider", "link"} => op[c] = "oauth"
        PROVE  Placed(c)'
    BY <1>p, <1>m DEF Moved, Placed
  <1>0. CASE End(c) /\ Reads
    BY <1>0, <1>p, EndIs DEF Ended, Placed
  <1>1. CASE FindNobody(c)
    <2>1. Reads /\ op[c] = "register" /\ pc[c] = "look" /\ (End(c) \/ (Go(c, "insert") /\ user = {}))
      <3>1. CASE user = {}
        BY <1>1, <3>1 DEF FindNobody
      <3>2. CASE ~(user = {})
        BY <1>1, <3>2 DEF FindNobody
      <3> QED
        BY <3>1, <3>2
    <2>2. "insert" \in Place
      BY DEF Place
    <2>3. CASE Go(c, "insert")
      <3>1. Moved(c, "insert") /\ LocalsOK' /\ OthersSame(c)
        BY <1>p, <2>2, <2>3, GoIs
      <3>2. Placed(c)'
        BY <1>m, <2>1, <2>2, <3>1
      <3> QED
        BY <1>0, <2>1, <2>2, <2>3, <3>1, <3>2
    <2> QED
      BY <1>0, <2>1, <2>3
  <1>2. CASE FindAddressee(c)
    <2>1. Reads /\ op[c] \in {"forgot", "resend"} /\ pc[c] = "look" /\ (End(c) \/ Go(c, "issue"))
      BY <1>2 DEF FindAddressee
    <2>2. "issue" \in Place
      BY DEF Place
    <2>3. CASE Go(c, "issue")
      <3>1. Moved(c, "issue") /\ LocalsOK' /\ OthersSame(c)
        BY <1>p, <2>2, <2>3, GoIs
      <3>2. Placed(c)'
        BY <1>m, <2>1, <2>2, <3>1
      <3> QED
        BY <1>0, <2>1, <2>2, <2>3, <3>1, <3>2
    <2> QED
      BY <1>0, <2>1, <2>3
  <1>3. CASE FindToken(c)
    <2> DEFINE l == IF op[c] = "reset" THEN "look" ELSE "write"
    <2>1. Reads /\ pc[c] = "find" /\ (End(c) \/ (Go(c, l) /\ token[tk[c]].at = "table"))
      <3>1. CASE token[tk[c]].at = "table" /\ ~Expired(tk[c])
        BY <1>3, <3>1 DEF FindToken
      <3>2. CASE ~(token[tk[c]].at = "table" /\ ~Expired(tk[c]))
        BY <1>3, <3>2 DEF FindToken
      <3> QED
        BY <3>1, <3>2
    <2>2. l \in Place /\ l \in {"look", "write"}
      BY DEF Place
    <2>3. CASE Go(c, l)
      <3>1. Moved(c, l) /\ LocalsOK' /\ OthersSame(c)
        BY <1>p, <2>2, <2>3, GoIs
      <3>2. Placed(c)'
        BY <1>m, <2>1, <2>2, <3>1
      <3> QED
        BY <1>0, <2>1, <3>1, <3>2
    <2> QED
      BY <1>0, <2>1, <2>3
  <1>4. CASE FindOwner(c)
    <2>1. Reads /\ op[c] = "reset" /\ pc[c] = "look" /\ (End(c) \/ Go(c, "write"))
      BY <1>4 DEF FindOwner
    <2>2. "write" \in Place
      BY DEF Place
    <2>3. CASE Go(c, "write")
      <3>1. Moved(c, "write") /\ LocalsOK' /\ OthersSame(c)
        BY <1>p, <2>2, <2>3, GoIs
      <3>2. Placed(c)'
        BY <1>m, <2>1, <2>2, <3>1
      <3> QED
        BY <1>0, <2>1, <2>2, <2>3, <3>1, <3>2
    <2> QED
      BY <1>0, <2>1, <2>3
  <1>5. CASE Compare(c)
    <2>1. Reads /\ pc[c] = "compare" /\ (End(c) \/ (Go(c, "session") /\ seen[c].hash.word = word[c]))
      <3>1. CASE Accepted(c)
        BY <1>5, <3>1 DEF Compare, Accepted
      <3>2. CASE ~Accepted(c)
        BY <1>5, <3>2 DEF Compare
      <3> QED
        BY <3>1, <3>2
    <2>2. "session" \in Place /\ op[c] \in {"login", "service"}
      BY <1>p, <2>1 DEF Place, Placed
    <2>3. CASE Go(c, "session")
      <3>1. Moved(c, "session") /\ LocalsOK' /\ OthersSame(c)
        BY <1>p, <2>2, <2>3, GoIs
      <3>2. Placed(c)'
        BY <1>m, <2>1, <2>2, <3>1
      <3> QED
        BY <1>0, <2>1, <2>2, <2>3, <3>1, <3>2
    <2> QED
      BY <1>0, <2>1, <2>3
  <1>6. CASE IssueSession(c)
    <2>1. Reads /\ pc[c] = "session" /\ (End(c) \/ (Go(c, "save") /\ op[c] = "service"))
      <3>1. CASE op[c] = "service" /\ seen[c].hash.weak
        BY <1>6, <3>1 DEF IssueSession
      <3>2. CASE ~(op[c] = "service" /\ seen[c].hash.weak)
        BY <1>6, <3>2 DEF IssueSession
      <3> QED
        BY <3>1, <3>2
    <2>2. "save" \in Place
      BY DEF Place
    <2>3. CASE Go(c, "save") /\ op[c] = "service"
      <3>1. Moved(c, "save") /\ LocalsOK' /\ OthersSame(c)
        BY <1>p, <2>2, <2>3, GoIs
      <3>2. Placed(c)'
        BY <1>m, <2>1, <2>2, <2>3, <3>1
      <3> QED
        BY <1>0, <2>1, <2>2, <2>3, <3>1, <3>2
    <2> QED
      BY <1>0, <2>1, <2>3
  <1>7. CASE FindAccount(c)
    <2>1. Reads /\ pc[c] = "provider" /\ (Go(c, "session") \/ Go(c, "look"))
      BY <1>7 DEF FindAccount
    <2>2. "session" \in Place /\ "look" \in Place /\ op[c] = "oauth"
      BY <1>p, <2>1 DEF Place, Placed
    <2>3. CASE Go(c, "session")
      <3>1. Moved(c, "session") /\ LocalsOK' /\ OthersSame(c)
        BY <1>p, <2>2, <2>3, GoIs
      <3>2. Placed(c)'
        BY <1>m, <2>1, <2>2, <3>1
      <3> QED
        BY <1>0, <2>1, <2>2, <2>3, <3>1, <3>2
    <2>4. CASE Go(c, "look")
      <3>1. Moved(c, "look") /\ LocalsOK' /\ OthersSame(c)
        BY <1>p, <2>2, <2>4, GoIs
      <3>2. Placed(c)'
        BY <1>m, <2>1, <2>2, <3>1
      <3> QED
        BY <1>0, <2>1, <2>2, <2>4, <3>1, <3>2
    <2> QED
      BY <1>0, <2>1, <2>3, <2>4
  <1>8. CASE FindLocal(c)
    <2>1. Reads /\ op[c] = "oauth"
          /\ \/ End(c) \/ Go(c, "create")
             \/ Go(c, "link") /\ user # {} /\ \A u \in user : u.verified
      BY <1>8 DEF FindLocal
    <2>2. "create" \in Place /\ "link" \in Place
      BY DEF Place
    <2>3. CASE Go(c, "create")
      <3>1. Moved(c, "create") /\ LocalsOK' /\ OthersSame(c)
        BY <1>p, <2>2, <2>3, GoIs
      <3>2. Placed(c)'
        BY <1>m, <2>1, <2>2, <3>1
      <3> QED
        BY <1>0, <2>1, <2>2, <2>3, <3>1, <3>2
    <2>4. CASE Go(c, "link") /\ user # {} /\ \A u \in user : u.verified
      <3>1. Moved(c, "link") /\ LocalsOK' /\ OthersSame(c)
        BY <1>p, <2>2, <2>4, GoIs
      <3>2. Placed(c)'
        BY <1>m, <2>1, <2>2, <3>1
      <3> QED
        BY <1>0, <2>1, <2>2, <2>4, <3>1, <3>2
    <2> QED
      BY <1>0, <2>1, <2>3, <2>4
  <1>9. CASE Fail(c)
    BY <1>0, <1>9 DEF Fail
  <1> QED
    BY <1>1, <1>2, <1>3, <1>4, <1>5, <1>6, <1>7, <1>8, <1>9 DEF Reading

\* What the calls start with.
LEMMA BeginningIs ==
    ASSUME TypeInv, NEW c \in Call, Beginning(c)
    PROVE  /\ LocalsOK' /\ OthersSame(c) /\ old' = old /\ Placed(c)'
           /\ UNCHANGED <<feature, user, linked, token, mailed, now, worked, spent, retired, revived>>
           /\ chosen \subseteq chosen' /\ chosen' \subseteq Word
           /\ (late'[c] <=> (tk'[c] \in spent \/ word'[c] \in retired))
           /\ \/ /\ op'[c] = "register" /\ pc'[c] = "look" /\ tk'[c] = None
                 /\ word'[c] \in Word \ chosen /\ word'[c] \in chosen'
              \/ /\ op'[c] = "reset" /\ pc'[c] = "find" /\ tk'[c] \in mailed
                 /\ word'[c] \in Word \ chosen /\ word'[c] \in chosen'
              \/ op'[c] = "verify" /\ pc'[c] = "find" /\ tk'[c] \in mailed /\ word'[c] = None
              \/ /\ op'[c] \in {"login", "service"} /\ pc'[c] = "look" /\ tk'[c] = None
                 /\ word'[c] \in chosen
              \/ op'[c] \in {"forgot", "resend"} /\ pc'[c] = "look"
              \/ op'[c] = "oauth" /\ pc'[c] = "provider"
  <1>p. LocalsOK /\ mailed \subseteq Token /\ chosen \subseteq Word
    BY DEF TypeInv, TablesOK
  <1>o. /\ {"register", "reset", "verify", "login", "service", "forgot", "resend", "oauth"} \subseteq Operation
        /\ {"look", "find", "provider"} \subseteq Place
        /\ None \in Token \cup {None} /\ None \in Word \cup {None} /\ FALSE \in BOOLEAN
    BY DEF Operation, Place
  <1>1. CASE Register(c)
    <2> PICK w \in Word \ chosen :
          Begin(c, "register", "look", None, w, FALSE) /\ chosen' = chosen \cup {w}
      BY <1>1 DEF Register
    <2>1. \E p \in BOOLEAN : Begin(c, "register", "look", None, w, p)
      BY <1>o
    <2>2. "register" \in Operation /\ "look" \in Place /\ w \in Word \cup {None}
          /\ None \in Token \cup {None}
      BY <1>o
    <2>3. /\ LocalsOK' /\ OthersSame(c) /\ old' = old
          /\ op'[c] = "register" /\ pc'[c] = "look" /\ tk'[c] = None /\ word'[c] = w
          /\ (late'[c] <=> (None \in spent \/ w \in retired))
          /\ UNCHANGED <<feature, user, linked, token, mailed, now, worked, spent, retired, revived>>
      BY <1>p, <2>1, <2>2, BeginIs
    <2> QED
      BY <1>p, <2>3 DEF Placed
  <1>2. CASE RequestReset(c) \/ Resend(c)
    <2> PICK o \in {"forgot", "resend"} :
          (\E p \in BOOLEAN : Begin(c, o, "look", None, None, p)) /\ chosen' = chosen
      BY <1>2 DEF RequestReset, Resend
    <2>1. o \in Operation /\ "look" \in Place
      BY <1>o
    <2>2. /\ LocalsOK' /\ OthersSame(c) /\ old' = old
          /\ op'[c] = o /\ pc'[c] = "look" /\ tk'[c] = None /\ word'[c] = None
          /\ (late'[c] <=> (None \in spent \/ None \in retired))
          /\ UNCHANGED <<feature, user, linked, token, mailed, now, worked, spent, retired, revived>>
      BY <1>o, <1>p, <2>1, BeginIs
    <2> QED
      BY <1>p, <2>2 DEF Placed
  <1>3. CASE ResetPassword(c)
    <2> PICK t \in mailed, w \in Word \ chosen :
          (\E p \in BOOLEAN : Begin(c, "reset", "find", t, w, p)) /\ chosen' = chosen \cup {w}
      BY <1>3 DEF ResetPassword
    <2>1. "reset" \in Operation /\ "find" \in Place /\ w \in Word \cup {None}
          /\ t \in Token \cup {None} /\ t \in Token
      BY <1>o, <1>p
    <2>2. /\ LocalsOK' /\ OthersSame(c) /\ old' = old
          /\ op'[c] = "reset" /\ pc'[c] = "find" /\ tk'[c] = t /\ word'[c] = w
          /\ (late'[c] <=> (t \in spent \/ w \in retired))
          /\ UNCHANGED <<feature, user, linked, token, mailed, now, worked, spent, retired, revived>>
      BY <1>p, <2>1, BeginIs
    <2> QED
      BY <1>p, <2>1, <2>2 DEF Placed
  <1>4. CASE VerifyEmail(c)
    <2> PICK t \in mailed :
          (\E p \in BOOLEAN : Begin(c, "verify", "find", t, None, p)) /\ chosen' = chosen
      BY <1>4 DEF VerifyEmail
    <2>1. "verify" \in Operation /\ "find" \in Place /\ t \in Token \cup {None} /\ t \in Token
          /\ None \in Word \cup {None}
      BY <1>o, <1>p
    <2>2. /\ LocalsOK' /\ OthersSame(c) /\ old' = old
          /\ op'[c] = "verify" /\ pc'[c] = "find" /\ tk'[c] = t /\ word'[c] = None
          /\ (late'[c] <=> (t \in spent \/ None \in retired))
          /\ UNCHANGED <<feature, user, linked, token, mailed, now, worked, spent, retired, revived>>
      BY <1>p, <2>1, BeginIs
    <2> QED
      BY <1>p, <2>1, <2>2 DEF Placed
  <1>5. CASE Login(c)
    <2> PICK o \in {"login", "service"}, w \in chosen :
          (\E p \in BOOLEAN : Begin(c, o, "look", None, w, p)) /\ chosen' = chosen
      BY <1>5 DEF Login
    <2>1. o \in Operation /\ "look" \in Place /\ w \in Word \cup {None}
          /\ None \in Token \cup {None}
      BY <1>o, <1>p
    <2>2. /\ LocalsOK' /\ OthersSame(c) /\ old' = old
          /\ op'[c] = o /\ pc'[c] = "look" /\ tk'[c] = None /\ word'[c] = w
          /\ (late'[c] <=> (None \in spent \/ w \in retired))
          /\ UNCHANGED <<feature, user, linked, token, mailed, now, worked, spent, retired, revived>>
      BY <1>p, <2>1, BeginIs
    <2> QED
      BY <1>p, <2>2 DEF Placed
  <1>6. CASE OAuth(c)
    <2>1. (\E p \in BOOLEAN : Begin(c, "oauth", "provider", None, None, p)) /\ chosen' = chosen
      BY <1>6 DEF OAuth
    <2>2. "oauth" \in Operation /\ "provider" \in Place
      BY <1>o
    <2>3. /\ LocalsOK' /\ OthersSame(c) /\ old' = old
          /\ op'[c] = "oauth" /\ pc'[c] = "provider" /\ tk'[c] = None /\ word'[c] = None
          /\ (late'[c] <=> (None \in spent \/ None \in retired))
          /\ UNCHANGED <<feature, user, linked, token, mailed, now, worked, spent, retired, revived>>
      BY <1>o, <1>p, <2>1, <2>2, BeginIs
    <2> QED
      BY <1>p, <2>1, <2>3 DEF Placed
  <1> QED
    BY <1>1, <1>2, <1>3, <1>4, <1>5, <1>6 DEF Beginning

NothingElse == UNCHANGED <<feature, token, mailed, now, chosen, worked, spent, retired, revived>>

LEMMA InsertUserIs ==
    ASSUME TypeInv, NEW c \in Call, InsertUser(c)
    PROVE  /\ LocalsOK' /\ OthersSame(c) /\ Placed(c)' /\ NothingElse /\ linked' = linked
           /\ op[c] = "register" /\ pc[c] = "insert"
           /\ \/ user = {} /\ user' = {NewUser(New(word[c]), "register", FALSE)}
              \/ user # {} /\ user' = user
           /\ Ended(c) \/ Moved(c, "issue")
  <1>p. LocalsOK /\ Placed(c) /\ "issue" \in Place
    BY DEF TypeInv, Place
  <1>1. /\ op[c] = "register" /\ pc[c] = "insert" /\ linked' = linked /\ NothingElse
        /\ \/ user = {} /\ user' = {NewUser(New(word[c]), "register", FALSE)}
           \/ user # {} /\ user' = user
    <2>1. CASE user = {}
      BY <2>1 DEF InsertUser, NothingElse
    <2>2. CASE user # {}
      BY <2>2 DEF InsertUser, NothingElse
    <2> QED
      BY <2>1, <2>2
  <1>2. End(c) \/ Go(c, "issue")
    <2>1. CASE user = {} /\ feature # "off"
      BY <2>1 DEF InsertUser
    <2>2. CASE user = {} /\ feature = "off"
      BY <2>2 DEF InsertUser
    <2>3. CASE user # {}
      BY <2>3 DEF InsertUser
    <2> QED
      BY <2>1, <2>2, <2>3
  <1>3. LocalsOK' /\ OthersSame(c) /\ (Ended(c) \/ Moved(c, "issue"))
    BY <1>p, <1>2, EndIs, GoIs
  <1>4. Placed(c)'
    BY <1>p, <1>3 DEF Placed, Ended, Moved
  <1> QED
    BY <1>1, <1>3, <1>4

LEMMA IssueTokenIs ==
    ASSUME TypeInv, NEW c \in Call, IssueToken(c)
    PROVE  /\ LocalsOK' /\ OthersSame(c) /\ Placed(c)' /\ pc[c] = "issue" /\ pc'[c] = "mail"
           /\ op' = op /\ word' = word /\ seen' = seen /\ late' = late /\ old' = old
           /\ UNCHANGED <<feature, user, linked, mailed, now, chosen, worked, spent, retired, revived>>
           /\ token' \in [Token -> [at : {"unused", "table", "gone"}, kind : Kind, until : Nat]]
           /\ \E t \in Token :
                /\ token[t].at = "unused" /\ token'[t].at = "table" /\ tk'[c] = t
                /\ \A s \in Token \ {t} : token'[s] = token[s]
  <1>p. LocalsOK /\ TablesOK /\ Placed(c) /\ "mail" \in Place
    BY DEF TypeInv, Place
  <1> DEFINE kind == IF op[c] = "forgot" THEN "reset" ELSE "verify"
  <1>k. kind \in Kind /\ now + TokenTtl[kind] \in Nat
    BY <1>p, AccountsConstantsOK DEF Kind, TablesOK
  <1> PICK t \in Fresh :
        /\ token' = [token EXCEPT ![t] = [at |-> "table", kind |-> kind, until |-> now + TokenTtl[kind]]]
        /\ tk' = [tk EXCEPT ![c] = t] /\ pc' = [pc EXCEPT ![c] = "mail"]
    BY DEF IssueToken, At
  <1> HIDE DEF kind
  <1>1. t \in Token /\ token[t].at = "unused"
    BY DEF Fresh
  <1>2. /\ token' \in [Token -> [at : {"unused", "table", "gone"}, kind : Kind, until : Nat]]
        /\ token'[t].at = "table" /\ \A s \in Token \ {t} : token'[s] = token[s]
    BY <1>p, <1>k, <1>1 DEF TablesOK
  <1>3. /\ op' = op /\ word' = word /\ seen' = seen /\ late' = late /\ old' = old /\ proven' = proven
        /\ UNCHANGED <<feature, user, linked, mailed, now, chosen, worked, spent, retired, revived>>
        /\ pc[c] = "issue"
    BY DEF IssueToken, historyVars
  <1>4. pc' \in [Call -> Place] /\ pc'[c] = "mail" /\ \A d \in Call \ {c} : pc'[d] = pc[d]
    BY <1>p DEF LocalsOK
  <1>5. tk' \in [Call -> Token \cup {None}] /\ tk'[c] = t /\ \A d \in Call \ {c} : tk'[d] = tk[d]
    BY <1>p, <1>1 DEF LocalsOK
  <1>6. LocalsOK'
    BY <1>p, <1>3, <1>4, <1>5 DEF LocalsOK
  <1>7. OthersSame(c)
    BY <1>3, <1>4, <1>5 DEF OthersSame
  <1>8. Placed(c)'
    BY <1>1, <1>3, <1>4, <1>5 DEF Placed
  <1> QED
    BY <1>1, <1>2, <1>3, <1>4, <1>5, <1>6, <1>7, <1>8

LEMMA SendMailIs ==
    ASSUME TypeInv, NEW c \in Call, SendMail(c)
    PROVE  /\ LocalsOK' /\ OthersSame(c) /\ Placed(c)' /\ Ended(c) /\ pc[c] = "mail"
           /\ mailed' = mailed \cup {tk[c]} /\ tk[c] \in Token
           /\ UNCHANGED <<feature, user, linked, token, now, chosen, worked, spent, retired, revived>>
  <1>p. LocalsOK /\ Placed(c)
    BY DEF TypeInv
  <1>1. /\ pc[c] = "mail" /\ End(c) /\ mailed' = mailed \cup {tk[c]}
        /\ UNCHANGED <<feature, user, linked, token, now, chosen, worked, spent, retired, revived>>
    BY DEF SendMail, tableVars
  <1>2. LocalsOK' /\ OthersSame(c) /\ Ended(c)
    BY <1>p, <1>1, EndIs
  <1> QED
    BY <1>p, <1>1, <1>2 DEF Placed, Ended

LEMMA WritePasswordIs ==
    ASSUME TypeInv, NEW c \in Call, WritePassword(c)
    PROVE  /\ LocalsOK' /\ OthersSame(c) /\ Placed(c)' /\ op[c] = "reset" /\ pc[c] = "write"
           /\ op' = op /\ tk' = tk /\ word' = word /\ seen' = seen /\ late' = late /\ pc'[c] = "erase"
           /\ worked' = worked \cup {tk[c]} /\ tk[c] \in Token
           /\ UNCHANGED <<feature, linked, token, mailed, now, chosen, spent, retired, revived>>
           /\ \E u \in user : /\ user' = {NewUser(New(word[c]), "reset", u.verified)}
                              /\ old'[c] = u.hash.word
  <1>p. LocalsOK /\ TablesOK /\ Placed(c) /\ "erase" \in Place
    BY DEF TypeInv, Place
  <1> PICK u \in user : /\ user' = {NewUser(New(word[c]), "reset", u.verified)}
                        /\ old' = [old EXCEPT ![c] = u.hash.word]
    BY DEF WritePassword
  <1>1. u.hash.word \in Word \cup {None}
    BY <1>p DEF TablesOK, User, Hash
  <1>2. old' \in [Call -> Word \cup {None}] /\ old'[c] = u.hash.word
        /\ \A d \in Call \ {c} : old'[d] = old[d]
    BY <1>p, <1>1 DEF LocalsOK
  <1>3. /\ op[c] = "reset" /\ pc[c] = "write" /\ pc' = [pc EXCEPT ![c] = "erase"]
        /\ op' = op /\ tk' = tk /\ word' = word /\ seen' = seen /\ late' = late /\ proven' = proven
        /\ worked' = worked \cup {tk[c]}
        /\ UNCHANGED <<feature, linked, token, mailed, now, chosen, spent, retired, revived>>
    BY DEF WritePassword, At
  <1>4. pc' \in [Call -> Place] /\ pc'[c] = "erase" /\ \A d \in Call \ {c} : pc'[d] = pc[d]
    BY <1>p, <1>3 DEF LocalsOK
  <1>5. LocalsOK'
    BY <1>p, <1>2, <1>3, <1>4 DEF LocalsOK
  <1>6. OthersSame(c)
    BY <1>2, <1>3, <1>4 DEF OthersSame
  <1>7. Placed(c)' /\ tk[c] \in Token
    BY <1>p, <1>3, <1>4 DEF Placed
  <1> QED
    BY <1>2, <1>3, <1>4, <1>5, <1>6, <1>7

LEMMA WriteVerifiedIs ==
    ASSUME TypeInv, NEW c \in Call, WriteVerified(c)
    PROVE  /\ LocalsOK' /\ OthersSame(c) /\ Placed(c)' /\ op[c] = "verify" /\ pc[c] = "write"
           /\ Moved(c, "erase")
           /\ worked' = worked \cup {tk[c]} /\ tk[c] \in Token
           /\ user' = {[u EXCEPT !.verified = TRUE] : u \in user}
           /\ UNCHANGED <<feature, linked, token, mailed, now, chosen, spent, retired, revived>>
  <1>p. LocalsOK /\ Placed(c) /\ "erase" \in Place
    BY DEF TypeInv, Place
  <1>1. /\ op[c] = "verify" /\ pc[c] = "write" /\ Go(c, "erase")
        /\ worked' = worked \cup {tk[c]}
        /\ user' = {[u EXCEPT !.verified = TRUE] : u \in user}
        /\ UNCHANGED <<feature, linked, token, mailed, now, chosen, spent, retired, revived>>
    BY DEF WriteVerified
  <1>2. LocalsOK' /\ OthersSame(c) /\ Moved(c, "erase")
    BY <1>p, <1>1, GoIs
  <1>3. Placed(c)' /\ tk[c] \in Token
    BY <1>p, <1>1, <1>2 DEF Placed, Moved
  <1> QED
    BY <1>1, <1>2, <1>3

LEMMA EraseTokenIs ==
    ASSUME TypeInv, NEW c \in Call, EraseToken(c)
    PROVE  /\ LocalsOK' /\ OthersSame(c) /\ Placed(c)' /\ Ended(c)
           /\ tk[c] \in Token \cap worked /\ token' = Forget({tk[c]})
           /\ spent' = spent \cup {tk[c]} /\ retired' = retired \cup ({old[c]} \ {None})
           /\ UNCHANGED <<feature, user, linked, mailed, now, chosen, worked, revived>>
  <1>p. LocalsOK /\ Placed(c)
    BY DEF TypeInv
  <1>1. /\ pc[c] = "erase" /\ End(c) /\ token' = Forget({tk[c]})
        /\ spent' = spent \cup {tk[c]} /\ retired' = retired \cup ({old[c]} \ {None})
        /\ UNCHANGED <<feature, user, linked, mailed, now, chosen, worked, revived>>
    BY DEF EraseToken
  <1>2. LocalsOK' /\ OthersSame(c) /\ Ended(c)
    BY <1>p, <1>1, EndIs
  <1> QED
    BY <1>p, <1>1, <1>2 DEF Placed, Ended

LEMMA ReadUserIs ==
    ASSUME TypeInv, NEW c \in Call, ReadUser(c)
    PROVE  /\ LocalsOK' /\ OthersSame(c) /\ Placed(c)' /\ Reads /\ op[c] \in {"login", "service"}
           /\ \/ Ended(c)
              \/ /\ pc'[c] = "compare" /\ op' = op /\ word' = word /\ tk' = tk
                 /\ late' = late /\ old' = old
                 /\ \E u \in user : seen'[c] = u
  <1>p. LocalsOK /\ TablesOK /\ Placed(c) /\ "compare" \in Place
    BY DEF TypeInv, Place
  <1>0. Reads /\ op[c] \in {"login", "service"}
    BY DEF ReadUser
  <1>1. CASE End(c)
    BY <1>0, <1>1, <1>p, EndIs DEF Ended, Placed
  <1>2. CASE /\ pc' = [pc EXCEPT ![c] = "compare"]
             /\ \E u \in user : seen' = [seen EXCEPT ![c] = u]
             /\ op' = op /\ tk' = tk /\ word' = word /\ proven' = proven /\ late' = late /\ old' = old
    <2> PICK u \in user : seen' = [seen EXCEPT ![c] = u]
      BY <1>2
    <2>1. seen' \in [Call -> User] /\ seen'[c] = u /\ \A d \in Call \ {c} : seen'[d] = seen[d]
      BY <1>p DEF LocalsOK, TablesOK
    <2>2. pc' \in [Call -> Place] /\ pc'[c] = "compare" /\ \A d \in Call \ {c} : pc'[d] = pc[d]
      BY <1>p, <1>2 DEF LocalsOK
    <2>3. LocalsOK'
      BY <1>p, <1>2, <2>1, <2>2 DEF LocalsOK
    <2>4. OthersSame(c) /\ Placed(c)'
      BY <1>p, <1>0, <1>2, <2>1, <2>2 DEF OthersSame, Placed
    <2> QED
      BY <1>0, <1>2, <2>1, <2>2, <2>3, <2>4
  <1> QED
    BY <1>1, <1>2 DEF ReadUser, At

LEMMA SaveRehashIs ==
    ASSUME TypeInv, NEW c \in Call, SaveRehash(c)
    PROVE  /\ LocalsOK' /\ OthersSame(c) /\ Placed(c)' /\ Ended(c) /\ linked' = linked
           /\ op[c] = "service" /\ pc[c] = "save"
           /\ user' = {[u EXCEPT !.hash = New(word[c])] : u \in user}
           /\ (revived' <=> (revived \/ \E u \in user : u.hash.word # word[c]))
           /\ revived' \in BOOLEAN
           /\ UNCHANGED <<feature, token, mailed, now, chosen, worked, spent, retired>>
  <1>p. LocalsOK /\ Placed(c)
    BY DEF TypeInv
  <1>1. /\ End(c) /\ linked' = linked /\ pc[c] = "save"
        /\ user' = {[u EXCEPT !.hash = New(word[c])] : u \in user}
        /\ revived' = (revived \/ \E u \in user : u.hash.word # word[c])
        /\ UNCHANGED <<feature, token, mailed, now, chosen, worked, spent, retired>>
    BY DEF SaveRehash
  <1>2. LocalsOK' /\ OthersSame(c) /\ Ended(c)
    BY <1>p, <1>1, EndIs
  <1>3. Placed(c)' /\ op[c] = "service"
    BY <1>p, <1>1, <1>2 DEF Placed, Ended
  <1> QED
    BY <1>1, <1>2, <1>3

LEMMA CreateUserIs ==
    ASSUME TypeInv, NEW c \in Call, CreateUser(c)
    PROVE  /\ LocalsOK' /\ OthersSame(c) /\ Placed(c)' /\ NothingElse /\ linked' = linked
           /\ \/ user = {} /\ user' = {NewUser(New(None), "oauth", proven[c])} /\ Moved(c, "link")
              \/ user # {} /\ user' = user /\ Ended(c)
  <1>p. LocalsOK /\ Placed(c) /\ "link" \in Place
    BY DEF TypeInv, Place
  <1>1. op[c] = "oauth" /\ linked' = linked /\ NothingElse
    BY DEF CreateUser, NothingElse
  <1>2. CASE user = {}
    <2>1. Go(c, "link") /\ user' = {NewUser(New(None), "oauth", proven[c])}
      BY <1>2 DEF CreateUser
    <2>2. LocalsOK' /\ OthersSame(c) /\ Moved(c, "link")
      BY <1>p, <2>1, GoIs
    <2>3. Placed(c)'
      BY <1>p, <1>1, <2>2 DEF Placed, Moved
    <2> QED
      BY <1>1, <1>2, <2>1, <2>2, <2>3
  <1>3. CASE user # {}
    <2>1. End(c) /\ user' = user
      BY <1>3 DEF CreateUser
    <2>2. LocalsOK' /\ OthersSame(c) /\ Ended(c)
      BY <1>p, <2>1, EndIs
    <2>3. Placed(c)'
      BY <1>p, <2>2 DEF Placed, Ended
    <2> QED
      BY <1>1, <1>3, <2>1, <2>2, <2>3
  <1> QED
    BY <1>2, <1>3

LEMMA CreateLinkIs ==
    ASSUME TypeInv, NEW c \in Call, CreateLink(c)
    PROVE  /\ LocalsOK' /\ OthersSame(c) /\ Placed(c)' /\ NothingElse /\ user' = user
           /\ pc[c] = "link" /\ linked' = TRUE /\ (Ended(c) \/ Moved(c, "session"))
  <1>p. LocalsOK /\ Placed(c) /\ "session" \in Place
    BY DEF TypeInv, Place
  <1>1. pc[c] = "link" /\ linked' = TRUE /\ user' = user /\ NothingElse
    BY DEF CreateLink, NothingElse
  <1>2. End(c) \/ Go(c, "session")
    <2>1. CASE linked
      BY <2>1 DEF CreateLink
    <2>2. CASE ~linked
      BY <2>2 DEF CreateLink
    <2> QED
      BY <2>1, <2>2
  <1>3. LocalsOK' /\ OthersSame(c) /\ (Ended(c) \/ Moved(c, "session"))
    BY <1>p, <1>2, EndIs, GoIs
  <1>4. Placed(c)'
    BY <1>p, <1>1, <1>3 DEF Placed, Ended, Moved
  <1> QED
    BY <1>1, <1>3, <1>4

LEMMA NewUserTyped ==
    ASSUME NEW w \in Word \cup {None}, NEW who \in {"register", "reset", "oauth"}, NEW v \in BOOLEAN
    PROVE  NewUser(New(w), who, v) \in User
  <1>1. New(w) \in Hash
    BY DEF New, Hash
  <1> QED
    BY <1>1 DEF NewUser, User

LEMMA ForgetTyped ==
    ASSUME TablesOK, NEW T
    PROVE  /\ Forget(T) \in [Token -> [at : {"unused", "table", "gone"}, kind : Kind, until : Nat]]
           /\ \A t \in Token : Forget(T)[t].at = (IF t \in T THEN "gone" ELSE token[t].at)
           /\ \A t \in Token : Forget(T)[t].until = token[t].until
  <1>1. \A t \in Token : token[t] \in [at : {"unused", "table", "gone"}, kind : Kind, until : Nat]
    BY DEF TablesOK
  <1> QED
    BY <1>1 DEF Forget

\* The tables stay typed.
LEMMA TablesStep ==
    ASSUME TypeInv, NEW c \in Call, Writing(c)
    PROVE  TablesOK'
  <1>p. LocalsOK /\ TablesOK
    BY DEF TypeInv
  <1>1. CASE InsertUser(c)
    <2>1. NewUser(New(word[c]), "register", FALSE) \in User
      BY <1>p, NewUserTyped DEF LocalsOK
    <2> QED
      BY <1>1, <1>p, <2>1, InsertUserIs DEF TablesOK, NothingElse
  <1>2. CASE IssueToken(c)
    BY <1>2, <1>p, IssueTokenIs DEF TablesOK
  <1>3. CASE SendMail(c)
    BY <1>3, <1>p, SendMailIs DEF TablesOK
  <1>4. CASE WritePassword(c)
    <2> PICK u \in user : user' = {NewUser(New(word[c]), "reset", u.verified)}
      BY <1>4, WritePasswordIs
    <2>1. u.verified \in BOOLEAN
      BY <1>p DEF TablesOK, User
    <2>2. NewUser(New(word[c]), "reset", u.verified) \in User
      BY <1>p, <2>1, NewUserTyped DEF LocalsOK
    <2> QED
      BY <1>4, <1>p, <2>2, WritePasswordIs DEF TablesOK
  <1>5. CASE WriteVerified(c)
    <2>1. user \subseteq User /\ (\A u, v \in user : u = v) /\ worked \subseteq Token
      BY <1>p DEF TablesOK
    <2>2. \A u \in user : [u EXCEPT !.verified = TRUE] \in User
      BY <2>1 DEF User
    <2>3. user' = {[u EXCEPT !.verified = TRUE] : u \in user}
      BY <1>5, WriteVerifiedIs
    <2>4. user' \subseteq User
      BY <2>2, <2>3
    <2>5. \A u, v \in user' : u = v
      BY <2>1, <2>3
    <2>6. worked' \subseteq Token
      BY <1>5, <2>1, WriteVerifiedIs
    <2>7. UNCHANGED <<feature, linked, token, mailed, now, chosen, spent, retired, revived>>
      BY <1>5, WriteVerifiedIs
    <2> QED
      BY <1>p, <2>4, <2>5, <2>6, <2>7 DEF TablesOK
  <1>6. CASE EraseToken(c)
    <2>1. retired' \subseteq Word /\ spent' \subseteq Token
      <3>1. retired' = retired \cup ({old[c]} \ {None}) /\ spent' = spent \cup {tk[c]}
        BY <1>6 DEF EraseToken
      <3>2. tk[c] \in Token
        BY <1>6, EraseTokenIs
      <3>3. old[c] \in Word \cup {None} /\ retired \subseteq Word /\ spent \subseteq Token
        BY <1>p DEF LocalsOK, TablesOK
      <3> QED
        BY <3>1, <3>2, <3>3
    <2>2. token' \in [Token -> [at : {"unused", "table", "gone"}, kind : Kind, until : Nat]]
      <3>1. token' = Forget({tk[c]})
        BY <1>6 DEF EraseToken
      <3> QED
        BY <1>p, <3>1, ForgetTyped
    <2>3. UNCHANGED <<feature, user, linked, mailed, now, chosen, worked, revived>>
      BY <1>6 DEF EraseToken
    <2> QED
      BY <1>p, <2>1, <2>2, <2>3 DEF TablesOK
  <1>7. CASE ReadUser(c)
    BY <1>7, <1>p, ReadUserIs DEF TablesOK, Reads, tableVars
  <1>8. CASE SaveRehash(c)
    <2>1. New(word[c]) \in Hash
      BY <1>p DEF New, Hash, LocalsOK
    <2>2. user' \subseteq User /\ \A u, v \in user' : u = v
      BY <1>8, <1>p, <2>1, SaveRehashIs DEF TablesOK, User
    <2> QED
      BY <1>8, <1>p, <2>2, SaveRehashIs DEF TablesOK
  <1>9. CASE CreateUser(c)
    <2>1. proven[c] \in BOOLEAN
      BY <1>p DEF LocalsOK
    <2>2. NewUser(New(None), "oauth", proven[c]) \in User
      BY <2>1, NewUserTyped
    <2> QED
      BY <1>9, <1>p, <2>2, CreateUserIs DEF TablesOK, NothingElse
  <1>10. CASE CreateLink(c)
    BY <1>10, <1>p, CreateLinkIs DEF TablesOK, NothingElse
  <1> QED
    BY <1>1, <1>2, <1>3, <1>4, <1>5, <1>6, <1>7, <1>8, <1>9, <1>10 DEF Writing

\* The other steps: the clock, and the cleaning of the tables.
LEMMA EnvironmentIs ==
    ASSUME TypeInv, Tick \/ DeleteExpired \/ UNCHANGED accountVars
    PROVE  /\ UNCHANGED <<feature, user, linked, mailed, chosen, worked, spent, retired, revived>>
           /\ UNCHANGED <<op, pc, tk, word, proven, seen, late, old>>
           /\ now' \in Nat /\ now <= now'
           /\ \/ token' = token
              \/ now' = now /\ token' = Forget({t \in InTable : Expired(t)})
  BY DEF TypeInv, TablesOK, Tick, DeleteExpired, accountVars, tableVars, localVars, historyVars

LEMMA NextIs ==
    ASSUME [AccountsNext]_accountVars
    PROVE  \/ \E c \in Call : Beginning(c) \/ Reading(c) \/ Writing(c)
           \/ Tick \/ DeleteExpired \/ UNCHANGED accountVars
  BY DEF AccountsNext, Beginning, Reading, Writing

LEMMA TypeStep == TypeInv /\ [AccountsNext]_accountVars => TypeInv'
  <1> SUFFICES ASSUME TypeInv, [AccountsNext]_accountVars PROVE TypeInv'
    OBVIOUS
  <1>1. ASSUME NEW c \in Call, Beginning(c) PROVE TypeInv'
    <2>1. TablesOK' /\ worked' = worked
      BY <1>1, BeginningIs DEF TypeInv, TablesOK
    <2> QED
      BY <1>1, <2>1, BeginningIs, PlacedFrame DEF TypeInv
  <1>2. ASSUME NEW c \in Call, Reading(c) PROVE TypeInv'
    <2>1. TablesOK' /\ worked' = worked
      BY <1>2, ReadingIs DEF TypeInv, TablesOK, Reads, tableVars
    <2> QED
      BY <1>2, <2>1, ReadingIs, PlacedFrame DEF TypeInv
  <1>3. ASSUME NEW c \in Call, Writing(c) PROVE TypeInv'
    <2>1. TablesOK'
      BY <1>3, TablesStep
    <2>2. LocalsOK' /\ OthersSame(c) /\ Placed(c)' /\ worked \subseteq worked'
      <3>1. CASE InsertUser(c) \/ CreateUser(c) \/ CreateLink(c)
        BY <3>1, InsertUserIs, CreateUserIs, CreateLinkIs DEF NothingElse
      <3>2. CASE IssueToken(c) \/ SendMail(c)
        BY <3>2, IssueTokenIs, SendMailIs
      <3>3. CASE WritePassword(c) \/ WriteVerified(c)
        BY <3>3, WritePasswordIs, WriteVerifiedIs
      <3>4. CASE EraseToken(c) \/ SaveRehash(c)
        BY <3>4, EraseTokenIs, SaveRehashIs
      <3>5. CASE ReadUser(c)
        BY <3>5, ReadUserIs DEF Reads
      <3> QED
        BY <1>3, <3>1, <3>2, <3>3, <3>4, <3>5 DEF Writing
    <2> QED
      BY <2>1, <2>2, PlacedFrame DEF TypeInv
  <1>4. CASE Tick \/ DeleteExpired \/ UNCHANGED accountVars
    <2>1. TablesOK'
      BY <1>4, EnvironmentIs, ForgetTyped DEF TypeInv, TablesOK
    <2> QED
      BY <1>4, <2>1, EnvironmentIs DEF TypeInv, LocalsOK, Placed
  <1> QED
    BY <1>1, <1>2, <1>3, <1>4, NextIs

\* Every reachable state is well typed; in particular the unique email leaves
\* one user at most, whoever registers, signs in and resets at once.
THEOREM AccountsTypeCorrect == AccountsSpec => []AccountsTypeOK
  BY TypeInit, TypeStep, TypeInvSuffices, PTL DEF AccountsSpec

------------------------------------------------------------------------------
(* Words tell who set them.                                                *)

\* The call has a word that it chose and that nobody has seen yet.
Waiting(c) ==
    \/ op[c] = "register" /\ pc[c] \in {"look", "insert"}
    \/ op[c] = "reset" /\ pc[c] \in {"find", "look", "write"}

\* The word is, or was, in the row of the user.
UsedWord(w) ==
    \/ w \in retired
    \/ \E u \in user : u.hash.word = w
    \/ \E d \in Call :
        \/ old[d] = w
        \/ pc[d] = "compare" /\ seen[d].hash.word = w
        \/ op[d] = "service" /\ pc[d] \in {"session", "save"} /\ word[d] = w

WordsChosen ==
    /\ \A w \in Word : UsedWord(w) => w \in chosen
    /\ \A c \in Call : op[c] \in {"register", "reset", "login", "service"} => word[c] \in chosen

WordsApart == \A c, d \in Call : Waiting(c) /\ Waiting(d) /\ c # d => word[c] # word[d]

WordsUnused == \A c \in Call : Waiting(c) => ~UsedWord(word[c])

WordInv == WordsChosen /\ WordsApart /\ WordsUnused

LEMMA WordInit == AccountsInit => WordInv
  BY AccountsConstantsOK
  DEF AccountsInit, WordInv, WordsChosen, WordsApart, WordsUnused, UsedWord, Waiting, NewUser

\* A call has the word it waited with, or has just begun with a fresh one.
LEMMA WaitingStep ==
    ASSUME TypeInv, NEW c \in Call, Reading(c) \/ Writing(c)
    PROVE  /\ chosen' = chosen
           /\ \A x \in Call : Waiting(x)' => Waiting(x) /\ word'[x] = word[x]
           /\ \A x \in Call :
                op'[x] \in {"register", "reset", "login", "service"}
                    => op'[x] = op[x] /\ word'[x] = word[x]
  <1>1. /\ \A x \in Call \ {c} : op'[x] = op[x] /\ pc'[x] = pc[x] /\ word'[x] = word[x]
        /\ chosen' = chosen
    <2>1. CASE Reading(c)
      BY <2>1, ReadingIs DEF OthersSame, Reads
    <2>2. CASE InsertUser(c) \/ CreateUser(c) \/ CreateLink(c)
      BY <2>2, InsertUserIs, CreateUserIs, CreateLinkIs DEF NothingElse, OthersSame
    <2>3. CASE IssueToken(c) \/ SendMail(c) \/ SaveRehash(c)
      BY <2>3, IssueTokenIs, SendMailIs, SaveRehashIs DEF OthersSame
    <2>4. CASE WritePassword(c) \/ WriteVerified(c) \/ EraseToken(c)
      BY <2>4, WritePasswordIs, WriteVerifiedIs, EraseTokenIs DEF OthersSame
    <2>5. CASE ReadUser(c)
      BY <2>5, ReadUserIs DEF Reads, OthersSame
    <2> QED
      BY <2>1, <2>2, <2>3, <2>4, <2>5 DEF Writing
  <1>2. /\ Waiting(c)' => Waiting(c) /\ word'[c] = word[c]
        /\ op'[c] = "none" \/ (op'[c] = op[c] /\ word'[c] = word[c])
    <2>1. CASE Reading(c)
      BY <2>1, ReadingIs DEF Waiting, Ended, Moved, TypeInv, Placed
    <2>2. CASE InsertUser(c)
      BY <2>2, InsertUserIs DEF Waiting, Ended, Moved
    <2>3. CASE CreateUser(c) \/ CreateLink(c)
      BY <2>3, CreateUserIs, CreateLinkIs DEF Waiting, Ended, Moved
    <2>4. CASE IssueToken(c) \/ SendMail(c) \/ SaveRehash(c)
      BY <2>4, IssueTokenIs, SendMailIs, SaveRehashIs DEF Waiting, Ended
    <2>5. CASE WritePassword(c) \/ WriteVerified(c) \/ EraseToken(c)
      BY <2>5, WritePasswordIs, WriteVerifiedIs, EraseTokenIs DEF Waiting, Ended, Moved
    <2>6. CASE ReadUser(c)
      BY <2>6, ReadUserIs DEF Waiting, Ended
    <2> QED
      BY <2>1, <2>2, <2>3, <2>4, <2>5, <2>6 DEF Writing
  <1>3. \A x \in Call : Waiting(x)' => Waiting(x) /\ word'[x] = word[x]
    <2>1. \A x \in Call \ {c} : Waiting(x)' => Waiting(x) /\ word'[x] = word[x]
      BY <1>1 DEF Waiting
    <2> QED
      BY <1>2, <2>1
  <1>4. \A x \in Call :
          op'[x] \in {"register", "reset", "login", "service"}
              => op'[x] = op[x] /\ word'[x] = word[x]
    <2> TAKE x \in Call
    <2>1. CASE x = c
      BY <1>2, <2>1
    <2>2. CASE x # c
      BY <1>1, <2>2
    <2> QED
      BY <2>1, <2>2
  <1> QED
    BY <1>1, <1>3, <1>4

\* A word comes into use when the call that waited with it writes it.
LEMMA UsedStep ==
    ASSUME TypeInv, NEW c \in Call, Beginning(c) \/ Reading(c) \/ Writing(c),
           NEW w \in Word, UsedWord(w)'
    PROVE  UsedWord(w) \/ (Waiting(c) /\ ~Waiting(c)' /\ w = word[c])
  <1>n. w # None
    BY AccountsConstantsOK
  <1>o. ASSUME OthersSame(c), retired' = retired, \A u \in user' : u.hash.word = w => UsedWord(w),
               old'[c] = w => UsedWord(w),
               pc'[c] = "compare" /\ seen'[c].hash.word = w => UsedWord(w),
               op'[c] = "service" /\ pc'[c] \in {"session", "save"} /\ word'[c] = w => UsedWord(w)
        PROVE  UsedWord(w)
    <2>1. CASE w \in retired' \/ \E u \in user' : u.hash.word = w
      BY <1>o, <2>1 DEF UsedWord
    <2>2. ASSUME NEW d \in Call,
                 \/ old'[d] = w
                 \/ pc'[d] = "compare" /\ seen'[d].hash.word = w
                 \/ op'[d] = "service" /\ pc'[d] \in {"session", "save"} /\ word'[d] = w
          PROVE  UsedWord(w)
      <3>1. CASE d = c
        BY <1>o, <2>2, <3>1
      <3>2. CASE d # c
        BY <1>o, <2>2, <3>2 DEF OthersSame, UsedWord
      <3> QED
        BY <3>1, <3>2
    <2> QED
      BY <2>1, <2>2 DEF UsedWord
  <1>1. CASE Beginning(c)
    <2>1. OthersSame(c) /\ retired' = retired /\ user' = user /\ old'[c] = old[c]
          /\ pc'[c] \in {"look", "find", "provider"}
      BY <1>1, BeginningIs
    <2> QED
      BY <1>o, <2>1 DEF UsedWord
  <1>2. CASE Reading(c)
    <2>1. OthersSame(c) /\ retired' = retired /\ user' = user
      BY <1>2, ReadingIs DEF Reads, tableVars
    <2>2. /\ old'[c] \in {None, old[c]} /\ pc'[c] # "compare"
          /\ (op'[c] = "service" /\ pc'[c] \in {"session", "save"} =>
                /\ word'[c] = word[c] /\ op[c] = "service"
                /\ \/ pc[c] = "compare" /\ seen[c].hash.word = word[c]
                   \/ pc[c] = "session")
      BY <1>2, ReadingIs DEF Ended, Moved
    <2> QED
      BY <1>n, <1>o, <2>1, <2>2 DEF UsedWord
  <1>3. CASE InsertUser(c)
    <2>1. OthersSame(c) /\ retired' = retired /\ Waiting(c) /\ ~Waiting(c)'
          /\ old'[c] \in {None, old[c]} /\ pc'[c] \in {"idle", "issue"}
      BY <1>3, InsertUserIs DEF NothingElse, Waiting, Ended, Moved
    <2>2. \A u \in user' : u \in user \/ u.hash.word = word[c]
      BY <1>3, InsertUserIs DEF NewUser, New
    <2>3. CASE w # word[c]
      BY <1>n, <1>o, <2>1, <2>2, <2>3 DEF UsedWord
    <2> QED
      BY <2>1, <2>3
  <1>4. CASE IssueToken(c)
    <2>1. OthersSame(c) /\ retired' = retired /\ user' = user /\ old' = old /\ pc'[c] = "mail"
      BY <1>4, IssueTokenIs
    <2> QED
      BY <1>o, <2>1 DEF UsedWord
  <1>5. CASE SendMail(c)
    <2>1. OthersSame(c) /\ retired' = retired /\ user' = user /\ Ended(c)
      BY <1>5, SendMailIs
    <2> QED
      BY <1>n, <1>o, <2>1 DEF UsedWord, Ended
  <1>6. CASE WritePassword(c)
    <2>1. OthersSame(c) /\ retired' = retired /\ Waiting(c) /\ ~Waiting(c)' /\ pc'[c] = "erase"
      BY <1>6, WritePasswordIs DEF Waiting
    <2> PICK u \in user : user' = {NewUser(New(word[c]), "reset", u.verified)}
                          /\ old'[c] = u.hash.word
      BY <1>6, WritePasswordIs
    <2>2. \A v \in user' : v.hash.word = word[c]
      BY DEF NewUser, New
    <2>3. CASE w # word[c]
      BY <1>o, <2>1, <2>2, <2>3 DEF UsedWord
    <2> QED
      BY <2>1, <2>3
  <1>7. CASE WriteVerified(c)
    <2>1. OthersSame(c) /\ retired' = retired /\ Moved(c, "erase")
          /\ user' = {[u EXCEPT !.verified = TRUE] : u \in user}
      BY <1>7, WriteVerifiedIs
    <2>2. \A v \in user' : \E u \in user : v.hash.word = u.hash.word
      BY <2>1 DEF TypeInv, TablesOK, User
    <2> QED
      BY <1>o, <2>1, <2>2 DEF UsedWord, Moved
  <1>8. CASE EraseToken(c)
    <2>1. retired' = retired \cup ({old[c]} \ {None}) /\ user' = user
      BY <1>8 DEF EraseToken
    <2>2. OthersSame(c) /\ Ended(c)
      BY <1>8, EraseTokenIs
    <2>3. CASE w \in retired'
      BY <2>1, <2>3 DEF UsedWord
    <2>4. CASE w \notin retired'
      BY <1>n, <2>1, <2>2, <2>4 DEF UsedWord, Ended, OthersSame
    <2> QED
      BY <2>3, <2>4
  <1>9. CASE ReadUser(c)
    <2>1. OthersSame(c) /\ retired' = retired /\ user' = user /\ pc'[c] \in {"idle", "compare"}
      BY <1>9, ReadUserIs DEF Reads, tableVars, Ended
    <2>2. old'[c] \in {None, old[c]} /\ (pc'[c] = "compare" => \E u \in user : seen'[c] = u)
      BY <1>9, ReadUserIs DEF Ended
    <2> QED
      BY <1>n, <1>o, <2>1, <2>2 DEF UsedWord
  <1>10. CASE SaveRehash(c)
    <2>1. OthersSame(c) /\ retired' = retired /\ Ended(c) /\ op[c] = "service" /\ pc[c] = "save"
          /\ user' = {[u EXCEPT !.hash = New(word[c])] : u \in user}
      BY <1>10, SaveRehashIs
    <2>2. \A v \in user' : v.hash.word = word[c]
      BY <2>1 DEF New, TypeInv, TablesOK, User
    <2> QED
      BY <1>n, <1>o, <2>1, <2>2 DEF UsedWord, Ended
  <1>11. CASE CreateUser(c)
    <2>1. OthersSame(c) /\ retired' = retired
      BY <1>11, CreateUserIs DEF NothingElse
    <2>2. pc'[c] \in {"idle", "link"} /\ old'[c] \in {None, old[c]}
      BY <1>11, CreateUserIs DEF Ended, Moved
    <2>3. \A u \in user' : u \in user \/ u.hash.word = None
      BY <1>11, CreateUserIs DEF NewUser, New
    <2> QED
      BY <1>n, <1>o, <2>1, <2>2, <2>3 DEF UsedWord
  <1>12. CASE CreateLink(c)
    <2>1. OthersSame(c) /\ retired' = retired /\ user' = user
      BY <1>12, CreateLinkIs DEF NothingElse
    <2>2. op[c] = "oauth"
      BY <1>12, CreateLinkIs DEF TypeInv, Placed
    <2>3. op'[c] \in {"none", "oauth"} /\ pc'[c] # "compare" /\ old'[c] \in {None, old[c]}
      BY <1>12, <2>2, CreateLinkIs DEF Ended, Moved
    <2> QED
      BY <1>n, <1>o, <2>1, <2>3 DEF UsedWord
  <1> QED
    BY <1>1, <1>2, <1>3, <1>4, <1>5, <1>6, <1>7, <1>8, <1>9, <1>10, <1>11, <1>12 DEF Writing

LEMMA WordStep == TypeInv /\ WordInv /\ [AccountsNext]_accountVars => WordInv'
  <1> SUFFICES ASSUME TypeInv, WordInv, [AccountsNext]_accountVars PROVE WordInv'
    OBVIOUS
  <1>t. /\ chosen \subseteq Word
        /\ \A c \in Call : op[c] \in {"register", "reset", "login", "service"} => word[c] \in chosen
        /\ \A c \in Call : Waiting(c) => word[c] \in chosen
    BY DEF TypeInv, TablesOK, WordInv, WordsChosen, Waiting
  <1>1. ASSUME NEW c \in Call, Reading(c) \/ Writing(c) PROVE WordInv'
    <2>1. WordsChosen'
      <3>1. ASSUME NEW w \in Word, UsedWord(w)' PROVE w \in chosen'
        BY <1>1, <1>t, <3>1, WaitingStep, UsedStep DEF WordInv, WordsChosen
      <3>2. \A x \in Call :
              op'[x] \in {"register", "reset", "login", "service"} => word'[x] \in chosen'
        BY <1>1, <1>t, WaitingStep
      <3> QED
        BY <3>1, <3>2 DEF WordsChosen
    <2>2. WordsApart'
      BY <1>1, WaitingStep DEF WordInv, WordsApart
    <2>3. WordsUnused'
      <3> SUFFICES ASSUME NEW x \in Call, Waiting(x)', UsedWord(word[x])' PROVE FALSE
        BY DEF WordsUnused
      <3>1. Waiting(x) /\ word'[x] = word[x] /\ word[x] \in Word
        BY <1>1, <1>t, WaitingStep
      <3> PICK w \in Word : w = word[x]
        BY <3>1
      <3>2. UsedWord(w)'
        BY <3>1 DEF UsedWord
      <3>3. UsedWord(w) \/ (Waiting(c) /\ ~Waiting(c)' /\ w = word[c])
        BY <1>1, <3>2, UsedStep
      <3>4. ~UsedWord(w)
        BY <3>1 DEF WordInv, WordsUnused
      <3> QED
        BY <3>1, <3>3, <3>4 DEF WordInv, WordsApart
    <2> QED
      BY <2>1, <2>2, <2>3 DEF WordInv
  <1>2. ASSUME NEW c \in Call, Beginning(c) PROVE WordInv'
    <2>1. /\ \A x \in Call \ {c} : op'[x] = op[x] /\ pc'[x] = pc[x] /\ word'[x] = word[x]
          /\ chosen \subseteq chosen'
      BY <1>2, BeginningIs DEF OthersSame
    <2>2. Waiting(c)' => word'[c] \in Word \ chosen
      BY <1>2, BeginningIs DEF Waiting
    <2>3. \A x \in Call \ {c} : Waiting(x)' => Waiting(x) /\ word'[x] = word[x] /\ word[x] \in chosen
      BY <1>t, <2>1 DEF Waiting
    <2>4. ASSUME NEW w \in Word, UsedWord(w)' PROVE UsedWord(w)
      <3>1. CASE Waiting(c)
        BY <1>2, <3>1, BeginningIs DEF Waiting, Beginning, Register, RequestReset, Resend,
           ResetPassword, VerifyEmail, Login, OAuth, Begin
      <3>2. CASE ~Waiting(c)
        BY <1>2, <2>4, <3>2, UsedStep
      <3> QED
        BY <3>1, <3>2
    <2>5. WordsChosen'
      <3>1. op'[c] \in {"register", "reset", "login", "service"} => word'[c] \in chosen'
        BY <1>2, BeginningIs
      <3> QED
        BY <1>t, <2>1, <2>4, <3>1 DEF WordInv, WordsChosen
    <2>6. WordsApart'
      BY <2>2, <2>3 DEF WordInv, WordsApart
    <2>7. WordsUnused'
      <3> SUFFICES ASSUME NEW x \in Call, Waiting(x)', UsedWord(word[x])' PROVE FALSE
        BY DEF WordsUnused
      <3>0. word'[x] \in Word
        BY <1>t, <2>2, <2>3
      <3> PICK w \in Word : w = word'[x]
        BY <3>0
      <3>1. UsedWord(w)'
        BY DEF UsedWord
      <3>2. UsedWord(w)
        BY <2>4, <3>1
      <3>3. CASE x = c
        BY <2>2, <3>2, <3>3 DEF WordInv, WordsChosen
      <3>4. CASE x # c
        <4>1. Waiting(x) /\ w = word[x]
          BY <2>3, <3>4
        <4> QED
          BY <3>2, <4>1 DEF WordInv, WordsUnused
      <3> QED
        BY <3>3, <3>4
    <2> QED
      BY <2>5, <2>6, <2>7 DEF WordInv
  <1>3. CASE Tick \/ DeleteExpired \/ UNCHANGED accountVars
    BY <1>3, EnvironmentIs
    DEF WordInv, WordsChosen, WordsApart, WordsUnused, UsedWord, Waiting
  <1> QED
    BY <1>1, <1>2, <1>3, NextIs

------------------------------------------------------------------------------
(* Tokens.                                                                 *)

LateSpent(c) == late[c] /\ op[c] \in {"reset", "verify"} => pc[c] = "find" /\ tk[c] \in spent

TokenInv ==
    /\ \A t \in spent : token[t].at = "gone"
    /\ \A t \in Token : token[t].at = "gone" => t \in worked \/ Expired(t)
    /\ \A c \in Call : LateSpent(c)

LEMMA TokenInit == AccountsInit => TokenInv
  BY DEF AccountsInit, TokenInv, LateSpent

\* Most steps leave the tokens where they are.
LEMMA TokenFrame ==
    ASSUME TypeInv, TokenInv, NEW c \in Call, OthersSame(c), LateSpent(c)',
           UNCHANGED <<token, now, spent>>, worked \subseteq worked'
    PROVE  TokenInv'
  <1>1. \A x \in Call : LateSpent(x)'
    <2>1. \A x \in Call \ {c} : LateSpent(x)'
      BY DEF TokenInv, LateSpent, OthersSame
    <2> QED
      BY <2>1
  <1> QED
    BY <1>1 DEF TokenInv, Expired

LEMMA TokenStep == TypeInv /\ WordInv /\ TokenInv /\ [AccountsNext]_accountVars => TokenInv'
  <1> SUFFICES ASSUME TypeInv, WordInv, TokenInv, [AccountsNext]_accountVars PROVE TokenInv'
    OBVIOUS
  <1>n. /\ None \notin Token /\ None \notin Word /\ retired \subseteq chosen
        /\ retired \subseteq Word /\ spent \subseteq Token /\ TablesOK
    BY AccountsConstantsOK DEF TypeInv, TablesOK, WordInv, WordsChosen, UsedWord
  <1>l. \A c \in Call : LateSpent(c)
    BY DEF TokenInv
  <1>1. ASSUME NEW c \in Call, Beginning(c) PROVE TokenInv'
    <2>1. UNCHANGED <<token, now, spent>> /\ worked \subseteq worked' /\ OthersSame(c)
      BY <1>1, BeginningIs
    <2>2. LateSpent(c)'
      BY <1>1, <1>n, <2>1, BeginningIs DEF LateSpent
    <2> QED
      BY <2>1, <2>2, TokenFrame
  <1>2. ASSUME NEW c \in Call, Reading(c) PROVE TokenInv'
    <2>1. UNCHANGED <<token, now, spent>> /\ worked \subseteq worked' /\ OthersSame(c)
      BY <1>2, ReadingIs DEF Reads, tableVars
    <2>2. late[c] /\ op[c] \in {"reset", "verify"} => pc[c] = "find" /\ token[tk[c]].at = "gone"
      BY <1>l DEF LateSpent, TokenInv
    <2>3. LateSpent(c)'
      BY <1>2, <2>2, ReadingIs DEF LateSpent, Ended, Moved
    <2> QED
      BY <2>1, <2>3, TokenFrame
  <1>3. ASSUME NEW c \in Call,
               \/ InsertUser(c) \/ SendMail(c) \/ ReadUser(c) \/ SaveRehash(c)
               \/ CreateUser(c) \/ CreateLink(c)
        PROVE  TokenInv'
    <2>1. UNCHANGED <<token, now, spent>> /\ worked \subseteq worked' /\ OthersSame(c)
      <3>1. CASE InsertUser(c) \/ CreateUser(c) \/ CreateLink(c)
        BY <3>1, InsertUserIs, CreateUserIs, CreateLinkIs DEF NothingElse
      <3>2. CASE SendMail(c) \/ SaveRehash(c)
        BY <3>2, SendMailIs, SaveRehashIs
      <3>3. CASE ReadUser(c)
        BY <3>3, ReadUserIs DEF Reads, tableVars
      <3> QED
        BY <1>3, <3>1, <3>2, <3>3
    <2>2. LateSpent(c)'
      <3>1. CASE InsertUser(c)
        BY <3>1, InsertUserIs DEF LateSpent, Ended, Moved
      <3>2. CASE SendMail(c) \/ SaveRehash(c)
        BY <3>2, SendMailIs, SaveRehashIs DEF LateSpent, Ended
      <3>3. CASE ReadUser(c)
        BY <3>3, ReadUserIs DEF LateSpent, Ended
      <3>4. CASE CreateUser(c)
        BY <3>4, CreateUserIs DEF CreateUser, LateSpent, Ended, Moved
      <3>5. CASE CreateLink(c)
        BY <3>5, CreateLinkIs DEF LateSpent, Ended, Moved, TypeInv, Placed
      <3> QED
        BY <1>3, <3>1, <3>2, <3>3, <3>4, <3>5
    <2> QED
      BY <2>1, <2>2, TokenFrame
  <1>4. ASSUME NEW c \in Call, WritePassword(c) \/ WriteVerified(c) PROVE TokenInv'
    <2>1. UNCHANGED <<token, now, spent>> /\ worked \subseteq worked' /\ OthersSame(c)
          /\ pc[c] = "write" /\ op'[c] = op[c] /\ op[c] \in {"reset", "verify"}
          /\ (late'[c] <=> late[c])
      BY <1>4, WritePasswordIs, WriteVerifiedIs DEF Moved
    <2>2. LateSpent(c)'
      BY <1>l, <2>1 DEF LateSpent
    <2> QED
      BY <2>1, <2>2, TokenFrame
  <1>5. ASSUME NEW c \in Call, IssueToken(c) PROVE TokenInv'
    <2>1. OthersSame(c) /\ pc[c] = "issue" /\ op' = op /\ late' = late
          /\ UNCHANGED <<now, worked, spent>>
      BY <1>5, IssueTokenIs
    <2> PICK t \in Token :
          /\ token[t].at = "unused" /\ token'[t].at = "table"
          /\ \A s \in Token \ {t} : token'[s] = token[s]
      BY <1>5, IssueTokenIs
    <2>2. \A s \in Token : token'[s].at = "gone" => token'[s] = token[s]
      OBVIOUS
    <2>3. \A s \in spent : token'[s].at = "gone"
      BY <1>n DEF TokenInv
    <2>4. \A x \in Call : LateSpent(x)'
      <3> TAKE x \in Call
      <3>1. CASE x = c
        BY <1>l, <2>1, <3>1 DEF LateSpent
      <3>2. CASE x # c
        BY <1>l, <2>1, <3>2 DEF LateSpent, OthersSame
      <3> QED
        BY <3>1, <3>2
    <2>5. \A s \in Token : token'[s].at = "gone" => s \in worked' \/ token'[s].until < now'
      BY <2>1, <2>2 DEF TokenInv, Expired
    <2> QED
      BY <2>1, <2>3, <2>4, <2>5 DEF TokenInv, Expired
  <1>6. ASSUME NEW c \in Call, EraseToken(c) PROVE TokenInv'
    <2>1. OthersSame(c) /\ Ended(c) /\ tk[c] \in Token /\ tk[c] \in worked
      BY <1>6, EraseTokenIs
    <2>2. token' = Forget({tk[c]}) /\ spent' = spent \cup {tk[c]} /\ UNCHANGED <<now, worked>>
      BY <1>6 DEF EraseToken
    <2>3. \A s \in Token : /\ token'[s].at = (IF s = tk[c] THEN "gone" ELSE token[s].at)
                           /\ token'[s].until = token[s].until
      BY <1>n, <2>2, ForgetTyped
    <2>4. \A s \in spent' : token'[s].at = "gone"
      BY <1>n, <2>1, <2>2, <2>3 DEF TokenInv
    <2>5. \A s \in Token : token'[s].at = "gone" => s \in worked' \/ token'[s].until < now'
      BY <2>1, <2>2, <2>3 DEF TokenInv, Expired
    <2>6. \A x \in Call : LateSpent(x)'
      <3> TAKE x \in Call
      <3>1. CASE x = c
        BY <2>1, <3>1 DEF LateSpent, Ended
      <3>2. CASE x # c
        BY <1>l, <2>1, <2>2, <3>2 DEF LateSpent, OthersSame
      <3> QED
        BY <3>1, <3>2
    <2> QED
      BY <2>4, <2>5, <2>6 DEF TokenInv, Expired
  <1>7. CASE Tick \/ DeleteExpired \/ UNCHANGED accountVars
    <2>1. UNCHANGED <<worked, spent, op, pc, tk, late>> /\ now' \in Nat /\ now <= now'
          /\ now \in Nat
      BY <1>7, <1>n, EnvironmentIs DEF TablesOK
    <2>2. \A s \in Token : /\ token'[s].until = token[s].until /\ token[s].until \in Nat
                           /\ \/ token'[s].at = token[s].at
                              \/ token'[s].at = "gone" /\ Expired(s)
      <3>1. CASE token' = token
        BY <1>n, <3>1 DEF TablesOK
      <3>2. CASE token' = Forget({t \in InTable : Expired(t)})
        <4>1. \A s \in Token : token[s].until \in Nat
          BY <1>n DEF TablesOK
        <4> QED
          BY <1>n, <3>2, <4>1, ForgetTyped
      <3> QED
        BY <1>7, <3>1, <3>2, EnvironmentIs
    <2>3. \A s \in spent' : token'[s].at = "gone"
      BY <1>n, <2>1, <2>2 DEF TokenInv
    <2>4. \A s \in Token : token'[s].at = "gone" => s \in worked' \/ token'[s].until < now'
      BY <2>1, <2>2 DEF TokenInv, Expired
    <2>5. \A x \in Call : LateSpent(x)'
      BY <1>l, <2>1 DEF LateSpent
    <2> QED
      BY <2>3, <2>4, <2>5 DEF TokenInv, Expired
  <1> QED
    BY <1>1, <1>2, <1>3, <1>4, <1>5, <1>6, <1>7, NextIs DEF Writing

\* A mailed token works once: a request that begins after one with the same
\* token has answered success does not get past looking the token up.
THEOREM SpentTokensDeadTheorem == AccountsSpec => []SpentTokensDead
  <1>1. TokenInv => SpentTokensDead
    BY DEF TokenInv, LateSpent, SpentTokensDead
  <1> QED
    BY TypeInit, TypeStep, WordInit, WordStep, TokenInit, TokenStep, <1>1, PTL DEF AccountsSpec

\* And it is not lost: wherever the requests fail, a token is gone before its
\* time only after it has set the password or verified the address.
THEOREM LostTokensWorkedTheorem == AccountsSpec => []LostTokensWorked
  <1>1. TokenInv => LostTokensWorked
    BY DEF TokenInv, LostTokensWorked
  <1> QED
    BY TypeInit, TypeStep, WordInit, WordStep, TokenInit, TokenStep, <1>1, PTL DEF AccountsSpec

------------------------------------------------------------------------------
(* Replaced passwords.                                                     *)

LateWord(c) == late[c] /\ op[c] \in {"login", "service"} => word[c] \in retired

\* A login that came late with its word is refused.
LoginOK(c) ==
    late[c] => /\ (op[c] \in {"login", "service"} => pc[c] \notin {"session", "save"})
               /\ (pc[c] = "compare" => seen[c].hash.word # word[c])

\* The password in the row is none that a reset has replaced.
RowOK ==
    \A u \in user :
        /\ u.hash.word \notin retired
        /\ \A d \in Call : old[d] # None => u.hash.word # old[d]

PassInv ==
    /\ \A c \in Call : LateWord(c)
    /\ ~revived => (RowOK /\ \A c \in Call : LoginOK(c))

LEMMA PassInit == AccountsInit => PassInv
  BY DEF AccountsInit, PassInv, LateWord, LoginOK, RowOK

\* A step that brings no new word into the row keeps it in order.
LEMMA RowFrame ==
    ASSUME RowOK, \A u \in user' : \E v \in user : u.hash.word = v.hash.word,
           \A w \in retired' : w \in retired \/ \E d \in Call : old[d] = w /\ w # None,
           \A d \in Call : old'[d] \in {None, old[d]}
    PROVE  RowOK'
  BY DEF RowOK

LEMMA PassFrame ==
    ASSUME TypeInv, PassInv, NEW c \in Call, OthersSame(c), retired \subseteq retired',
           revived => revived', LateWord(c)', ~revived' => RowOK' /\ LoginOK(c)'
    PROVE  PassInv'
  <1>1. \A x \in Call : LateWord(x)'
    <2>1. \A x \in Call \ {c} : LateWord(x)'
      BY DEF PassInv, LateWord, OthersSame
    <2> QED
      BY <2>1
  <1>2. ~revived' => \A x \in Call : LoginOK(x)'
    <2>1. ~revived' => \A x \in Call \ {c} : LoginOK(x)'
      BY DEF PassInv, LoginOK, OthersSame
    <2> QED
      BY <2>1
  <1> QED
    BY <1>1, <1>2 DEF PassInv

LEMMA PassStep == TypeInv /\ WordInv /\ PassInv /\ [AccountsNext]_accountVars => PassInv'
  <1> SUFFICES ASSUME TypeInv, WordInv, PassInv, [AccountsNext]_accountVars PROVE PassInv'
    OBVIOUS
  <1>n. /\ None \notin Token /\ None \notin Word /\ retired \subseteq Word /\ spent \subseteq Token
        /\ user \subseteq User
    BY AccountsConstantsOK DEF TypeInv, TablesOK
  <1>l. \A c \in Call : LateWord(c) /\ (~revived => RowOK /\ LoginOK(c))
    BY DEF PassInv
  <1>1. ASSUME NEW c \in Call, Beginning(c) PROVE PassInv'
    <2>1. OthersSame(c) /\ UNCHANGED <<user, retired, revived, old>>
      BY <1>1, BeginningIs
    <2>2. LateWord(c)' /\ LoginOK(c)'
      BY <1>1, <1>n, <2>1, BeginningIs DEF LateWord, LoginOK
    <2>3. ~revived' => RowOK'
      BY <1>l, <2>1, RowFrame
    <2> QED
      BY <2>1, <2>2, <2>3, PassFrame
  <1>2. ASSUME NEW c \in Call, Reading(c) PROVE PassInv'
    <2>1. OthersSame(c) /\ UNCHANGED <<user, retired, revived>>
      BY <1>2, ReadingIs DEF Reads, tableVars
    <2>2. LateWord(c)'
      BY <1>2, <1>l, <2>1, ReadingIs DEF LateWord, Ended, Moved
    <2>3. ~revived' => LoginOK(c)'
      <3>1. CASE Ended(c)
        BY <3>1 DEF LoginOK, Ended
      <3>2. CASE Moved(c, "session") /\ pc[c] = "compare" /\ seen[c].hash.word = word[c]
        BY <1>l, <2>1, <3>2 DEF LoginOK, Moved
      <3>3. CASE Moved(c, "save") /\ op[c] = "service" /\ pc[c] = "session"
        BY <1>l, <2>1, <3>3 DEF LoginOK, Moved
      <3>4. CASE pc'[c] \notin {"compare", "session", "save"}
        BY <3>4 DEF LoginOK
      <3>5. CASE Moved(c, "session") /\ op[c] = "oauth"
        BY <3>5 DEF LoginOK, Moved
      <3> QED
        BY <1>2, <3>1, <3>2, <3>3, <3>4, <3>5, ReadingIs DEF Moved
    <2>4. \A d \in Call : old'[d] \in {None, old[d]}
      BY <1>2, <2>1, ReadingIs DEF OthersSame, Ended, Moved
    <2>5. ~revived' => RowOK'
      BY <1>l, <2>1, <2>4, RowFrame
    <2> QED
      BY <2>1, <2>2, <2>3, <2>5, PassFrame
  <1>3. ASSUME NEW c \in Call, IssueToken(c) \/ SendMail(c) \/ WriteVerified(c) \/ CreateLink(c)
        PROVE  PassInv'
    <2>1. OthersSame(c) /\ UNCHANGED <<retired, revived>>
      BY <1>3, IssueTokenIs, SendMailIs, WriteVerifiedIs, CreateLinkIs DEF NothingElse
    <2>2. \A u \in user' : \E v \in user : u.hash.word = v.hash.word
      <3>1. CASE WriteVerified(c)
        BY <1>n, <3>1, WriteVerifiedIs DEF User
      <3>2. CASE user' = user
        BY <3>2
      <3> QED
        BY <1>3, <3>1, <3>2, IssueTokenIs, SendMailIs, CreateLinkIs
    <2>3. LateWord(c)' /\ LoginOK(c)' /\ old'[c] \in {None, old[c]}
      <3>1. CASE IssueToken(c)
        BY <1>l, <2>1, <3>1, IssueTokenIs DEF LateWord, LoginOK
      <3>2. CASE SendMail(c)
        BY <3>2, SendMailIs DEF LateWord, LoginOK, Ended
      <3>3. CASE WriteVerified(c)
        BY <3>3, WriteVerifiedIs DEF LateWord, LoginOK, Moved
      <3>4. CASE CreateLink(c)
        <4>1. op[c] = "oauth"
          BY <3>4, CreateLinkIs DEF TypeInv, Placed
        <4> QED
          BY <3>4, <4>1, CreateLinkIs DEF LateWord, LoginOK, Ended, Moved
      <3> QED
        BY <1>3, <3>1, <3>2, <3>3, <3>4
    <2>4. \A d \in Call : old'[d] \in {None, old[d]}
      BY <2>1, <2>3 DEF OthersSame
    <2>5. ~revived' => RowOK'
      BY <1>l, <2>1, <2>2, <2>4, RowFrame
    <2> QED
      BY <2>1, <2>3, <2>5, PassFrame
  <1>4. ASSUME NEW c \in Call, EraseToken(c) PROVE PassInv'
    <2>1. /\ user' = user /\ revived' = revived /\ retired' = retired \cup ({old[c]} \ {None})
          /\ OthersSame(c) /\ Ended(c)
      BY <1>4, EraseTokenIs DEF EraseToken
    <2>2. \A d \in Call : old'[d] \in {None, old[d]}
      BY <2>1 DEF OthersSame, Ended
    <2>3. LateWord(c)' /\ LoginOK(c)'
      BY <2>1 DEF LateWord, LoginOK, Ended
    <2>4. ~revived' => RowOK'
      BY <1>l, <2>1, <2>2, RowFrame
    <2> QED
      BY <2>1, <2>3, <2>4, PassFrame
  <1>5. ASSUME NEW c \in Call, ReadUser(c) PROVE PassInv'
    <2>1. OthersSame(c) /\ UNCHANGED <<user, retired, revived>>
      BY <1>5, ReadUserIs DEF Reads, tableVars
    <2>2. LateWord(c)'
      BY <1>5, <1>l, <2>1, ReadUserIs DEF LateWord, Ended
    <2>3. ~revived' => LoginOK(c)'
      <3>1. CASE Ended(c)
        BY <3>1 DEF LoginOK, Ended
      <3>2. CASE /\ pc'[c] = "compare" /\ op' = op /\ word' = word /\ late' = late
                 /\ \E u \in user : seen'[c] = u
        BY <1>5, <1>l, <2>1, <3>2, ReadUserIs DEF LoginOK, LateWord, RowOK
      <3> QED
        BY <1>5, <3>1, <3>2, ReadUserIs
    <2>4. \A d \in Call : old'[d] \in {None, old[d]}
      BY <1>5, <2>1, ReadUserIs DEF OthersSame, Ended
    <2>5. ~revived' => RowOK'
      BY <1>l, <2>1, <2>4, RowFrame
    <2> QED
      BY <2>1, <2>2, <2>3, <2>5, PassFrame
  <1>6. ASSUME NEW c \in Call, SaveRehash(c) PROVE PassInv'
    <2>1. /\ OthersSame(c) /\ Ended(c) /\ retired' = retired
          /\ user' = {[u EXCEPT !.hash = New(word[c])] : u \in user}
          /\ (revived' <=> (revived \/ \E u \in user : u.hash.word # word[c]))
      BY <1>6, SaveRehashIs
    <2>2. LateWord(c)' /\ LoginOK(c)'
      BY <2>1 DEF LateWord, LoginOK, Ended
    <2>3. ~revived' => \A u \in user' : \E v \in user : u.hash.word = v.hash.word
      BY <1>n, <2>1 DEF User, New
    <2>4. \A d \in Call : old'[d] \in {None, old[d]}
      BY <2>1 DEF OthersSame, Ended
    <2>5. ~revived' => RowOK'
      BY <1>l, <2>1, <2>3, <2>4, RowFrame
    <2> QED
      BY <2>1, <2>2, <2>5, PassFrame
  <1>7. ASSUME NEW c \in Call, InsertUser(c) \/ WritePassword(c) PROVE PassInv'
    <2>1. OthersSame(c) /\ UNCHANGED <<retired, revived>> /\ Waiting(c)
      BY <1>7, InsertUserIs, WritePasswordIs DEF NothingElse, Waiting
    <2>2. /\ word[c] \notin retired
          /\ \A u \in user : u.hash.word # word[c]
          /\ \A d \in Call : old[d] # word[c]
      BY <2>1 DEF WordInv, WordsUnused, UsedWord
    <2>3. LateWord(c)' /\ LoginOK(c)'
      <3>1. CASE InsertUser(c)
        BY <3>1, InsertUserIs DEF LateWord, LoginOK, Ended, Moved
      <3>2. CASE WritePassword(c)
        BY <3>2, WritePasswordIs DEF LateWord, LoginOK
      <3> QED
        BY <1>7, <3>1, <3>2
    <2>4. ~revived' => RowOK'
      <3>1. CASE InsertUser(c) /\ user' = user
        <4>1. \A d \in Call : old'[d] \in {None, old[d]}
          BY <2>1, <3>1, InsertUserIs DEF OthersSame, Ended, Moved
        <4> QED
          BY <1>l, <2>1, <3>1, <4>1, RowFrame
      <3>2. CASE InsertUser(c) /\ user' # user
        <4>1. \A u \in user' : u.hash.word = word[c]
          BY <3>2, InsertUserIs DEF NewUser, New
        <4>2. \A d \in Call : old'[d] \in {None, old[d]}
          BY <2>1, <3>2, InsertUserIs DEF OthersSame, Ended, Moved
        <4> QED
          BY <2>1, <2>2, <4>1, <4>2 DEF RowOK
      <3>3. CASE WritePassword(c)
        <4> PICK u \in user : /\ user' = {NewUser(New(word[c]), "reset", u.verified)}
                              /\ old'[c] = u.hash.word
          BY <3>3, WritePasswordIs
        <4>1. \A v \in user' : v.hash.word = word[c]
          BY DEF NewUser, New
        <4>2. \A d \in Call : old'[d] # word[c]
          BY <2>1, <2>2 DEF OthersSame
        <4> QED
          BY <2>1, <2>2, <4>1, <4>2 DEF RowOK
      <3> QED
        BY <1>7, <3>1, <3>2, <3>3
    <2> QED
      BY <2>1, <2>3, <2>4, PassFrame
  <1>8. ASSUME NEW c \in Call, CreateUser(c) PROVE PassInv'
    <2>1. OthersSame(c) /\ UNCHANGED <<retired, revived>>
      BY <1>8, CreateUserIs DEF NothingElse
    <2>2. LateWord(c)' /\ LoginOK(c)'
      BY <1>8, CreateUserIs DEF CreateUser, LateWord, LoginOK, Ended, Moved
    <2>3. \A u \in user' : u \in user \/ u.hash.word = None
      BY <1>8, CreateUserIs DEF NewUser, New
    <2>4. \A d \in Call : old'[d] \in {None, old[d]}
      BY <1>8, <2>1, CreateUserIs DEF OthersSame, Ended, Moved
    <2>5. ~revived' => RowOK'
      BY <1>l, <1>n, <1>8, <2>1, <2>3, <2>4 DEF RowOK
    <2> QED
      BY <2>1, <2>2, <2>5, PassFrame
  <1>9. CASE Tick \/ DeleteExpired \/ UNCHANGED accountVars
    BY <1>9, EnvironmentIs DEF PassInv, LateWord, LoginOK, RowOK
  <1> QED
    BY <1>1, <1>2, <1>3, <1>4, <1>5, <1>6, <1>7, <1>8, <1>9, NextIs DEF Writing

\* A login that begins after a reset has answered success is not accepted with
\* a replaced password, as long as no consumer of LoginService has written the
\* rehash of an older login over a newer password.
THEOREM OldPasswordDeadTheorem == AccountsSpec => []OldPasswordDead
  <1>1. TypeInv /\ PassInv => OldPasswordDead
    BY DEF TypeInv, Placed, PassInv, LoginOK, OldPasswordDead
  <1> QED
    BY TypeInit, TypeStep, WordInit, WordStep, PassInit, PassStep, <1>1, PTL DEF AccountsSpec

------------------------------------------------------------------------------
(* Linked accounts.                                                        *)

LinkInv ==
    linked \/ (\E c \in Call : pc[c] = "link")
        => user # {} /\ \A u \in user : u.by = "register" => u.verified

LEMMA LinkInit == AccountsInit => LinkInv
  BY DEF AccountsInit, LinkInv

LEMMA LinkStep == TypeInv /\ LinkInv /\ [AccountsNext]_accountVars => LinkInv'
  <1> DEFINE Proven == user # {} /\ \A u \in user : u.by = "register" => u.verified
  <1> SUFFICES ASSUME TypeInv, LinkInv, [AccountsNext]_accountVars,
                      linked' \/ \E c \in Call : pc'[c] = "link"
               PROVE  Proven'
    BY DEF LinkInv
  <1>u. user \subseteq User
    BY DEF TypeInv, TablesOK
  <1>l. linked \/ (\E c \in Call : pc[c] = "link") => Proven
    BY DEF LinkInv
  <1>1. ASSUME NEW c \in Call, Beginning(c) PROVE Proven'
    BY <1>1, <1>l, BeginningIs DEF OthersSame
  <1>2. ASSUME NEW c \in Call, Reading(c) PROVE Proven'
    <2>1. UNCHANGED <<user, linked>> /\ OthersSame(c)
      BY <1>2, ReadingIs DEF Reads, tableVars
    <2>2. CASE pc'[c] = "link"
      BY <1>2, <2>1, <2>2, ReadingIs DEF Ended, Moved
    <2>3. CASE pc'[c] # "link"
      BY <1>l, <2>1, <2>3 DEF OthersSame
    <2> QED
      BY <2>2, <2>3
  <1>3. ASSUME NEW c \in Call, IssueToken(c) \/ SendMail(c) \/ EraseToken(c) \/ ReadUser(c)
        PROVE  Proven'
    <2>1. UNCHANGED <<user, linked>> /\ OthersSame(c) /\ pc'[c] # "link"
      <3>1. CASE IssueToken(c)
        BY <3>1, IssueTokenIs
      <3>2. CASE SendMail(c)
        BY <3>2, SendMailIs DEF Ended
      <3>3. CASE EraseToken(c)
        BY <3>3, EraseTokenIs DEF EraseToken, Ended
      <3>4. CASE ReadUser(c)
        BY <3>4, ReadUserIs DEF Reads, tableVars, Ended
      <3> QED
        BY <1>3, <3>1, <3>2, <3>3, <3>4
    <2> QED
      BY <1>l, <2>1 DEF OthersSame
  <1>4. ASSUME NEW c \in Call, CreateLink(c) PROVE Proven'
    BY <1>4, <1>l, CreateLinkIs
  <1>5. ASSUME NEW c \in Call, InsertUser(c) PROVE Proven'
    <2>1. linked' = linked /\ OthersSame(c) /\ pc'[c] # "link"
      BY <1>5, InsertUserIs DEF Ended, Moved
    <2>2. Proven
      BY <1>l, <2>1 DEF OthersSame
    <2> QED
      BY <1>5, <2>2, InsertUserIs
  <1>6. ASSUME NEW c \in Call, CreateUser(c) PROVE Proven'
    <2>1. CASE user = {}
      <3>1. user' = {NewUser(New(None), "oauth", proven[c])}
        BY <1>6, <2>1, CreateUserIs
      <3> QED
        BY <3>1 DEF NewUser
    <2>2. CASE user # {}
      <3>1. linked' = linked /\ OthersSame(c) /\ user' = user /\ pc'[c] # "link"
        BY <1>6, <2>2, CreateUserIs DEF Ended
      <3> QED
        BY <1>l, <3>1 DEF OthersSame
    <2> QED
      BY <2>1, <2>2
  <1>7. ASSUME NEW c \in Call, WritePassword(c) PROVE Proven'
    <2>1. PICK u \in user : user' = {NewUser(New(word[c]), "reset", u.verified)}
      BY <1>7, WritePasswordIs
    <2>2. \A v \in user' : v.by = "reset"
      BY <2>1 DEF NewUser
    <2>3. user' # {}
      BY <2>1
    <2> QED
      BY <2>2, <2>3
  <1>8. ASSUME NEW c \in Call, WriteVerified(c) PROVE Proven'
    <2>1. linked' = linked /\ OthersSame(c) /\ pc'[c] # "link"
          /\ user' = {[u EXCEPT !.verified = TRUE] : u \in user}
      BY <1>8, WriteVerifiedIs DEF Moved
    <2>2. Proven
      BY <1>l, <2>1 DEF OthersSame
    <2>3. \A u \in user' : u.verified
      BY <1>u, <2>1 DEF User
    <2>4. user' # {}
      BY <2>1, <2>2
    <2> QED
      BY <2>3, <2>4
  <1>9. ASSUME NEW c \in Call, SaveRehash(c) PROVE Proven'
    <2>1. linked' = linked /\ OthersSame(c) /\ Ended(c)
          /\ user' = {[u EXCEPT !.hash = New(word[c])] : u \in user}
      BY <1>9, SaveRehashIs
    <2>2. Proven
      BY <1>l, <2>1 DEF OthersSame, Ended
    <2>3. \A v \in user' : \E u \in user : v.by = u.by /\ (v.verified <=> u.verified)
      BY <1>u, <2>1 DEF User
    <2>4. user' # {}
      BY <2>1, <2>2
    <2> QED
      BY <2>2, <2>3, <2>4
  <1>10. CASE Tick \/ DeleteExpired \/ UNCHANGED accountVars
    BY <1>10, <1>l, EnvironmentIs
  <1> QED
    BY <1>1, <1>2, <1>3, <1>4, <1>5, <1>6, <1>7, <1>8, <1>9, <1>10, NextIs DEF Writing

\* A provider's identity never shares an account with someone who registered
\* without proving to own the address, however sign-ins, registrations and
\* resets of that address overlap.
THEOREM LinksProvenTheorem == AccountsSpec => []LinksProven
  <1>1. LinkInv => LinksProven
    BY DEF LinkInv, LinksProven
  <1> QED
    BY TypeInit, TypeStep, LinkInit, LinkStep, <1>1, PTL DEF AccountsSpec
==============================================================================
