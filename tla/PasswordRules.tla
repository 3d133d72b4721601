---------------------------- MODULE PasswordRules ----------------------------
(***************************************************************************)
(* The rules about passwords, which the code states several times: the     *)
(* service's PasswordValidator (core/auth/password) by validate(), by      *)
(* its zod schema and by its hints, the form's PasswordValidator           *)
(* (core/validators) by the same three with options of its own; and the    *)
(* hashers, which say whose hash is whose and when to hash again.          *)
(*                                                                         *)
(* A password is what the rules see of it: its characters, its UTF-8       *)
(* bytes and the classes it has a character of.  One is typed character by *)
(* character; and one stored hash lives through logins at servers that run *)
(* different hasher settings.                                              *)
(***************************************************************************)
EXTENDS Integers, FiniteSets

CONSTANTS
  Policies,      \* values of PasswordConfig, see PolicySet
  Servers,       \* servers with hasher settings of their own
  HasherOf,      \* [Servers -> Hashers]
  MaxTyped       \* bound: typing stops at so many bytes

Classes == {"digit", "upper", "lower", "special"}
Kinds == Classes \cup {"wide"}          \* wide: any other character, of three bytes
PolicySet == [min : Nat, max : Nat, needs : SUBSET Classes]

\* A bcrypt hash carries its cost; an argon2 one memory, time and parallelism.
\* A hasher hashes with its own parameters and may know legacy schemes besides.
Schemes == {"bcrypt", "argon2", "scrypt"}
Params == [memory : Nat, time : Nat, lanes : Nat]
Hashers == [scheme : {"bcrypt", "argon2"}, params : Params, legacy : SUBSET Schemes]
CostOnly(h) == h.scheme = "bcrypt" => h.params.memory = 0 /\ h.params.lanes = 0

ASSUME PasswordAssumption ==
  /\ Policies \subseteq PolicySet
  /\ HasherOf \in [Servers -> Hashers]
  /\ \A s \in Servers : CostOnly(HasherOf[s])
  /\ MaxTyped \in Nat

VARIABLES
  typed,         \* what is in the field: [len, bytes, has]
  stored         \* the stored hash: its scheme and parameters, or none
passwordVars == << typed, stored >>

Empty == [len |-> 0, bytes |-> 0, has |-> {}]
NoHash == [scheme |-> "none", params |-> [memory |-> 0, time |-> 0, lanes |-> 0]]

PasswordInit == typed = Empty /\ stored = NoHash

-----------------------------------------------------------------------------
(* The service's rules *)

\* bcrypt reads 72 bytes; what is longer would be cut without a word.
BcryptMax == 72
FitsBcrypt(pw) == pw.bytes <= BcryptMax

Missing(needs, pw) == needs \ pw.has

\* PasswordValidator.validate(): the rules a password breaks.
Errors(c, pw) ==
  { r \in {"min", "max", "bytes"} :
      \/ r = "min" /\ pw.len < c.min
      \/ r = "max" /\ pw.len > c.max
      \/ r = "bytes" /\ ~FitsBcrypt(pw) }
  \cup Missing(c.needs, pw)

\* Faulty variant: the schema has no rule for special characters.
SchemaWithoutSpecial(c, pw) ==
  pw.len >= c.min /\ pw.len <= c.max /\ FitsBcrypt(pw) /\ Missing(c.needs \ {"special"}, pw) = {}

\* createZodSchema().parse()
SchemaAccepts(c, pw) ==
  pw.len >= c.min /\ pw.len <= c.max /\ FitsBcrypt(pw) /\ Missing(c.needs, pw) = {}

\* generateHint(): nothing about passwords that are too long.
Hints(c, pw) == { r \in {"min"} : pw.len < c.min } \cup Missing(c.needs, pw)

-----------------------------------------------------------------------------
(* The form's rules *)

\* The options default to a custom pattern that wants a digit, and keep it
\* when only the other options are given.
FormErrors(c, pattern, pw) == Errors(c, pw) \cup (IF pattern THEN Missing({"digit"}, pw) ELSE {})
FormSchemaAccepts(c, pattern, pw) == SchemaAccepts(c, pw) /\ (pattern => "digit" \in pw.has)

\* The form's hints know no options.
FormHints(pw) == { r \in {"min"} : pw.len < 8 } \cup Missing(Classes, pw)

\* defaultPasswordSchema and strongPasswordSchema, in either module.
DefaultPolicy == [min |-> 8, max |-> 128, needs |-> {"digit"}]
StrongPolicy == [min |-> 12, max |-> 128, needs |-> Classes]

-----------------------------------------------------------------------------
(* Strength *)

Points(condition, n) == IF condition THEN n ELSE 0

\* calculateScore(), which both modules share up to the weight of variety;
\* unique is the number of different characters.
ScoreOf(pw, unique, varied, long) ==
  Points(pw.len >= 8, 10) + Points(pw.len >= 12, 10) + Points(pw.len >= 16, 5)
  + 10 * Cardinality(pw.has \cap Classes)
  + Points(10 * unique >= 7 * pw.len, varied) + Points(pw.len >= 12 /\ unique >= 8, long)
Score(pw, unique) == ScoreOf(pw, unique, 20, 15)
FormScore(pw, unique) == ScoreOf(pw, unique, 15, 10)

\* calculateStrength(): VERY_WEAK to VERY_STRONG.
Level(score) == IF score >= 80 THEN 4 ELSE score \div 20

-----------------------------------------------------------------------------
(* Hashers *)

Hash(h) == [scheme |-> h.scheme, params |-> h.params]

\* A hash is verified by the first hasher that knows its scheme, if any does.
Verifies(h, hash) == hash.scheme \in {h.scheme} \cup h.legacy

Weaker(p, q) == p.memory < q.memory \/ p.time < q.time \/ p.lanes < q.lanes

\* Faulty variant: hash again whatever differs from the settings.
NeedsRehashIfOther(h, hash) == hash.scheme # h.scheme \/ hash.params # h.params

\* needsRehash(): another scheme, or some parameter below the settings.
NeedsRehash(h, hash) == hash.scheme # h.scheme \/ Weaker(hash.params, h.params)

-----------------------------------------------------------------------------
(* Steps *)

Type(k) ==
  /\ typed.bytes < MaxTyped
  /\ typed' = [len |-> typed.len + 1, bytes |-> typed.bytes + (IF k = "wide" THEN 3 ELSE 1),
               has |-> typed.has \cup {k}]
  /\ UNCHANGED stored

\* The field is emptied.
Clear == typed' = Empty /\ UNCHANGED stored

\* A password the service accepts is stored, hashed by the server's hasher.
Submit(c, s) ==
  /\ Errors(c, typed) = {}
  /\ stored' = Hash(HasherOf[s]) /\ typed' = Empty

\* A login with the right password, at any server: verify, then rehash on login.
Login(s) ==
  /\ stored # NoHash /\ Verifies(HasherOf[s], stored)
  /\ stored' = IF NeedsRehash(HasherOf[s], stored) THEN Hash(HasherOf[s]) ELSE stored
  /\ UNCHANGED typed

PasswordNext ==
  \/ \E k \in Kinds : Type(k)
  \/ Clear
  \/ \E s \in Servers : Login(s) \/ (\E c \in Policies : Submit(c, s))

PasswordSpec == PasswordInit /\ [][PasswordNext]_passwordVars

-----------------------------------------------------------------------------
(* Properties *)

\* How many different characters the password may have: the extremes and both
\* sides of the two marks the score knows.
Uniques(pw) ==
  { u \in {Cardinality(pw.has), 7, 8, (7 * pw.len) \div 10, (7 * pw.len) \div 10 + 1, pw.len} :
      Cardinality(pw.has) <= u /\ u <= pw.len }

\* One rule, however it is asked: the validator, its schema and its hints accept
\* the same passwords (hints say nothing of length), what the form accepts
\* the service accepts, what satisfies the form's hints satisfies any policy of at
\* most eight characters, and the two meters never differ by more than one level,
\* the form's being the lower.
PoliciesAgree ==
  /\ \A c \in Policies :
       /\ (Errors(c, typed) = {}) = SchemaAccepts(c, typed)
       /\ SchemaAccepts(c, typed) = (Hints(c, typed) = {} /\ typed.len <= c.max /\ FitsBcrypt(typed))
       /\ \A pattern \in BOOLEAN :
            /\ (FormErrors(c, pattern, typed) = {}) = FormSchemaAccepts(c, pattern, typed)
            /\ FormErrors(c, pattern, typed) = {} => Errors(c, typed) = {}
       /\ FormHints(typed) = {} /\ c.min <= 8 /\ typed.len <= c.max /\ FitsBcrypt(typed) => Errors(c, typed) = {}
  /\ FormErrors(StrongPolicy, TRUE, typed) = {} => FormErrors(DefaultPolicy, TRUE, typed) = {}
  /\ \A unique \in Uniques(typed) :
       Level(FormScore(typed, unique)) \in {Level(Score(typed, unique)), Level(Score(typed, unique)) - 1}

\* Rehashing settles: after a login the server is content with the hash, a hash is
\* replaced only by one of another scheme or with a higher parameter, and between
\* bcrypt hashes the cost never falls, at whatever servers and in whatever order
\* the user logs in.  (Of argon2 parameters one may fall as another rises, so two
\* servers of different settings may replace each other's hashes for ever.)
LoginsSettle ==
  [][\A s \in Servers : Login(s) =>
       /\ ~NeedsRehash(HasherOf[s], stored')
       /\ stored' # stored => stored'.scheme # stored.scheme \/ Weaker(stored.params, stored'.params)
       /\ {stored.scheme, stored'.scheme} = {"bcrypt"} => stored'.params.time >= stored.params.time
    ]_passwordVars
=============================================================================
