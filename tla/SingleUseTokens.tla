--------------------------- MODULE SingleUseTokens ---------------------------
(***************************************************************************)
(* What refresh-token rotation promises a consumer, without saying how:    *)
(* every identified token can be exchanged at most once, so the tokens of  *)
(* one login form a line and only its end can still be exchanged.  Tokens  *)
(* issued before identifiers existed (Anonymous) carry no such promise.    *)
(***************************************************************************)
CONSTANTS Token,      \* every refresh token that can ever exist
          Anonymous,  \* the ones without jti and familyId
          None        \* "no token"

VARIABLES issued,     \* the tokens created so far
          parent,     \* parent[t]: the token that was exchanged for t, or None
          spent       \* the identified tokens an exchange has consumed

abstractVars == <<issued, parent, spent>>

AbstractInit ==
    /\ issued = Anonymous
    /\ parent = [t \in Token |-> None]
    /\ spent = {}

\* A login starts a new line with a token of its own.
Issue ==
    \E t \in Token \ issued :
        /\ issued' = issued \cup {t}
        /\ UNCHANGED <<parent, spent>>

\* An exchange consumes its token first, and only a token nobody consumed.
Consume ==
    \E t \in issued \ (Anonymous \cup spent) :
        /\ spent' = spent \cup {t}
        /\ UNCHANGED <<issued, parent>>

\* A consumed token is replaced by at most one successor; it may get none.
Replace ==
    \E old \in issued, new \in Token \ issued :
        /\ old \in Anonymous \/ (old \in spent /\ \A t \in issued : parent[t] # old)
        /\ issued' = issued \cup {new}
        /\ parent' = [parent EXCEPT ![new] = old]
        /\ UNCHANGED spent

AbstractNext == Issue \/ Consume \/ Replace

AbstractSpec == AbstractInit /\ [][AbstractNext]_abstractVars
==============================================================================
