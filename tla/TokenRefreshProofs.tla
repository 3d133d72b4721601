-------------------------- MODULE TokenRefreshProofs --------------------------
(***************************************************************************)
(* Proofs about TokenRefresh, for every number of requests and tokens,     *)
(* every lifetime and every clock bound.                                   *)
(***************************************************************************)
EXTENDS TokenRefresh, TLAPS, SequenceTheorems

------------------------------------------------------------------------------
(* Type correctness.                                                       *)

LEMMA FreshToken ==
    ASSUME TypeOK, issued # Token
    PROVE  Fresh \in Token /\ Fresh \notin issued
  BY DEF TypeOK, Fresh

LEMMA LeaveChainType ==
    ASSUME TypeOK, NEW r \in Requests, LeaveChain(r)
    PROVE  chain' \in [Token -> Seq(Requests)]
  <1>1. \A t \in Token : chain[t] \in Seq(Requests)
    BY DEF TypeOK
  <1>2. \A t \in Token : chain[t] # <<>> => Tail(chain[t]) \in Seq(Requests)
    BY <1>1, HeadTailProperties
  <1> QED
    BY <1>1, <1>2 DEF LeaveChain

LEMMA FinishType ==
    ASSUME TypeOK, NEW r \in Requests, Finish(r)
    PROVE  /\ pc' \in [Requests -> Steps]
           /\ cur' \in [Requests -> Token \cup {None}]
           /\ \A q \in Requests : pc'[q] # "idle" => cur'[q] \in held
           /\ since' \in [Requests -> Nat]
  BY DEF TypeOK, Finish, Steps

LEMMA GotoType ==
    ASSUME TypeOK, NEW r \in Requests, NEW step \in Steps, Goto(r, step), pc[r] # "idle"
    PROVE  /\ pc' \in [Requests -> Steps]
           /\ \A q \in Requests : pc'[q] # "idle" => cur[q] \in held
  BY DEF TypeOK, Goto

LEMMA MarkType ==
    ASSUME TypeOK, NEW r \in Requests,
           \/ usedUntil' = [usedUntil EXCEPT ![cur[r]] = now + MarkTtl]
           \/ UNCHANGED usedUntil
    PROVE  usedUntil' \in [Token -> Nat]
  <1>1. now + MarkTtl \in Nat /\ usedUntil \in [Token -> Nat]
    BY ConstantsOK DEF TypeOK
  <1> QED
    BY <1>1

LEMMA SignType ==
    ASSUME TypeOK, NEW n \in Token, NEW f, NEW from,
           Sign(n, f, from), f \in Token \cup {None}, from \in Token \cup {None}
    PROVE  /\ issued' \subseteq Token /\ issued \subseteq issued'
           /\ n \in issued'
           /\ family' \in [Token -> Token \cup {None}]
           /\ expiry' \in [Token -> Nat]
           /\ parent' \in [Token -> Token \cup {None}]
  <1>1. now + TokenLife \in Nat
    BY ConstantsOK DEF TypeOK
  <1>2. (IF f = None THEN n ELSE f) \in Token \cup {None}
    OBVIOUS
  <1>3. expiry' \in [Token -> Nat]
    BY <1>1 DEF TypeOK, Sign
  <1>4. family' \in [Token -> Token \cup {None}]
    BY <1>2 DEF TypeOK, Sign
  <1>5. parent' \in [Token -> Token \cup {None}]
    BY DEF TypeOK, Sign
  <1> QED
    BY <1>3, <1>4, <1>5 DEF TypeOK, Sign

LEMMA RevokedType ==
    ASSUME TypeOK, NEW f, WriteRevoked(f)
    PROVE  revokedUntil' \in [Token -> Nat] /\ dead' \subseteq Token
  <1>1. /\ now + MarkTtl \in Nat /\ revokedUntil \in [Token -> Nat]
        /\ issued \subseteq Token /\ dead \subseteq Token
    BY ConstantsOK DEF TypeOK
  <1> QED
    BY <1>1 DEF WriteRevoked

LEMMA TypeStep == TypeOK /\ [Next]_vars => TypeOK'
  <1> SUFFICES ASSUME TypeOK, [Next]_vars PROVE TypeOK'
    OBVIOUS
  <1> USE DEF tokenVars, storeVars, requestVars, historyVars
  <1>1. ASSUME NEW r \in Requests, NEW t \in Token, Start(r, t) PROVE TypeOK'
    BY <1>1 DEF Start, TypeOK, Steps
  <1>2. ASSUME NEW r \in Requests, CheckFamily(r) PROVE TypeOK'
    <2>1. CASE Finish(r)
      BY <1>2, <2>1, FinishType DEF CheckFamily, TypeOK
    <2>2. CASE Goto(r, "used") /\ UNCHANGED <<cur, since>>
      BY <1>2, <2>2, GotoType DEF CheckFamily, TypeOK, Steps
    <2> QED
      BY <1>2, <2>1, <2>2 DEF CheckFamily
  <1>3. ASSUME NEW r \in Requests, CheckUsed(r) PROVE TypeOK'
    BY <1>3, GotoType DEF CheckUsed, TypeOK, Steps
  <1>4. ASSUME NEW r \in Requests, ClaimAtomically(r) PROVE TypeOK'
    BY <1>4, MarkType, GotoType DEF ClaimAtomically, TypeOK, Steps
  <1>16. ASSUME NEW r \in Requests, ClaimLost(r) PROVE TypeOK'
    <2>1. cur[r] \in Token
      BY <1>16 DEF ClaimLost, TypeOK
    <2>2. usedUntil' \in [Token -> Nat] /\ lost' \subseteq Token
      BY <1>16, <2>1, MarkType DEF ClaimLost, TypeOK
    <2>3. CASE Finish(r)
      BY <1>16, <2>2, <2>3, FinishType DEF ClaimLost, TypeOK
    <2>4. CASE Goto(r, "revoke") /\ UNCHANGED <<cur, since>>
      BY <1>16, <2>2, <2>4, GotoType DEF ClaimLost, TypeOK, Steps
    <2> QED
      BY <1>16, <2>3, <2>4 DEF ClaimLost
  <1>5. ASSUME NEW r \in Requests, EnterChain(r) PROVE TypeOK'
    <2>1. \A t \in Token : Append(chain[t], r) \in Seq(Requests)
      BY AppendProperties DEF TypeOK
    <2>2. chain' \in [Token -> Seq(Requests)]
      BY <1>5, <2>1 DEF EnterChain, TypeOK
    <2> QED
      BY <1>5, <2>2, GotoType DEF EnterChain, TypeOK, Steps
  <1>6. ASSUME NEW r \in Requests, ClaimLook(r) PROVE TypeOK'
    <2>1. chain' \in [Token -> Seq(Requests)]
      BY <1>6, LeaveChainType DEF ClaimLook, TypeOK
    <2>2. /\ pc' \in [Requests -> Steps]
          /\ \A q \in Requests : pc'[q] # "idle" => cur[q] \in held
      BY <1>6, GotoType DEF ClaimLook, Steps
    <2> QED
      BY <1>6, <2>1, <2>2 DEF ClaimLook, TypeOK
  <1>7. ASSUME NEW r \in Requests, ClaimWrite(r) PROVE TypeOK'
    <2>1. chain' \in [Token -> Seq(Requests)]
      BY <1>7, LeaveChainType DEF ClaimWrite
    <2> QED
      BY <1>7, <2>1, MarkType, GotoType DEF ClaimWrite, TypeOK, Steps
  <1>8. ASSUME NEW r \in Requests, MarkUsed(r) PROVE TypeOK'
    BY <1>8, MarkType, GotoType DEF MarkUsed, TypeOK, Steps
  <1>9. ASSUME NEW r \in Requests, Mint(r) PROVE TypeOK'
    <2>1. Fresh \in Token
      BY <1>9, FreshToken DEF Mint
    <2>2. cur[r] \in Token
      BY <1>9 DEF Mint, TypeOK
    <2>4. family[cur[r]] \in Token \cup {None}
      BY <2>2 DEF TypeOK
    <2> QED
      BY <1>9, <2>1, <2>2, <2>4, SignType, FinishType DEF Mint, TypeOK
  <1>10. ASSUME NEW r \in Requests, RejectReuse(r) PROVE TypeOK'
    <2>1. revokedUntil' \in [Token -> Nat] /\ dead' \subseteq Token
      BY <1>10, RevokedType DEF RejectReuse
    <2> QED
      BY <1>10, <2>1, FinishType DEF RejectReuse, TypeOK
  <1>11. ASSUME NEW r \in Requests, Fail(r) PROVE TypeOK'
    <2>1. chain' \in [Token -> Seq(Requests)]
      BY <1>11, LeaveChainType DEF Fail
    <2> QED
      BY <1>11, <2>1, FinishType DEF Fail, TypeOK
  <1>12. CASE Login
    <2>1. Fresh \in Token
      BY <1>12, FreshToken DEF Login
    <2> QED
      BY <1>12, <2>1, SignType DEF Login, TypeOK
  <1>13. ASSUME NEW t \in Token, Logout(t) PROVE TypeOK'
    <2>1. revokedUntil' \in [Token -> Nat] /\ dead' \subseteq Token
      BY <1>13, RevokedType DEF Logout
    <2> QED
      BY <1>13, <2>1 DEF Logout, TypeOK
  <1>14. CASE Tick
    BY <1>14 DEF Tick, TypeOK
  <1>15. CASE UNCHANGED vars
    BY <1>15 DEF vars, TypeOK
  <1> QED
    BY <1>1, <1>2, <1>3, <1>4, <1>5, <1>6, <1>7, <1>8, <1>9, <1>10, <1>11, <1>12, <1>13,
       <1>14, <1>15, <1>16 DEF Next, Step

\* Every variable keeps its type, and a client only ever holds signed tokens.
THEOREM TypeCorrect == Spec => []TypeOK
  <1>1. Init => TypeOK
    BY ConstantsOK, EmptySeq DEF Init, TypeOK, Steps
  <1> QED
    BY <1>1, TypeStep, PTL DEF Spec
------------------------------------------------------------------------------
(* Time: a mark, once written, is there for every request that can still   *)
(* look at it.                                                             *)

\* A request in flight is not older than RequestSpan, and its token was valid.
InTime ==
    \A r \in Requests :
        pc[r] # "idle" =>
            /\ since[r] < expiry[cur[r]] /\ now <= since[r] + RequestSpan
            /\ pc[r] # "mint" => cur[r] \notin Legacy

Claims ==
    /\ \A t \in issued : expiry[t] <= now + TokenLife
    /\ \A t \in issued \ Legacy : family[t] \in issued \ Legacy
    /\ \A t \in Legacy : t \in issued /\ family[t] = None

Marks ==
    \A t \in Token : usedUntil[t] # 0 =>
        t \in issued /\ usedUntil[t] >= expiry[t] + RequestSpan

Deaths ==
    \A t \in dead : t \in issued /\ revokedUntil[family[t]] >= expiry[t] + RequestSpan

Clock == InTime /\ Claims /\ Marks /\ Deaths

\* What the steps of a request do to the requests: some may end, and the
\* others keep their token.
Onward ==
    \A q \in Requests :
        pc'[q] # "idle" =>
            /\ pc[q] # "idle" /\ cur'[q] = cur[q] /\ since'[q] = since[q]
            /\ pc[q] = "mint" => pc'[q] = "mint"

\* What every step does to the tokens: there may be more of them.
Grows ==
    /\ issued \subseteq issued'
    /\ \A t \in issued : family'[t] = family[t] /\ expiry'[t] = expiry[t] /\ parent'[t] = parent[t]

LEMMA GotoOnward ==
    ASSUME TypeOK, NEW r \in Requests, NEW step, Goto(r, step), UNCHANGED <<cur, since>>,
           pc[r] \notin {"idle", "mint"}
    PROVE  Onward
  BY DEF TypeOK, Goto, Onward

LEMMA FinishOnward ==
    ASSUME TypeOK, NEW r \in Requests, Finish(r)
    PROVE  Onward
  BY DEF TypeOK, Finish, Onward

LEMMA SignGrows ==
    ASSUME TypeOK, issued # Token, NEW f, NEW from, Sign(Fresh, f, from)
    PROVE  Grows
  BY FreshToken DEF TypeOK, Sign, Grows

LEMMA SameGrows ==
    ASSUME UNCHANGED tokenVars
    PROVE  Grows
  BY DEF Grows, tokenVars

LEMMA UsedForGood ==
    ASSUME TypeOK, Clock, NEW r \in Requests, pc[r] # "idle"
    PROVE  Used(cur[r]) <=> usedUntil[cur[r]] # 0
  <1>1. cur[r] \in Token
    BY DEF TypeOK
  <1>2. /\ since[r] \in Nat /\ expiry[cur[r]] \in Nat /\ usedUntil[cur[r]] \in Nat /\ now \in Nat
        /\ RequestSpan \in Nat
    BY <1>1, ConstantsOK DEF TypeOK
  <1>3. since[r] < expiry[cur[r]] /\ now <= since[r] + RequestSpan
    BY DEF Clock, InTime
  <1>4. usedUntil[cur[r]] # 0 => usedUntil[cur[r]] >= expiry[cur[r]] + RequestSpan
    BY <1>1 DEF Clock, Marks
  <1> QED
    BY <1>2, <1>3, <1>4 DEF Used

\* A mark written now outlives the token, whoever writes it.
LEMMA MarkOutlives ==
    ASSUME TtlsOK, TypeOK, Clock, NEW t \in issued
    PROVE  now + MarkTtl >= expiry[t] + RequestSpan /\ now + MarkTtl \in Nat /\ now + MarkTtl # 0
  <1>1. /\ expiry[t] \in Nat /\ now \in Nat /\ expiry[t] <= now + TokenLife
        /\ TokenLife \in Nat \ {0} /\ MarkTtl \in Nat /\ RequestSpan \in Nat
    BY ConstantsOK DEF TypeOK, Clock, Claims
  <1> QED
    BY <1>1 DEF TtlsOK

LEMMA OnwardInTime ==
    ASSUME TypeOK, Clock, Onward, Grows, UNCHANGED now
    PROVE  InTime'
  <1> SUFFICES ASSUME NEW r \in Requests, pc'[r] # "idle"
               PROVE  /\ since'[r] < expiry'[cur'[r]] /\ now' <= since'[r] + RequestSpan
                      /\ pc'[r] # "mint" => cur'[r] \notin Legacy
    BY DEF InTime
  <1>1. /\ pc[r] # "idle" /\ cur'[r] = cur[r] /\ since'[r] = since[r]
        /\ pc[r] = "mint" => pc'[r] = "mint"
    BY DEF Onward
  <1>2. cur[r] \in issued
    BY <1>1 DEF TypeOK
  <1> QED
    BY <1>1, <1>2 DEF Clock, InTime, Grows

LEMMA SameClaims ==
    ASSUME Clock, UNCHANGED tokenVars, UNCHANGED now
    PROVE  Claims'
  BY DEF Clock, Claims, tokenVars

LEMMA SignClaims ==
    ASSUME TypeOK, Clock, issued # Token, NEW f \in Token \cup {None}, NEW from, UNCHANGED now,
           Sign(Fresh, f, from), f # None => f \in issued \ Legacy
    PROVE  Claims'
  <1>1. Fresh \in Token \ issued /\ Fresh \notin Legacy
    BY FreshToken DEF Clock, Claims
  <1>2. now + TokenLife \in Nat
    BY ConstantsOK DEF TypeOK
  <1>3. \A t \in issued' : expiry'[t] <= now' + TokenLife
    BY <1>1, <1>2 DEF TypeOK, Clock, Claims, Sign
  <1>4. \A t \in issued' \ Legacy : family'[t] \in issued' \ Legacy
    BY <1>1 DEF TypeOK, Clock, Claims, Sign
  <1>5. \A t \in Legacy : t \in issued' /\ family'[t] = None
    BY <1>1, ConstantsOK DEF TypeOK, Clock, Claims, Sign
  <1> QED
    BY <1>3, <1>4, <1>5 DEF Claims

LEMMA SameMarks ==
    ASSUME TypeOK, Clock, Grows, UNCHANGED usedUntil
    PROVE  Marks'
  BY DEF Clock, Marks, Grows

LEMMA NewMark ==
    ASSUME TtlsOK, TypeOK, Clock, UNCHANGED tokenVars, NEW r \in Requests, pc[r] # "idle",
           usedUntil' = [usedUntil EXCEPT ![cur[r]] = now + MarkTtl]
    PROVE  Marks'
  <1>1. cur[r] \in issued
    BY DEF TypeOK
  <1> QED
    BY <1>1, MarkOutlives DEF TypeOK, Clock, Marks, tokenVars

LEMMA SameDeaths ==
    ASSUME Clock, Grows, UNCHANGED <<revokedUntil, dead>>
    PROVE  Deaths'
  BY DEF Clock, Deaths, Grows

LEMMA NewDeaths ==
    ASSUME TtlsOK, TypeOK, Clock, NEW f \in Token, WriteRevoked(f), UNCHANGED tokenVars
    PROVE  Deaths'
  <1> USE DEF tokenVars
  <1>2. CASE UNCHANGED <<revokedUntil, dead>>
    BY <1>2 DEF Clock, Deaths
  <1>3. CASE /\ revokedUntil' = [revokedUntil EXCEPT ![f] = now + MarkTtl]
             /\ dead' = dead \cup {t \in issued : family[t] = f}
    <2> SUFFICES ASSUME NEW t \in dead'
                 PROVE  t \in issued /\ revokedUntil'[family[t]] >= expiry[t] + RequestSpan
      BY DEF Deaths
    <2>1. t \in issued
      BY <1>3 DEF Clock, Deaths
    <2>2. CASE family[t] = f
      BY <1>3, <2>1, <2>2, MarkOutlives DEF TypeOK
    <2>3. CASE family[t] # f
      <3>1. t \in dead
        BY <1>3, <2>3
      <3>2. revokedUntil'[family[t]] = revokedUntil[family[t]]
        BY <1>3, <2>3 DEF TypeOK
      <3> QED
        BY <3>1, <3>2 DEF Clock, Deaths
    <2> QED
      BY <2>1, <2>2, <2>3
  <1> QED
    BY <1>2, <1>3 DEF WriteRevoked

LEMMA ClockStep == TtlsOK /\ TypeOK /\ Clock /\ [Next]_vars => Clock'
  <1> SUFFICES ASSUME TtlsOK, TypeOK, Clock, [Next]_vars PROVE Clock'
    OBVIOUS
  <1> USE DEF storeVars, requestVars, historyVars
  <1>0. ASSUME UNCHANGED <<now, tokenVars>> PROVE Grows /\ Claims'
    BY <1>0, SameGrows, SameClaims
  <1>1. ASSUME NEW r \in Requests, NEW t \in Token, Start(r, t) PROVE Clock'
    <2>1. Grows /\ Claims' /\ Marks' /\ Deaths'
      BY <1>0, <1>1, SameMarks, SameDeaths DEF Start
    <2>2. /\ pc' = [pc EXCEPT ![r] = IF t \notin Legacy THEN "family" ELSE "mint"]
          /\ cur' = [cur EXCEPT ![r] = t] /\ since' = [since EXCEPT ![r] = now]
          /\ now' = now /\ expiry' = expiry /\ now < expiry[t]
      BY <1>1 DEF Start, Identified, tokenVars
    <2>3. InTime'
      BY <2>2, ConstantsOK DEF InTime, Clock, TypeOK
    <2> QED
      BY <2>1, <2>3 DEF Clock
  <1>2. ASSUME NEW r \in Requests, CheckFamily(r) PROVE Clock'
    <2>1. Onward
      BY <1>2, GotoOnward, FinishOnward DEF CheckFamily
    <2> QED
      BY <1>0, <1>2, <2>1, OnwardInTime, SameMarks, SameDeaths DEF CheckFamily, Clock
  <1>3. ASSUME NEW r \in Requests, CheckUsed(r) PROVE Clock'
    <2>1. Onward
      BY <1>3, GotoOnward DEF CheckUsed
    <2> QED
      BY <1>0, <1>3, <2>1, OnwardInTime, SameMarks, SameDeaths DEF CheckUsed, Clock
  <1>4. ASSUME NEW r \in Requests, ClaimAtomically(r) PROVE Clock'
    <2>1. Onward
      BY <1>4, GotoOnward DEF ClaimAtomically
    <2>2. Marks'
      BY <1>0, <1>4, SameMarks, NewMark DEF ClaimAtomically
    <2> QED
      BY <1>0, <1>4, <2>1, <2>2, OnwardInTime, SameDeaths DEF ClaimAtomically, Clock
  <1>10. ASSUME NEW r \in Requests, ClaimLost(r) PROVE Clock'
    <2>1. Onward
      BY <1>10, GotoOnward, FinishOnward DEF ClaimLost
    <2>2. Marks'
      BY <1>0, <1>10, NewMark DEF ClaimLost, tokenVars
    <2> QED
      BY <1>0, <1>10, <2>1, <2>2, OnwardInTime, SameDeaths DEF ClaimLost, Clock
  <1>5. ASSUME NEW r \in Requests, EnterChain(r) PROVE Clock'
    <2>1. Onward
      BY <1>5, GotoOnward DEF EnterChain
    <2> QED
      BY <1>0, <1>5, <2>1, OnwardInTime, SameMarks, SameDeaths DEF EnterChain, Clock
  <1>6. ASSUME NEW r \in Requests, ClaimLook(r) PROVE Clock'
    <2>1. Onward
      BY <1>6, GotoOnward DEF ClaimLook
    <2> QED
      BY <1>0, <1>6, <2>1, OnwardInTime, SameMarks, SameDeaths DEF ClaimLook, Clock
  <1>7. ASSUME NEW r \in Requests, ClaimWrite(r) PROVE Clock'
    <2>1. Onward
      BY <1>7, GotoOnward DEF ClaimWrite
    <2>2. Marks'
      BY <1>0, <1>7, SameMarks, NewMark DEF ClaimWrite
    <2> QED
      BY <1>0, <1>7, <2>1, <2>2, OnwardInTime, SameDeaths DEF ClaimWrite, Clock
  <1>8. ASSUME NEW r \in Requests, MarkUsed(r) PROVE Clock'
    <2>1. Onward
      BY <1>8, GotoOnward DEF MarkUsed
    <2>2. Marks'
      BY <1>0, <1>8, SameMarks, NewMark DEF MarkUsed
    <2> QED
      BY <1>0, <1>8, <2>1, <2>2, OnwardInTime, SameDeaths DEF MarkUsed, Clock
  <1>9. ASSUME NEW r \in Requests, Mint(r) PROVE Clock'
    <2>1. cur[r] \in issued
      BY <1>9 DEF Mint, TypeOK
    <2>2. /\ family[cur[r]] \in Token \cup {None}
          /\ family[cur[r]] # None => family[cur[r]] \in issued \ Legacy
      BY <2>1 DEF TypeOK, Clock, Claims
    <2>3. Grows /\ Claims'
      BY <1>9, <2>2, SignGrows, SignClaims DEF Mint
    <2> QED
      BY <1>9, <2>3, FinishOnward, OnwardInTime, SameMarks, SameDeaths DEF Mint, Clock
  <1>11. ASSUME NEW r \in Requests, RejectReuse(r) PROVE Clock'
    <2>1. cur[r] \in issued \ Legacy
      BY <1>11 DEF RejectReuse, Clock, InTime, TypeOK
    <2>2. family[cur[r]] \in Token
      BY <2>1 DEF Clock, Claims, TypeOK
    <2>3. Deaths'
      BY <1>11, <2>2, NewDeaths DEF RejectReuse
    <2> QED
      BY <1>0, <1>11, <2>3, FinishOnward, OnwardInTime, SameMarks DEF RejectReuse, Clock
  <1>12. ASSUME NEW r \in Requests, Fail(r) PROVE Clock'
    BY <1>0, <1>12, FinishOnward, OnwardInTime, SameMarks, SameDeaths DEF Fail, Clock
  <1>13. CASE Login
    <2>1. Grows /\ Claims'
      BY <1>13, SignGrows, SignClaims DEF Login
    <2>2. Onward
      BY <1>13 DEF Login, Onward
    <2> QED
      BY <1>13, <2>1, <2>2, OnwardInTime, SameMarks, SameDeaths DEF Login, Clock
  <1>14. ASSUME NEW t \in Token, Logout(t) PROVE Clock'
    <2>1. family[t] \in Token
      BY <1>14 DEF Logout, Identified, Clock, Claims, TypeOK
    <2>2. Deaths'
      BY <1>14, <2>1, NewDeaths DEF Logout
    <2>3. Onward
      BY <1>14 DEF Logout, Onward
    <2> QED
      BY <1>0, <1>14, <2>2, <2>3, OnwardInTime, SameMarks DEF Logout, Clock
  <1>15. CASE Tick
    <2>1. Grows /\ Marks' /\ Deaths'
      BY <1>15, SameGrows, SameMarks, SameDeaths DEF Tick
    <2>2. Claims'
      BY <1>15, ConstantsOK DEF Tick, Clock, Claims, tokenVars, TypeOK
    <2>3. InTime'
      BY <1>15, ConstantsOK DEF Tick, Clock, InTime, tokenVars, TypeOK
    <2> QED
      BY <2>1, <2>2, <2>3 DEF Clock
  <1>16. CASE UNCHANGED vars
    BY <1>16 DEF vars, tokenVars, Clock, InTime, Claims, Marks, Deaths
  <1> QED
    BY <1>1, <1>2, <1>3, <1>4, <1>5, <1>6, <1>7, <1>8, <1>9, <1>10, <1>11, <1>12, <1>13,
       <1>14, <1>15, <1>16 DEF Next, Step

LEMMA ClockInvariant ==
    ASSUME TtlsOK
    PROVE  Spec => []Clock
  <1>1. Init => Clock
    BY ConstantsOK DEF Init, Clock, InTime, Claims, Marks, Deaths
  <1> QED
    BY <1>1, ClockStep, TypeCorrect, PTL DEF Spec

\* A stored revocation holds against every later family check, as long as the
\* token could be verified: the check of a truthful store never passes.
THEOREM RevocationLasts ==
    ASSUME TtlsOK
    PROVE  Spec => RevokedStaysDead
  <1>1. ASSUME TypeOK, Clock, [Next]_vars
        PROVE  [\A r \in Requests : ~store.failOpen /\ pc[r] = "family" /\ pc'[r] = "used"
                                        => cur[r] \notin dead]_vars
    <2> SUFFICES ASSUME Next, NEW r \in Requests,
                        ~store.failOpen, pc[r] = "family", pc'[r] = "used"
                 PROVE  cur[r] \notin dead
      BY <1>1
    <2>1. CheckFamily(r)
      <3> USE <1>1 DEF TypeOK
      <3>1. ASSUME NEW q \in Requests, NEW step, Goto(q, step), pc[q] = "family" => step # "used"
            PROVE  FALSE
        BY <3>1 DEF Goto
      <3>2. ASSUME NEW q \in Requests, Finish(q)
            PROVE  FALSE
        BY <3>2 DEF Finish
      <3>3. pc' # pc
        OBVIOUS
      <3>4. ASSUME NEW q \in Requests, NEW t \in Token PROVE ~Start(q, t) /\ ~Logout(t)
        BY <3>3 DEF Start, Logout, requestVars
      <3>5. ~Login /\ ~Tick
        BY <3>3 DEF Login, Tick, requestVars
      <3>6. ASSUME NEW q \in Requests PROVE ~Fail(q) /\ ~Mint(q) /\ ~RejectReuse(q)
        BY <3>2 DEF Fail, Mint, RejectReuse
      <3>7. ASSUME NEW q \in Requests
            PROVE  /\ ~CheckUsed(q) /\ ~ClaimAtomically(q) /\ ~EnterChain(q)
                   /\ ~ClaimLook(q) /\ ~ClaimWrite(q) /\ ~MarkUsed(q)
        BY <3>1 DEF CheckUsed, ClaimAtomically, EnterChain, ClaimLook, ClaimWrite, MarkUsed
      <3>9. ASSUME NEW q \in Requests PROVE ~ClaimLost(q)
        BY <3>1, <3>2 DEF ClaimLost
      <3>8. ASSUME NEW q \in Requests, CheckFamily(q) PROVE q = r
        BY <3>2, <3>8 DEF CheckFamily, Goto
      <3> QED
        BY <3>4, <3>5, <3>6, <3>7, <3>8, <3>9 DEF Next, Step
    <2>2. ~Revoked(family[cur[r]])
      BY <1>1, <2>1 DEF CheckFamily, Answers, Finish, TypeOK
    <2>3. /\ cur[r] \in issued \ Legacy
          /\ since[r] < expiry[cur[r]] /\ now <= since[r] + RequestSpan
      BY <1>1 DEF TypeOK, Clock, InTime
    <2>4. family[cur[r]] \in Token
      BY <1>1, <2>3 DEF TypeOK, Clock, Claims
    <2>5. /\ since[r] \in Nat /\ expiry[cur[r]] \in Nat /\ now \in Nat /\ RequestSpan \in Nat
          /\ revokedUntil[family[cur[r]]] \in Nat
      BY <1>1, <2>3, <2>4, ConstantsOK DEF TypeOK
    <2>6. revokedUntil[family[cur[r]]] < expiry[cur[r]] + RequestSpan
      BY <2>2, <2>3, <2>5 DEF Revoked
    <2> QED
      BY <1>1, <2>5, <2>6 DEF Clock, Deaths
  <1> QED
    BY <1>1, TypeCorrect, ClockInvariant, PTL DEF Spec, RevokedStaysDead

------------------------------------------------------------------------------
(* No false alarm: a token that was presented once is at most being        *)
(* exchanged by the request that presented it.                             *)

Presented ==
    /\ \A r \in Requests : pc[r] # "idle" => cur[r] \in seen
    /\ \A q, r \in Requests :
           q # r /\ pc[q] # "idle" /\ pc[r] # "idle" /\ cur[q] = cur[r] => cur[r] \in twice

MarkedOnce ==
    \A t \in Token : usedUntil[t] # 0 /\ t \notin twice \cup lost =>
        /\ t \in seen
        /\ \A r \in Requests : pc[r] # "idle" /\ cur[r] = t => pc[r] = "mint"

Alarm == Presented /\ MarkedOnce /\ NoFalseAlarm

LEMMA OnwardAlarm ==
    ASSUME TypeOK, Alarm, Onward, UNCHANGED <<usedUntil, seen, twice, lost>>
    PROVE  Presented' /\ MarkedOnce'
  <1>1. Presented'
    BY DEF Alarm, Presented, Onward
  <1>2. MarkedOnce'
    BY DEF Alarm, MarkedOnce, Onward
  <1> QED
    BY <1>1, <1>2

\* Only a request that has not consumed the token yet can look at its mark.
LEMMA LookAlarm ==
    ASSUME TypeOK, Alarm, NEW r \in Requests, pc[r] \notin {"idle", "mint"}, Used(cur[r])
    PROVE  cur[r] \in twice \cup lost
  <1>1. cur[r] \in Token /\ now \in Nat /\ usedUntil[cur[r]] \in Nat
    BY DEF TypeOK
  <1>2. usedUntil[cur[r]] # 0
    BY <1>1 DEF Used
  <1> QED
    BY <1>1, <1>2 DEF Alarm, MarkedOnce

\* What r alone consumes is marked for r alone.
LEMMA MarkAlarm ==
    ASSUME TypeOK, Alarm, NEW r \in Requests, pc[r] \notin {"idle", "mint"}, Goto(r, "mint"),
           UNCHANGED <<cur, since, seen, twice, lost>>,
           \/ usedUntil' = [usedUntil EXCEPT ![cur[r]] = now + MarkTtl]
           \/ UNCHANGED usedUntil
    PROVE  Alarm'
  <1>1. Onward
    BY GotoOnward
  <1>2. Presented'
    BY <1>1 DEF Alarm, Presented, Onward
  <1>3. NoFalseAlarm'
    BY DEF Alarm, NoFalseAlarm, Goto, TypeOK
  <1>4. MarkedOnce'
    <2> SUFFICES ASSUME NEW t \in Token, usedUntil'[t] # 0, t \notin twice \cup lost
                 PROVE  /\ t \in seen
                        /\ \A q \in Requests : pc'[q] # "idle" /\ cur[q] = t => pc'[q] = "mint"
      BY DEF MarkedOnce
    <2>1. CASE t = cur[r]
      BY <2>1 DEF Alarm, Presented, Goto, TypeOK
    <2>2. CASE t # cur[r]
      <3>1. usedUntil[t] # 0
        BY <2>2 DEF TypeOK
      <3> QED
        BY <1>1, <3>1 DEF Alarm, MarkedOnce, Onward
    <2> QED
      BY <2>1, <2>2
  <1> QED
    BY <1>2, <1>3, <1>4 DEF Alarm

LEMMA GotoAlarm ==
    ASSUME TypeOK, Alarm, NEW r \in Requests, NEW step, pc[r] \notin {"idle", "mint"},
           Goto(r, step), step = "revoke" => Used(cur[r]),
           UNCHANGED <<cur, since, usedUntil, seen, twice, lost>>
    PROVE  Alarm'
  <1>1. Presented' /\ MarkedOnce'
    BY GotoOnward, OnwardAlarm
  <1>2. NoFalseAlarm'
    BY LookAlarm DEF Alarm, NoFalseAlarm, Goto, TypeOK
  <1> QED
    BY <1>1, <1>2 DEF Alarm

LEMMA FinishAlarm ==
    ASSUME TypeOK, Alarm, NEW r \in Requests, Finish(r), UNCHANGED <<usedUntil, seen, twice, lost>>
    PROVE  Alarm'
  <1>1. Presented' /\ MarkedOnce'
    BY FinishOnward, OnwardAlarm
  <1>2. NoFalseAlarm'
    BY DEF Alarm, NoFalseAlarm, Finish, TypeOK
  <1> QED
    BY <1>1, <1>2 DEF Alarm

LEMMA AlarmStep == TypeOK /\ Alarm /\ [Next]_vars => Alarm'
  <1> SUFFICES ASSUME TypeOK, Alarm, [Next]_vars PROVE Alarm'
    OBVIOUS
  <1> USE DEF storeVars, historyVars
  <1>0. ASSUME UNCHANGED <<requestVars, usedUntil, seen, twice, lost>> PROVE Alarm'
    BY <1>0 DEF Alarm, Presented, MarkedOnce, NoFalseAlarm, requestVars
  <1>1. ASSUME NEW r \in Requests, NEW t \in Token, Start(r, t) PROVE Alarm'
    <2>1. /\ pc' = [pc EXCEPT ![r] = IF t \notin Legacy THEN "family" ELSE "mint"]
          /\ cur' = [cur EXCEPT ![r] = t] /\ usedUntil' = usedUntil
          /\ seen' = seen \cup {t} /\ twice' = IF t \in seen THEN twice \cup {t} ELSE twice
          /\ pc[r] = "idle" /\ lost' = lost
      BY <1>1 DEF Start, Identified
    <2>2. NoFalseAlarm'
      BY <2>1 DEF Alarm, NoFalseAlarm, TypeOK
    <2>3. Presented'
      BY <2>1 DEF Alarm, Presented, TypeOK
    <2>4. MarkedOnce'
      BY <2>1 DEF Alarm, Presented, MarkedOnce, TypeOK
    <2> QED
      BY <2>2, <2>3, <2>4 DEF Alarm
  <1>2. ASSUME NEW r \in Requests, CheckFamily(r) PROVE Alarm'
    BY <1>2, GotoAlarm, FinishAlarm DEF CheckFamily
  <1>3. ASSUME NEW r \in Requests, CheckUsed(r) PROVE Alarm'
    BY <1>3, GotoAlarm DEF CheckUsed, Answers
  <1>4. ASSUME NEW r \in Requests, ClaimAtomically(r) PROVE Alarm'
    BY <1>4, GotoAlarm, MarkAlarm DEF ClaimAtomically
  <1>16. ASSUME NEW r \in Requests, ClaimLost(r) PROVE Alarm'
    <2>1. Onward
      BY <1>16, GotoOnward, FinishOnward DEF ClaimLost
    <2>2. Presented'
      BY <1>16, <2>1 DEF ClaimLost, Alarm, Presented, Onward
    <2>3. MarkedOnce'
      <3> SUFFICES ASSUME NEW t \in Token, usedUntil'[t] # 0, t \notin twice \cup lost'
                   PROVE  /\ t \in seen
                          /\ \A q \in Requests : pc'[q] # "idle" /\ cur'[q] = t => pc'[q] = "mint"
        BY <1>16 DEF ClaimLost, MarkedOnce
      <3>1. t # cur[r] /\ t \notin lost
        BY <1>16 DEF ClaimLost
      <3>2. usedUntil[t] # 0
        BY <1>16, <3>1 DEF ClaimLost, TypeOK
      <3> QED
        BY <2>1, <3>1, <3>2 DEF Alarm, MarkedOnce, Onward
    <2>4. NoFalseAlarm'
      BY <1>16 DEF ClaimLost, Alarm, NoFalseAlarm, Goto, Finish, TypeOK
    <2> QED
      BY <2>2, <2>3, <2>4 DEF Alarm
  <1>5. ASSUME NEW r \in Requests, EnterChain(r) PROVE Alarm'
    BY <1>5, GotoAlarm DEF EnterChain
  <1>6. ASSUME NEW r \in Requests, ClaimLook(r) PROVE Alarm'
    BY <1>6, GotoAlarm DEF ClaimLook, Answers
  <1>7. ASSUME NEW r \in Requests, ClaimWrite(r) PROVE Alarm'
    BY <1>7, MarkAlarm DEF ClaimWrite
  <1>8. ASSUME NEW r \in Requests, MarkUsed(r) PROVE Alarm'
    BY <1>8, MarkAlarm DEF MarkUsed
  <1>9. ASSUME NEW r \in Requests, Mint(r) PROVE Alarm'
    BY <1>9, FinishAlarm DEF Mint
  <1>10. ASSUME NEW r \in Requests, RejectReuse(r) PROVE Alarm'
    BY <1>10, FinishAlarm DEF RejectReuse
  <1>11. ASSUME NEW r \in Requests, Fail(r) PROVE Alarm'
    BY <1>11, FinishAlarm DEF Fail
  <1>12. CASE Login
    BY <1>0, <1>12 DEF Login
  <1>13. ASSUME NEW t \in Token, Logout(t) PROVE Alarm'
    BY <1>0, <1>13 DEF Logout
  <1>14. CASE Tick
    BY <1>0, <1>14 DEF Tick
  <1>15. CASE UNCHANGED vars
    BY <1>0, <1>15 DEF vars
  <1> QED
    BY <1>1, <1>2, <1>3, <1>4, <1>5, <1>6, <1>7, <1>8, <1>9, <1>10, <1>11, <1>12, <1>13,
       <1>14, <1>15, <1>16 DEF Next, Step

\* Whatever the store does, a client that presents every token at most once
\* is never treated as a thief, unless the confirmation of a claim got lost.
THEOREM HonestNeverRevoked == Spec => []NoFalseAlarm
  <1>1. Init => Alarm
    BY DEF Init, Alarm, Presented, MarkedOnce, NoFalseAlarm
  <1>2. Alarm => NoFalseAlarm
    BY DEF Alarm
  <1> QED
    BY <1>1, <1>2, AlarmStep, TypeCorrect, PTL DEF Spec

------------------------------------------------------------------------------
(* Single use.  With a store that settles claims, the request that signs   *)
(* the successor of a token is alone, its token is marked and has no       *)
(* successor yet; and a token without a mark has none either.              *)

Childless(t) == \A a \in issued : parent[a] # t

Writers ==
    \A r \in Requests :
        /\ pc[r] \in {"queued", "write"} => store.claim = "serial"
        /\ pc[r] = "write" => usedUntil[cur[r]] = 0 /\ AtHead(r)

Minters ==
    \A r \in Requests : pc[r] = "mint" /\ cur[r] \notin Legacy =>
        /\ usedUntil[cur[r]] # 0
        /\ Childless(cur[r])
        /\ \A q \in Requests : q # r /\ pc[q] = "mint" => cur[q] # cur[r]

Unmarked == \A t \in Token \ Legacy : usedUntil[t] = 0 => Childless(t)

Tree ==
    /\ \A t \in issued : parent[t] \in issued \cup {None}
    /\ \A t \in Token \ issued : parent[t] = None

\* The successors of a token, and the ends of a family.
OneSuccessor ==
    \A a, b \in issued : parent[a] = parent[b] /\ parent[a] \notin Legacy \cup {None} => a = b

OneEnd ==
    \A a, b \in issued \ Legacy :
        family[a] = family[b] /\ Childless(a) /\ Childless(b) => a = b

Lines == Tree /\ OneSuccessor /\ OneEnd
Exclusive == Writers /\ Minters /\ Unmarked /\ Lines

LEMMA SameLines ==
    ASSUME Lines, UNCHANGED tokenVars
    PROVE  Lines' /\ \A t : Childless(t)' <=> Childless(t)
  BY DEF Lines, Tree, OneSuccessor, OneEnd, Childless, tokenVars

\* No request joins those that sign, except for a legacy token.
LEMMA SameMinters ==
    ASSUME Exclusive, UNCHANGED tokenVars, UNCHANGED usedUntil,
           \A q \in Requests : pc'[q] = "mint" =>
               (pc[q] = "mint" /\ cur'[q] = cur[q]) \/ cur'[q] \in Legacy
    PROVE  Minters' /\ Unmarked' /\ Lines'
  <1>1. Lines' /\ \A t : Childless(t)' <=> Childless(t)
    BY SameLines DEF Exclusive
  <1>2. Minters'
    BY <1>1 DEF Exclusive, Minters
  <1>3. Unmarked'
    BY <1>1 DEF Exclusive, Unmarked
  <1> QED
    BY <1>1, <1>2, <1>3

LEMMA LeaveKeepsHead ==
    ASSUME TypeOK, NEW r \in Requests, LeaveChain(r), NEW q \in Requests, q # r,
           pc[q] # "idle", cur'[q] = cur[q], AtHead(q)
    PROVE  AtHead(q)'
  <1>1. cur[q] \in Token
    BY DEF TypeOK
  <1> QED
    BY <1>1 DEF AtHead, LeaveChain

LEMMA SameWriters ==
    ASSUME TypeOK, Exclusive, UNCHANGED store, UNCHANGED usedUntil, NEW r \in Requests,
           LeaveChain(r) \/ UNCHANGED chain, pc'[r] \notin {"queued", "write"},
           \A q \in Requests \ {r} : pc'[q] = pc[q] /\ cur'[q] = cur[q]
    PROVE  Writers'
  <1> SUFFICES ASSUME NEW q \in Requests
               PROVE  /\ pc'[q] \in {"queued", "write"} => store.claim = "serial"
                      /\ pc'[q] = "write" => usedUntil[cur'[q]] = 0 /\ AtHead(q)'
    BY DEF Writers
  <1>1. CASE q = r
    BY <1>1
  <1>2. CASE q # r
    <2>1. UNCHANGED chain => (AtHead(q) => AtHead(q)')
      BY <1>2 DEF AtHead
    <2> QED
      BY <1>2, <2>1, LeaveKeepsHead DEF Exclusive, Writers
  <1> QED
    BY <1>1, <1>2

\* The step that consumes the token: nobody else consumed it before.
LEMMA MarkExclusive ==
    ASSUME TtlsOK, TypeOK, Clock, Exclusive, UNCHANGED <<store, cur>>, UNCHANGED tokenVars,
           NEW r \in Requests, pc[r] \notin {"idle", "mint"}, Goto(r, "mint"),
           usedUntil[cur[r]] = 0,
           usedUntil' = [usedUntil EXCEPT ![cur[r]] = now + MarkTtl]
    PROVE  Minters' /\ Unmarked' /\ Lines'
  <1>1. Lines' /\ \A t : Childless(t)' <=> Childless(t)
    BY SameLines DEF Exclusive
  <1>2. cur[r] \in issued /\ cur[r] \notin Legacy
    BY DEF TypeOK, Clock, InTime
  <1>3. usedUntil'[cur[r]] # 0
    BY <1>2, MarkOutlives DEF TypeOK
  <1>4. \A t \in Token : usedUntil[t] # 0 => usedUntil'[t] # 0
    BY <1>3 DEF TypeOK
  <1>5. Childless(cur[r])
    BY <1>2 DEF TypeOK, Exclusive, Unmarked
  <1>6. \A q \in Requests : pc[q] = "mint" => cur[q] # cur[r]
    BY <1>2 DEF Exclusive, Minters
  <1>7. \A q \in Requests : pc'[q] = "mint" => q = r \/ pc[q] = "mint"
    BY DEF Goto, TypeOK
  <1>8. \A q \in Requests : pc[q] # "idle" => cur[q] \in Token
    BY DEF TypeOK
  <1>9. Minters'
    BY <1>1, <1>3, <1>4, <1>5, <1>6, <1>7, <1>8 DEF Exclusive, Minters
  <1>10. Unmarked'
    BY <1>1, <1>4 DEF Exclusive, Unmarked
  <1> QED
    BY <1>1, <1>9, <1>10

\* A claim that is stored but not confirmed has no successor.
LEMMA LostExclusive ==
    ASSUME TtlsOK, TypeOK, Clock, Exclusive, NEW r \in Requests, ClaimLost(r)
    PROVE  Exclusive'
  <1> USE DEF storeVars
  <1>1. Lines' /\ \A t : Childless(t)' <=> Childless(t)
    BY SameLines DEF Exclusive, ClaimLost
  <1>2. cur[r] \in issued /\ now + MarkTtl # 0
    BY MarkOutlives DEF TypeOK, ClaimLost
  <1>3. \A t \in Token : usedUntil[t] # 0 => usedUntil'[t] # 0
    BY <1>2 DEF TypeOK, ClaimLost
  <1>4. /\ \A q \in Requests \ {r} : pc'[q] = pc[q] /\ cur'[q] = cur[q]
        /\ pc'[r] \in {"idle", "revoke"}
    BY DEF ClaimLost, Goto, Finish, TypeOK
  <1>5. Minters'
    <2> SUFFICES ASSUME NEW q \in Requests, pc'[q] = "mint", cur'[q] \notin Legacy
                 PROVE  /\ usedUntil'[cur'[q]] # 0
                        /\ \A a \in issued' : parent'[a] # cur'[q]
                        /\ \A p \in Requests : p # q /\ pc'[p] = "mint" => cur'[p] # cur'[q]
      BY DEF Minters, Childless
    <2>1. pc[q] = "mint" /\ cur'[q] = cur[q] /\ cur[q] \in Token
      BY <1>4 DEF TypeOK
    <2> QED
      BY <1>3, <1>4, <2>1 DEF Exclusive, Minters, Childless, ClaimLost, tokenVars
  <1>6. Unmarked'
    BY <1>1, <1>3 DEF Exclusive, Unmarked
  <1>7. Writers'
    BY <1>4 DEF Exclusive, Writers, ClaimLost
  <1> QED
    BY <1>1, <1>5, <1>6, <1>7 DEF Exclusive

\* A new token starts a line (from = None), follows a legacy token, or
\* follows the end of its family.
LEMMA SignLines ==
    ASSUME TypeOK, Clock, Exclusive, issued # Token, NEW f, NEW from \in issued \cup {None},
           Sign(Fresh, f, from), from = None => f = None, from # None => f = family[from],
           from \notin Legacy \cup {None} => Childless(from) /\ usedUntil[from] # 0,
           UNCHANGED usedUntil
    PROVE  /\ Lines' /\ Unmarked'
           /\ \A t \in issued : t # from => (Childless(t)' <=> Childless(t))
  <1>1. Fresh \in Token /\ Fresh \notin issued /\ Fresh \notin Legacy /\ None \notin Token
    BY FreshToken, ConstantsOK DEF Clock, Claims
  <1>2. /\ issued' = issued \cup {Fresh}
        /\ parent' = [parent EXCEPT ![Fresh] = from]
        /\ family' = [family EXCEPT ![Fresh] = IF f = None THEN Fresh ELSE f]
    BY DEF Sign
  <1>3. /\ parent'[Fresh] = from
        /\ family'[Fresh] = IF f = None THEN Fresh ELSE f
        /\ \A t \in issued : parent'[t] = parent[t] /\ family'[t] = family[t]
    BY <1>1, <1>2 DEF TypeOK
  <1>4. Tree'
    BY <1>1, <1>2, <1>3 DEF TypeOK, Exclusive, Lines, Tree
  <1>5. \A t : Childless(t)' <=> Childless(t) /\ t # from
    BY <1>2, <1>3 DEF Childless
  <1>6. Childless(Fresh)
    BY <1>1 DEF Exclusive, Lines, Tree, Childless
  <1>7. OneSuccessor'
    <2> SUFFICES ASSUME NEW a \in issued', NEW b \in issued', parent'[a] = parent'[b],
                        parent'[a] \notin Legacy \cup {None}
                 PROVE  a = b
      BY DEF OneSuccessor
    <2>1. CASE a \in issued /\ b \in issued
      BY <1>3, <2>1 DEF Exclusive, Lines, OneSuccessor
    <2>2. CASE a = Fresh \/ b = Fresh
      <3>1. from \notin Legacy \cup {None}
        BY <1>3, <2>2
      <3>2. \A t \in issued : parent'[t] # from
        BY <1>3, <3>1 DEF Childless
      <3> QED
        BY <1>2, <1>3, <2>2, <3>2
    <2> QED
      BY <1>2, <2>1, <2>2
  <1>8. OneEnd'
    <2> SUFFICES ASSUME NEW a \in issued' \ Legacy, NEW b \in issued' \ Legacy,
                        family'[a] = family'[b], Childless(a)', Childless(b)'
                 PROVE  a = b
      BY DEF OneEnd
    <2>0. Childless(a) /\ Childless(b) /\ a # from /\ b # from
      BY <1>5
    <2>1. CASE a \in issued /\ b \in issued
      BY <1>3, <2>0, <2>1 DEF Exclusive, Lines, OneEnd
    <2>2. ASSUME NEW c \in issued \ Legacy, family[c] = family'[Fresh], Childless(c), c # from
          PROVE  FALSE
      <3>1. family[c] \in issued
        BY DEF Clock, Claims
      <3>2. f # None
        BY <1>1, <1>3, <2>2, <3>1
      <3>3. from \in issued \ Legacy /\ family[from] = f
        BY <3>2 DEF Clock, Claims
      <3>4. Childless(from)
        BY <1>1, <3>3 DEF TypeOK
      <3> QED
        BY <1>3, <2>2, <3>2, <3>3, <3>4 DEF Exclusive, Lines, OneEnd
    <2>3. CASE a = Fresh \/ b = Fresh
      BY <1>1, <1>2, <1>3, <2>0, <2>2, <2>3
    <2> QED
      BY <1>2, <2>1, <2>3
  <1>9. ASSUME NEW t \in Token \ Legacy, usedUntil[t] = 0 PROVE Childless(t)'
    BY <1>1, <1>5, <1>9 DEF Exclusive, Unmarked
  <1> QED
    BY <1>4, <1>5, <1>7, <1>8, <1>9 DEF Lines, Unmarked

LEMMA ExclusiveStep ==
    ASSUME TtlsOK, TypeOK, Clock, Exclusive, SettlesClaims, [Next]_vars
    PROVE  Exclusive'
  <1> USE DEF storeVars, requestVars, historyVars
  <1>1. ASSUME NEW r \in Requests, NEW t \in Token, Start(r, t) PROVE Exclusive'
    <2>1. /\ pc[r] = "idle" /\ pc'[r] \in {"family", "mint"} /\ pc'[r] = "mint" => t \in Legacy
          /\ cur'[r] = t /\ \A q \in Requests \ {r} : pc'[q] = pc[q] /\ cur'[q] = cur[q]
      BY <1>1 DEF Start, Identified, TypeOK
    <2>2. Writers'
      BY <1>1, <2>1, SameWriters DEF Start
    <2>3. Minters' /\ Unmarked' /\ Lines'
      BY <1>1, <2>1, SameMinters DEF Start
    <2> QED
      BY <2>2, <2>3 DEF Exclusive
  <1>2. ASSUME NEW r \in Requests, NEW step, Goto(r, step), pc[r] # "idle",
               step \notin {"mint", "write", "queued"}, LeaveChain(r) \/ UNCHANGED chain,
               UNCHANGED <<store, tokenVars, usedUntil, cur>>
        PROVE  Exclusive'
    <2>1. pc'[r] = step /\ \A q \in Requests \ {r} : pc'[q] = pc[q] /\ cur'[q] = cur[q]
      BY <1>2 DEF Goto, TypeOK
    <2>2. Writers'
      BY <1>2, <2>1, SameWriters
    <2>3. Minters' /\ Unmarked' /\ Lines'
      BY <1>2, <2>1, SameMinters
    <2> QED
      BY <2>2, <2>3 DEF Exclusive
  <1>3. ASSUME NEW r \in Requests, Finish(r), LeaveChain(r) \/ UNCHANGED chain,
               UNCHANGED <<store, tokenVars, usedUntil>>
        PROVE  Exclusive'
    <2>1. pc'[r] = "idle" /\ \A q \in Requests \ {r} : pc'[q] = pc[q] /\ cur'[q] = cur[q]
      BY <1>3 DEF Finish, TypeOK
    <2>2. Writers'
      BY <1>3, <2>1, SameWriters
    <2>3. Minters' /\ Unmarked' /\ Lines'
      BY <1>3, <2>1, SameMinters
    <2> QED
      BY <2>2, <2>3 DEF Exclusive
  <1>4. ASSUME NEW r \in Requests, CheckFamily(r) PROVE Exclusive'
    BY <1>2, <1>3, <1>4 DEF CheckFamily
  <1>5. ASSUME NEW r \in Requests, CheckUsed(r) PROVE Exclusive'
    BY <1>2, <1>5 DEF CheckUsed
  <1>6. ASSUME NEW r \in Requests, ClaimAtomically(r) PROVE Exclusive'
    <2>1. CASE Goto(r, "revoke") /\ UNCHANGED usedUntil
      BY <1>2, <1>6, <2>1 DEF ClaimAtomically
    <2>2. CASE /\ ~Used(cur[r]) /\ Goto(r, "mint")
               /\ usedUntil' = [usedUntil EXCEPT ![cur[r]] = now + MarkTtl]
      <3>1. usedUntil[cur[r]] = 0
        BY <1>6, <2>2, UsedForGood DEF ClaimAtomically
      <3>2. Minters' /\ Unmarked' /\ Lines'
        BY <1>6, <2>2, <3>1, MarkExclusive DEF ClaimAtomically
      <3>3. Writers'
        BY <1>6, <2>2 DEF ClaimAtomically, Exclusive, Writers, Goto, TypeOK
      <3> QED
        BY <3>2, <3>3 DEF Exclusive
    <2> QED
      BY <1>6, <2>1, <2>2 DEF ClaimAtomically
  <1>7. ASSUME NEW r \in Requests, EnterChain(r) PROVE Exclusive'
    <2>1. pc'[r] = "queued" /\ \A q \in Requests \ {r} : pc'[q] = pc[q]
      BY <1>7 DEF EnterChain, Goto, TypeOK
    <2>2. Minters' /\ Unmarked' /\ Lines'
      BY <1>7, <2>1, SameMinters DEF EnterChain
    <2>3. ASSUME NEW q \in Requests, pc[q] # "idle", AtHead(q) PROVE AtHead(q)'
      <3>1. cur[q] \in Token /\ chain[cur[q]] \in Seq(Requests)
        BY <2>3 DEF TypeOK
      <3>2. ASSUME NEW s \in Seq(Requests), s # <<>>
            PROVE  Append(s, r) # <<>> /\ Head(Append(s, r)) = Head(s)
        BY <3>2, AppendProperties, LenProperties, EmptySeq
      <3> QED
        BY <1>7, <2>3, <3>1, <3>2 DEF EnterChain, AtHead, TypeOK
    <2>4. Writers'
      BY <1>7, <2>1, <2>3 DEF EnterChain, Exclusive, Writers
    <2> QED
      BY <2>2, <2>4 DEF Exclusive
  <1>8. ASSUME NEW r \in Requests, ClaimLook(r) PROVE Exclusive'
    <2>1. store.claim = "serial" /\ ~store.failOpen
      BY <1>8 DEF ClaimLook, Exclusive, Writers, SettlesClaims, Settles
    <2>2. CASE Goto(r, "revoke") /\ LeaveChain(r)
      BY <1>2, <1>8, <2>2 DEF ClaimLook
    <2>3. CASE ~Used(cur[r]) /\ Goto(r, "write") /\ UNCHANGED chain
      <3>1. usedUntil[cur[r]] = 0
        BY <1>8, <2>3, UsedForGood DEF ClaimLook
      <3>2. pc'[r] = "write" /\ \A q \in Requests \ {r} : pc'[q] = pc[q]
        BY <2>3 DEF Goto, TypeOK
      <3>3. Minters' /\ Unmarked' /\ Lines'
        BY <1>8, <3>2, SameMinters DEF ClaimLook
      <3>4. Writers'
        BY <1>8, <2>1, <2>3, <3>1, <3>2 DEF ClaimLook, Exclusive, Writers, AtHead
      <3> QED
        BY <3>3, <3>4 DEF Exclusive
    <2> QED
      BY <1>8, <2>1, <2>2, <2>3 DEF ClaimLook, Answers
  <1>9. ASSUME NEW r \in Requests, ClaimWrite(r) PROVE Exclusive'
    <2>1. store.claim = "serial" /\ ~store.lossy /\ usedUntil[cur[r]] = 0 /\ AtHead(r)
      BY <1>9 DEF ClaimWrite, Exclusive, Writers, SettlesClaims, Settles
    <2>2. Minters' /\ Unmarked' /\ Lines'
      BY <1>9, <2>1, MarkExclusive DEF ClaimWrite
    <2>3. pc'[r] = "mint" /\ \A q \in Requests \ {r} : pc'[q] = pc[q] /\ cur'[q] = cur[q]
      BY <1>9 DEF ClaimWrite, Goto, TypeOK
    <2>4. ASSUME NEW q \in Requests, pc'[q] \in {"queued", "write"}
          PROVE  /\ store.claim = "serial"
                 /\ pc'[q] = "write" => usedUntil'[cur[q]] = 0 /\ AtHead(q)'
      <3>1. q # r /\ pc[q] = pc'[q] /\ cur'[q] = cur[q]
        BY <2>3, <2>4
      <3>2. ASSUME pc[q] = "write" PROVE usedUntil[cur[q]] = 0 /\ AtHead(q) /\ cur[q] # cur[r]
        BY <2>1, <3>1, <3>2 DEF Exclusive, Writers, AtHead
      <3>3. ASSUME pc[q] = "write" PROVE usedUntil'[cur[q]] = 0
        BY <1>9, <2>1, <3>2, <3>3 DEF ClaimWrite, TypeOK
      <3>4. ASSUME pc[q] = "write" PROVE AtHead(q)'
        BY <1>9, <3>1, <3>2, <3>4, LeaveKeepsHead DEF ClaimWrite
      <3> QED
        BY <2>1, <3>1, <3>3, <3>4
    <2>5. Writers'
      BY <1>9, <2>4 DEF ClaimWrite, Writers
    <2> QED
      BY <2>2, <2>5 DEF Exclusive
  <1>10. ASSUME NEW r \in Requests PROVE ~MarkUsed(r)
    BY DEF MarkUsed, SettlesClaims, Settles
  <1>11. ASSUME NEW r \in Requests, Mint(r) PROVE Exclusive'
    <2>1. cur[r] \in issued /\ cur[r] \notin Legacy =>
              Childless(cur[r]) /\ usedUntil[cur[r]] # 0
      BY <1>11 DEF Mint, TypeOK, Exclusive, Minters
    <2>2. /\ Lines' /\ Unmarked'
          /\ \A t \in issued : t # cur[r] => (Childless(t)' <=> Childless(t))
      BY <1>11, <2>1, SignLines, ConstantsOK DEF Mint, TypeOK
    <2>3. pc'[r] = "idle" /\ \A q \in Requests \ {r} : pc'[q] = pc[q] /\ cur'[q] = cur[q]
      BY <1>11 DEF Mint, Finish, TypeOK
    <2>4. Writers'
      BY <1>11, <2>3, SameWriters DEF Mint
    <2>5. Minters'
      <3> SUFFICES ASSUME NEW q \in Requests, pc'[q] = "mint", cur'[q] \notin Legacy
                   PROVE  /\ usedUntil[cur'[q]] # 0
                          /\ \A a \in issued' : parent'[a] # cur'[q]
                          /\ \A p \in Requests : p # q /\ pc'[p] = "mint" => cur'[p] # cur'[q]
        BY <1>11 DEF Mint, Minters, Childless
      <3>1. q # r /\ pc[q] = "mint" /\ cur'[q] = cur[q]
        BY <2>3
      <3>2. cur[q] \in issued /\ cur[q] # cur[r]
        BY <1>11, <3>1 DEF Mint, TypeOK, Exclusive, Minters
      <3>3. Childless(cur[q])
        BY <3>1 DEF Exclusive, Minters
      <3>4. \A a \in issued' : parent'[a] # cur[q]
        BY <2>2, <3>2, <3>3 DEF Childless
      <3> QED
        BY <2>3, <3>1, <3>4 DEF Exclusive, Minters
    <2> QED
      BY <2>2, <2>4, <2>5 DEF Exclusive
  <1>12. ASSUME NEW r \in Requests, RejectReuse(r) PROVE Exclusive'
    BY <1>3, <1>12 DEF RejectReuse
  <1>13. ASSUME NEW r \in Requests, Fail(r) PROVE Exclusive'
    BY <1>3, <1>13 DEF Fail
  <1>14. CASE Login
    <2>1. /\ Lines' /\ Unmarked'
          /\ \A t \in issued : t # None => (Childless(t)' <=> Childless(t))
      BY <1>14, SignLines DEF Login
    <2>2. \A r \in Requests : pc[r] # "idle" => cur[r] \in issued /\ cur[r] # None
      BY ConstantsOK DEF TypeOK
    <2>3. Minters'
      BY <1>14, <2>1, <2>2 DEF Login, Exclusive, Minters, Childless
    <2>4. Writers'
      BY <1>14 DEF Login, Exclusive, Writers, AtHead
    <2> QED
      BY <2>1, <2>3, <2>4 DEF Exclusive
  <1>15. ASSUME UNCHANGED <<store, tokenVars, usedUntil, chain, requestVars>> PROVE Exclusive'
    BY <1>15, SameMinters DEF Exclusive, Writers, AtHead
  <1>16. ASSUME NEW t \in Token, Logout(t) PROVE Exclusive'
    BY <1>15, <1>16 DEF Logout
  <1>17. CASE Tick
    BY <1>15, <1>17 DEF Tick
  <1>18. CASE UNCHANGED vars
    BY <1>15, <1>18 DEF vars
  <1> QED
    BY <1>1, <1>4, <1>5, <1>6, <1>7, <1>8, <1>9, <1>10, <1>11, <1>12, <1>13, <1>14, <1>16,
       <1>17, <1>18, LostExclusive DEF Next, Step

LEMMA ExclusiveInvariant ==
    ASSUME TtlsOK
    PROVE  Spec => [](SettlesClaims => Exclusive)
  <1>1. Init => Exclusive
    BY ConstantsOK DEF Init, Exclusive, Writers, Minters, Unmarked, Lines, Tree, OneSuccessor,
                       OneEnd, Childless
  <1>2. TypeOK /\ Clock /\ (SettlesClaims => Exclusive) /\ [Next]_vars
            => (SettlesClaims => Exclusive)'
    <2> SUFFICES ASSUME TypeOK, Clock, SettlesClaims => Exclusive, [Next]_vars, SettlesClaims'
                 PROVE  Exclusive'
      OBVIOUS
    <2>1. store' = store
      BY DEF Next, Step, Start, CheckFamily, CheckUsed, ClaimAtomically, ClaimLost, EnterChain,
             ClaimLook, ClaimWrite, MarkUsed, Mint, RejectReuse, Fail, Login, Logout, Tick, vars
    <2>2. SettlesClaims
      BY <2>1 DEF SettlesClaims, Settles
    <2> QED
      BY <2>2, ExclusiveStep
  <1> QED
    BY <1>1, <1>2, TypeCorrect, ClockInvariant, PTL DEF Spec

\* With a store that settles claims, a token is exchanged for one successor
\* at most, however many requests present it and whichever of them fail.
THEOREM ExchangedOnce ==
    ASSUME TtlsOK
    PROVE  Spec => []SingleUse
  <1>1. (SettlesClaims => Exclusive) => SingleUse
    BY DEF Exclusive, Lines, OneSuccessor, SingleUse
  <1> QED
    BY <1>1, ExclusiveInvariant, PTL

\* With such a store every family has at most one token that nobody used.
THEOREM OneLiveTokenPerFamily ==
    ASSUME TtlsOK
    PROVE  Spec => []OneLiveToken
  <1>1. TypeOK /\ (SettlesClaims => Exclusive) => OneLiveToken
    BY DEF TypeOK, Exclusive, Unmarked, Lines, OneEnd, OneLiveToken
  <1> QED
    BY <1>1, TypeCorrect, ExclusiveInvariant, PTL

------------------------------------------------------------------------------
(* Refinement.                                                             *)

\* The steps that neither sign nor mark are stutters.
LEMMA PromiseStep ==
    ASSUME TtlsOK, TypeOK, Clock, Exclusive, SettlesClaims, [Next]_vars
    PROVE  [Promise!AbstractNext]_(Promise!abstractVars)
  <1> USE DEF Promise!abstractVars, storeVars, historyVars
  <1>1. ASSUME UNCHANGED <<issued, parent, usedUntil>>
        PROVE  UNCHANGED Promise!abstractVars
    BY <1>1
  <1>2. ASSUME NEW r \in Requests, pc[r] \notin {"idle", "mint"}, usedUntil[cur[r]] = 0,
               UNCHANGED <<issued, parent>>,
               usedUntil' = [usedUntil EXCEPT ![cur[r]] = now + MarkTtl]
        PROVE  Promise!Consume
    <2>1. cur[r] \in issued /\ cur[r] \notin Legacy
      BY <1>2 DEF TypeOK, Clock, InTime
    <2>2. cur[r] \notin {t \in Token : usedUntil[t] # 0}
      BY <1>2
    <2>3. {t \in Token : usedUntil[t] # 0}' = {t \in Token : usedUntil[t] # 0} \cup {cur[r]}
      <3>1. usedUntil'[cur[r]] # 0 /\ cur[r] \in Token
        BY <1>2, <2>1, MarkOutlives DEF TypeOK
      <3>2. \A t \in Token : t # cur[r] => usedUntil'[t] = usedUntil[t]
        BY <1>2 DEF TypeOK
      <3> QED
        BY <3>1, <3>2
    <2> QED
      BY <1>2, <2>1, <2>2, <2>3 DEF Promise!Consume
  <1>3. ASSUME NEW r \in Requests, ClaimAtomically(r)
        PROVE  [Promise!AbstractNext]_(Promise!abstractVars)
    <2>1. ~Used(cur[r]) => usedUntil[cur[r]] = 0
      BY <1>3, UsedForGood DEF ClaimAtomically
    <2> QED
      BY <1>1, <1>2, <1>3, <2>1 DEF ClaimAtomically, tokenVars, Promise!AbstractNext
  <1>9. ASSUME NEW r \in Requests, ClaimLost(r) PROVE Promise!AbstractNext
    <2>1. usedUntil[cur[r]] = 0
      BY <1>9, UsedForGood DEF ClaimLost
    <2> QED
      BY <1>2, <1>9, <2>1 DEF ClaimLost, tokenVars, Promise!AbstractNext
  <1>4. ASSUME NEW r \in Requests, ClaimWrite(r) PROVE Promise!AbstractNext
    <2>1. usedUntil[cur[r]] = 0 /\ ~store.lossy
      BY <1>4 DEF ClaimWrite, Exclusive, Writers, SettlesClaims, Settles
    <2> QED
      BY <1>2, <1>4, <2>1 DEF ClaimWrite, tokenVars, Promise!AbstractNext
  <1>5. ASSUME NEW r \in Requests, Mint(r) PROVE Promise!AbstractNext
    <2>1. cur[r] \in issued /\ Fresh \in Token \ issued
      BY <1>5, FreshToken DEF Mint, TypeOK
    <2>2. cur[r] \notin Legacy => usedUntil[cur[r]] # 0 /\ Childless(cur[r])
      BY <1>5 DEF Mint, Exclusive, Minters
    <2>3. Promise!Replace
      BY <1>5, <2>1, <2>2 DEF Mint, Sign, TypeOK, Childless, Promise!Replace
    <2> QED
      BY <2>3 DEF Promise!AbstractNext
  <1>6. CASE Login
    <2>1. Fresh \in Token \ issued
      BY <1>6, FreshToken DEF Login
    <2>2. parent' = parent
      BY <1>6, <2>1 DEF Login, Sign, TypeOK, Exclusive, Lines, Tree
    <2> QED
      BY <1>6, <2>1, <2>2 DEF Login, Sign, Promise!Issue, Promise!AbstractNext
  <1>7. ASSUME NEW r \in Requests
        PROVE  /\ ~MarkUsed(r)
               /\ CheckFamily(r) \/ CheckUsed(r) \/ EnterChain(r) \/ ClaimLook(r)
                  \/ RejectReuse(r) \/ Fail(r) \/ (\E t \in Token : Start(r, t))
                      => UNCHANGED <<issued, parent, usedUntil>>
    BY DEF SettlesClaims, Settles, MarkUsed, CheckFamily, CheckUsed, EnterChain, ClaimLook,
           RejectReuse, Fail, Start, tokenVars
  <1>8. (\E t \in Token : Logout(t)) \/ Tick \/ UNCHANGED vars
            => UNCHANGED <<issued, parent, usedUntil>>
    BY DEF Logout, Tick, vars, tokenVars
  <1> QED
    BY <1>1, <1>3, <1>4, <1>5, <1>6, <1>7, <1>8, <1>9 DEF Next, Step, Promise!AbstractNext

\* If every store settles claims, the service implements SingleUseTokens.
THEOREM ImplementsPromise ==
    ASSUME TtlsOK, \A s \in Stores : Settles(s)
    PROVE  Spec => KeepsPromise
  <1>1. Init => Promise!AbstractInit
    BY ConstantsOK DEF Init, Promise!AbstractInit
  <1>2. TypeOK => SettlesClaims
    BY DEF TypeOK, SettlesClaims
  <1>3. TypeOK /\ Clock /\ (SettlesClaims => Exclusive) /\ [Next]_vars
            => [Promise!AbstractNext]_(Promise!abstractVars)
    BY <1>2, PromiseStep
  <1> QED
    BY <1>1, <1>3, TypeCorrect, ClockInvariant, ExclusiveInvariant, PTL
    DEF Spec, KeepsPromise, Promise!AbstractSpec
==============================================================================
