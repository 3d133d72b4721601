----------------------------- MODULE RedisProofs -----------------------------
(***************************************************************************)
(* Proofs about the two modules over Redis.  First RedisBreaker, for every *)
(* number of managers and commands and for all thresholds; then            *)
(* HybridClaims, for every number of concurrent calls and every            *)
(* configuration, which inherits the facts about the breakers: a step of   *)
(* the hybrid cache is a breaker step.                                     *)
(***************************************************************************)
EXTENDS HybridClaims, TLAPS

------------------------------------------------------------------------------
(* Type correctness.                                                       *)

LocalTypeOK ==
    /\ off \in [Manager -> BOOLEAN]
    /\ failures \in [Manager -> Nat]
    /\ armed \in [Manager -> BOOLEAN]
    /\ loose \in [Manager -> Nat]
    /\ probes \in [Manager -> Nat]

GlobalTypeOK ==
    /\ disabled \in BOOLEAN /\ errors \in Nat /\ timer \in BOOLEAN /\ pings \in Nat

CallTypeOK ==
    /\ op \in [Call -> Ops \cup {"none"}]
    /\ by \in [Call -> Manager \cup {None}]
    /\ thrown \in [Call -> {"none", "command", "client"}]
    /\ counted \subseteq Call
    /\ \A c \in Call : /\ op[c] # "none" => by[c] \in Manager
                       /\ thrown[c] # "none" => op[c] \in Throwing

LEMMA TypeParts ==
    BreakerTypeOK <=> /\ LocalTypeOK /\ GlobalTypeOK /\ CallTypeOK
                      /\ up \in BOOLEAN /\ destroyed \subseteq Manager /\ failed \in Nat
  BY DEF BreakerTypeOK, LocalTypeOK, GlobalTypeOK, CallTypeOK

LEMMA ArmType ==
    ASSUME LocalTypeOK, NEW m \in Manager, Arm(m)
    PROVE  armed' \in [Manager -> BOOLEAN] /\ loose' \in [Manager -> Nat]
  BY DEF LocalTypeOK, Arm, LoseHandle

LEMMA HandleType ==
    ASSUME LocalTypeOK, NEW m \in Manager, HandleRedisError(m)
    PROVE  LocalTypeOK'
  <1>1. failures' \in [Manager -> Nat] /\ probes' \in [Manager -> Nat]
    BY DEF LocalTypeOK, HandleRedisError
  <1>2. off' \in [Manager -> BOOLEAN]
    BY DEF LocalTypeOK, HandleRedisError
  <1>3. armed' \in [Manager -> BOOLEAN] /\ loose' \in [Manager -> Nat]
    BY ArmType DEF LocalTypeOK, HandleRedisError
  <1> QED
    BY <1>1, <1>2, <1>3 DEF LocalTypeOK

LEMMA ResetType ==
    ASSUME LocalTypeOK, NEW m \in Manager, ResetRedisErrorState(m)
    PROVE  LocalTypeOK'
  BY DEF LocalTypeOK, ResetRedisErrorState

LEMMA NotifyType ==
    ASSUME GlobalTypeOK, CallTypeOK, NEW c \in Call, NotifyRedisError(c)
    PROVE  GlobalTypeOK' /\ counted' \subseteq Call
  <1>1. CASE UNCHANGED <<globalVars, counted>>
    BY <1>1 DEF GlobalTypeOK, CallTypeOK, globalVars
  <1>2. CASE counted' = counted \cup {c} /\ CountError
    BY <1>2, BreakerConstantsOK DEF GlobalTypeOK, CallTypeOK, CountError
  <1> QED
    BY <1>1, <1>2 DEF NotifyRedisError

LEMMA ResetGlobalType ==
    ASSUME GlobalTypeOK, ResetRedisGlobalState, pings' \in Nat
    PROVE  GlobalTypeOK'
  BY DEF GlobalTypeOK, ResetRedisGlobalState

LEMMA OnBehalf ==
    ASSUME CallTypeOK, NEW c \in Call, op[c] # "none" \/ thrown[c] # "none"
    PROVE  by[c] \in Manager /\ op[c] # "none"
  BY DEF CallTypeOK, Throwing

LEMMA BeginType ==
    ASSUME CallTypeOK, NEW c \in Call, NEW m \in Manager, NEW o \in Ops,
           NEW error \in {"none", "client"}, error # "none" => o \in Throwing,
           BeginCall(c, m, o, error)
    PROVE  CallTypeOK'
  BY DEF CallTypeOK, BeginCall

LEMMA EndType ==
    ASSUME CallTypeOK, NEW c \in Call, EndCall(c), counted' \subseteq Call
    PROVE  CallTypeOK'
  BY DEF CallTypeOK, EndCall

LEMMA BreakerTypeStep == BreakerTypeOK /\ [BreakerNext]_breakerVars => BreakerTypeOK'
  <1> SUFFICES ASSUME LocalTypeOK, GlobalTypeOK, CallTypeOK, up \in BOOLEAN,
                      destroyed \subseteq Manager, failed \in Nat, [BreakerNext]_breakerVars
               PROVE  /\ LocalTypeOK' /\ GlobalTypeOK' /\ CallTypeOK'
                      /\ up' \in BOOLEAN /\ destroyed' \subseteq Manager /\ failed' \in Nat
    BY TypeParts DEF BreakerTypeOK, LocalTypeOK, GlobalTypeOK, CallTypeOK
  <1>a. ASSUME UNCHANGED globalVars PROVE GlobalTypeOK'
    BY <1>a DEF globalVars, GlobalTypeOK
  <1>b. ASSUME UNCHANGED localVars PROVE LocalTypeOK'
    BY <1>b DEF localVars, LocalTypeOK
  <1>c. ASSUME UNCHANGED callVars PROVE CallTypeOK'
    BY <1>c DEF callVars, CallTypeOK
  <1>1. ASSUME NEW c \in Call, NEW m \in Manager, NEW o \in Ops,
               Send(c, m, o) \/ SendInVain(c, m, o)
        PROVE  /\ CallTypeOK' /\ LocalTypeOK' /\ GlobalTypeOK'
               /\ up' = up /\ destroyed' = destroyed /\ failed' = failed
    <2>1. CASE Send(c, m, o)
      BY <1>a, <1>b, <2>1, BeginType DEF Send
    <2>2. CASE SendInVain(c, m, o)
      BY <1>a, <1>b, <1>c, <2>2, BeginType, ResetType DEF SendInVain
    <2> QED
      BY <1>1, <2>1, <2>2
  <1>2. ASSUME NEW c \in Call, NEW hit \in BOOLEAN, Answered(c, hit)
        PROVE  CallTypeOK' /\ LocalTypeOK' /\ GlobalTypeOK' /\ failed' \in Nat
    <2>1. by[c] \in Manager
      <3>1. op[c] # "none"
        BY <1>2 DEF Answered
      <3> QED
        BY <3>1, OnBehalf
    <2>2. LocalTypeOK' /\ CallTypeOK'
      <3>1. LocalTypeOK'
        BY <1>b, <1>2, <2>1, ResetType DEF Answered
      <3>2. EndCall(c) /\ counted' \subseteq Call
        BY <1>2 DEF Answered, CallTypeOK
      <3> QED
        BY <3>1, <3>2, EndType
    <2>3. GlobalTypeOK' /\ failed' \in Nat
      <3>1. pings' = pings
        BY <1>2 DEF Answered
      <3>2. \/ ResetRedisGlobalState /\ failed' = 0
            \/ UNCHANGED <<disabled, errors, timer, failed>>
        BY <1>2 DEF Answered
      <3>3. CASE ResetRedisGlobalState /\ failed' = 0
        BY <3>1, <3>3, ResetGlobalType DEF GlobalTypeOK
      <3>4. CASE UNCHANGED <<disabled, errors, timer, failed>>
        BY <3>1, <3>4 DEF GlobalTypeOK
      <3> QED
        BY <3>2, <3>3, <3>4
    <2> QED
      BY <2>2, <2>3
  <1>3. ASSUME NEW c \in Call, Failed(c)
        PROVE  CallTypeOK' /\ LocalTypeOK' /\ GlobalTypeOK' /\ failed' \in Nat
    <2>1. by[c] \in Manager
      <3>1. op[c] # "none"
        BY <1>3 DEF Failed
      <3> QED
        BY <3>1, OnBehalf
    <2>2. CASE /\ op[c] \in Throwing /\ NotifyRedisError(c) /\ failed' = failed + 1
               /\ thrown' = [thrown EXCEPT ![c] = "command"]
               /\ UNCHANGED <<localVars, op, by>>
      <3>1. GlobalTypeOK' /\ counted' \subseteq Call
        BY <2>2, NotifyType
      <3>2. CallTypeOK'
        BY <2>2, <3>1 DEF CallTypeOK
      <3> QED
        BY <1>b, <2>2, <3>1, <3>2
    <2>3. CASE /\ op[c] = "set" /\ NotifyRedisError(c) /\ failed' = failed + 1
               /\ ResetRedisErrorState(by[c]) /\ EndCall(c)
      BY <2>1, <2>3, NotifyType, ResetType, EndType
    <2>4. CASE /\ EndCall(c) /\ UNCHANGED <<globalVars, counted, failed>>
               /\ ResetRedisErrorState(by[c]) \/ UNCHANGED localVars
      <3>1. counted' \subseteq Call
        BY <2>4 DEF CallTypeOK
      <3> QED
        BY <1>a, <1>b, <2>1, <2>4, <3>1, ResetType, EndType
    <2> QED
      BY <1>3, <2>2, <2>3, <2>4 DEF Failed
  <1>17. ASSUME NEW c \in Call, Handled(c)
         PROVE  CallTypeOK' /\ LocalTypeOK' /\ GlobalTypeOK' /\ failed' \in Nat
    <2>1. by[c] \in Manager
      <3>1. thrown[c] # "none"
        BY <1>17 DEF Handled
      <3> QED
        BY <3>1, OnBehalf
    <2>2. GlobalTypeOK' /\ counted' \subseteq Call
      BY <1>17, NotifyType DEF Handled
    <2>3. LocalTypeOK' /\ CallTypeOK'
      BY <1>17, <2>1, <2>2, HandleType, EndType DEF Handled
    <2>4. failed' \in Nat
      BY <1>17 DEF Handled
    <2> QED
      BY <2>2, <2>3, <2>4
  <1>4. CASE Reconnect
    <2>1. GlobalTypeOK'
      <3>1. timer' \in BOOLEAN /\ UNCHANGED <<disabled, errors>>
        BY <1>4 DEF Reconnect, GlobalTypeOK
      <3>2. pings' = pings + 1 \/ pings' = pings
        BY <1>4 DEF Reconnect
      <3>3. pings' \in Nat
        BY <3>2 DEF GlobalTypeOK
      <3> QED
        BY <3>1, <3>3 DEF GlobalTypeOK
    <2> QED
      BY <1>b, <1>c, <1>4, <2>1 DEF Reconnect
  <1>5. CASE ReconnectEnds
    <2>1. pings' \in Nat
      BY <1>5 DEF ReconnectEnds, GlobalTypeOK
    <2>2. CASE ResetRedisGlobalState /\ failed' = 0
      BY <1>b, <1>c, <1>5, <2>1, <2>2, ResetGlobalType DEF ReconnectEnds
    <2>3. CASE timer' = TRUE /\ UNCHANGED <<disabled, errors, failed>>
      <3>1. GlobalTypeOK' /\ failed' \in Nat
        BY <2>1, <2>3 DEF GlobalTypeOK
      <3> QED
        BY <1>b, <1>c, <1>5, <3>1 DEF ReconnectEnds
    <2> QED
      BY <1>5, <2>2, <2>3 DEF ReconnectEnds
  <1>6. ASSUME NEW m \in Manager, Probe(m) PROVE LocalTypeOK'
    <2>1. off' \in [Manager -> BOOLEAN] /\ failures' \in [Manager -> Nat]
      BY <1>6 DEF Probe, LocalTypeOK
    <2>2. probes' \in [Manager -> Nat]
      BY <1>6 DEF Probe, LocalTypeOK
    <2>3. CASE armed' = [armed EXCEPT ![m] = FALSE] /\ UNCHANGED loose
      BY <2>1, <2>2, <2>3 DEF LocalTypeOK
    <2>4. CASE loose[m] > 0 /\ loose' = [loose EXCEPT ![m] = @ - 1] /\ UNCHANGED armed
      <3>1. loose' \in [Manager -> Nat]
        BY <2>4 DEF LocalTypeOK
      <3> QED
        BY <2>1, <2>2, <2>4, <3>1 DEF LocalTypeOK
    <2> QED
      BY <1>6, <2>3, <2>4 DEF Probe, TimerFires
  <1>7. ASSUME NEW m \in Manager, ProbeInVain(m) PROVE LocalTypeOK'
    <2>1. CASE UNCHANGED <<armed, loose>>
      BY <1>7, <2>1 DEF ProbeInVain, LocalTypeOK
    <2>2. CASE /\ loose[m] > 0 /\ armed' = [armed EXCEPT ![m] = TRUE]
               /\ loose' = [loose EXCEPT ![m] = LoseHandle(m) - 1]
      <3>1. LoseHandle(m) - 1 \in Nat
        BY <2>2 DEF LocalTypeOK, LoseHandle
      <3> QED
        BY <1>7, <2>2, <3>1 DEF ProbeInVain, LocalTypeOK
    <2> QED
      BY <1>7, <2>1, <2>2 DEF ProbeInVain
  <1>8. ASSUME NEW m \in Manager, ProbeEnds(m) PROVE LocalTypeOK'
    <2>1. probes' \in [Manager -> Nat]
      BY <1>8 DEF ProbeEnds, LocalTypeOK
    <2>2. off' \in [Manager -> BOOLEAN] /\ failures' \in [Manager -> Nat]
      <3>1. CASE UNCHANGED <<off, failures>>
        BY <3>1 DEF LocalTypeOK
      <3>2. CASE /\ off' = [off EXCEPT ![m] = FALSE]
                 /\ failures' = [failures EXCEPT ![m] = 0]
        BY <3>2 DEF LocalTypeOK
      <3> QED
        BY <1>8, <3>1, <3>2 DEF ProbeEnds
    <2>3. CASE Arm(m)
      BY <2>1, <2>2, <2>3, ArmType DEF LocalTypeOK
    <2>4. CASE armed' = [armed EXCEPT ![m] = FALSE] /\ UNCHANGED loose
      BY <2>1, <2>2, <2>4 DEF LocalTypeOK
    <2> QED
      BY <1>8, <2>3, <2>4 DEF ProbeEnds
  <1>9. ASSUME NEW m \in Manager, Destroy(m) PROVE LocalTypeOK' /\ destroyed' \subseteq Manager
    BY <1>9 DEF Destroy, LocalTypeOK
  <1>10. ASSUME NEW m \in Manager, Probe(m) \/ ProbeInVain(m) \/ ProbeEnds(m) \/ Destroy(m)
         PROVE  UNCHANGED <<up, globalVars, callVars, failed>>
                /\ (UNCHANGED destroyed \/ Destroy(m))
    BY <1>10 DEF Probe, ProbeInVain, ProbeEnds, Destroy
  <1>11. CASE Outage
    BY <1>a, <1>b, <1>c, <1>11 DEF Outage
  <1>12. CASE UNCHANGED breakerVars
    BY <1>a, <1>b, <1>c, <1>12 DEF breakerVars
  <1>14. ASSUME NEW c \in Call, NEW hit \in BOOLEAN, Answered(c, hit) \/ Failed(c) \/ Handled(c)
         PROVE  up' = up /\ destroyed' = destroyed
    BY <1>14 DEF Answered, Failed, Handled
  <1>15. ASSUME Reconnect \/ ReconnectEnds
         PROVE  UNCHANGED <<up, localVars, destroyed, callVars>> /\ failed' \in Nat
    BY <1>15 DEF Reconnect, ReconnectEnds
  <1>16. ASSUME NEW m \in Manager, Probe(m) \/ ProbeInVain(m) \/ ProbeEnds(m) \/ Destroy(m)
         PROVE  /\ LocalTypeOK' /\ GlobalTypeOK' /\ CallTypeOK'
                /\ up' \in BOOLEAN /\ destroyed' \subseteq Manager /\ failed' \in Nat
    BY <1>a, <1>c, <1>6, <1>7, <1>8, <1>9, <1>10, <1>16
  <1> QED
    BY <1>1, <1>2, <1>3, <1>4, <1>5, <1>11, <1>12, <1>14, <1>15, <1>16, <1>17 DEF BreakerNext, Background

LEMMA BreakerInitType == BreakerInit => BreakerTypeOK
  <1> SUFFICES ASSUME BreakerInit PROVE BreakerTypeOK
    OBVIOUS
  <1>1. LocalTypeOK
    BY DEF BreakerInit, LocalTypeOK
  <1>2. GlobalTypeOK
    BY DEF BreakerInit, GlobalTypeOK
  <1>3. CallTypeOK
    BY DEF BreakerInit, CallTypeOK
  <1>4. up \in BOOLEAN /\ destroyed \subseteq Manager /\ failed \in Nat
    BY DEF BreakerInit
  <1> QED
    BY <1>1, <1>2, <1>3, <1>4, TypeParts

\* Every variable of the breakers keeps its type.
THEOREM BreakerTypeCorrect == BreakerSpec => []BreakerTypeOK
  BY BreakerInitType, BreakerTypeStep, PTL DEF BreakerSpec

------------------------------------------------------------------------------
(* An open breaker is always on its way back.                              *)

OnItsWay(m) == off[m] => armed[m] \/ loose[m] > 0 \/ probes[m] > 0

LEMMA HandleOnItsWay ==
    ASSUME LocalTypeOK, NEW m \in Manager, NEW n \in Manager, OnItsWay(n), HandleRedisError(m)
    PROVE  OnItsWay(n)'
  <1>1. CASE off' = [off EXCEPT ![m] = TRUE] /\ Arm(m)
    <2>1. armed'[m] /\ armed' = [armed EXCEPT ![m] = TRUE]
      BY <1>1 DEF Arm, LocalTypeOK
    <2>2. n # m => off'[n] = off[n] /\ armed'[n] = armed[n] /\ loose'[n] = loose[n]
      BY <1>1 DEF Arm, LocalTypeOK
    <2> QED
      BY <2>1, <2>2 DEF OnItsWay, HandleRedisError
  <1>2. CASE UNCHANGED <<off, armed, loose>>
    BY <1>2 DEF OnItsWay, HandleRedisError
  <1> QED
    BY <1>1, <1>2 DEF HandleRedisError

LEMMA ResetOnItsWay ==
    ASSUME LocalTypeOK, NEW m \in Manager, NEW n \in Manager, OnItsWay(n),
           ResetRedisErrorState(m)
    PROVE  OnItsWay(n)'
  BY DEF LocalTypeOK, OnItsWay, ResetRedisErrorState

LEMMA ProbesOnItsWay ==
    ASSUME LocalTypeOK, NEW m \in Manager, NEW n \in Manager, OnItsWay(n),
           Probe(m) \/ ProbeInVain(m) \/ ProbeEnds(m)
    PROVE  OnItsWay(n)'
  <1>1. CASE Probe(m)
    <2>1. probes[m] \in Nat /\ off' = off
      BY <1>1 DEF LocalTypeOK, Probe
    <2>2. probes'[m] > 0 /\ (n # m => probes'[n] = probes[n])
      BY <1>1, <2>1 DEF LocalTypeOK, Probe
    <2>3. n # m => armed'[n] = armed[n] /\ loose'[n] = loose[n]
      BY <1>1 DEF LocalTypeOK, Probe, TimerFires
    <2> QED
      BY <2>1, <2>2, <2>3 DEF OnItsWay
  <1>2. CASE ProbeInVain(m)
    <2>1. UNCHANGED <<off, probes>>
      BY <1>2 DEF ProbeInVain
    <2>2. CASE UNCHANGED <<armed, loose>>
      BY <2>1, <2>2 DEF OnItsWay
    <2>3. CASE /\ armed' = [armed EXCEPT ![m] = TRUE]
               /\ loose' = [loose EXCEPT ![m] = LoseHandle(m) - 1]
      BY <2>1, <2>3 DEF LocalTypeOK, OnItsWay
    <2> QED
      BY <1>2, <2>2, <2>3 DEF ProbeInVain
  <1>3. CASE ProbeEnds(m)
    <2>1. n # m => /\ off'[n] = off[n] /\ armed'[n] = armed[n]
                   /\ loose'[n] = loose[n] /\ probes'[n] = probes[n]
      BY <1>3 DEF LocalTypeOK, ProbeEnds, Arm
    <2>2. ~off'[m] \/ armed'[m]
      BY <1>3 DEF LocalTypeOK, ProbeEnds, Arm
    <2> QED
      BY <2>1, <2>2 DEF OnItsWay
  <1> QED
    BY <1>1, <1>2, <1>3

\* Neither breaker is ever open with nothing scheduled to close it again.
THEOREM BreakersNeverStuck == BreakerSpec => []NeverStuck
  <1> DEFINE GlobalOnItsWay == disabled => timer \/ pings > 0
             LocalOnItsWay == \A n \in Manager \ destroyed : OnItsWay(n)
  <1>0. NeverStuck <=> GlobalOnItsWay /\ LocalOnItsWay
    BY DEF NeverStuck, OnItsWay
  <1>1. BreakerInit => GlobalOnItsWay /\ LocalOnItsWay
    BY DEF BreakerInit, OnItsWay
  <1>2. BreakerTypeOK /\ GlobalOnItsWay /\ [BreakerNext]_breakerVars => GlobalOnItsWay'
    <2> SUFFICES ASSUME GlobalTypeOK, GlobalOnItsWay, [BreakerNext]_breakerVars
                 PROVE  GlobalOnItsWay'
      BY TypeParts
    <2>1. ASSUME NEW c \in Call, NEW hit \in BOOLEAN, Answered(c, hit)
          PROVE  GlobalOnItsWay'
      <3>1. ~disabled' \/ UNCHANGED <<disabled, timer>>
        BY <2>1 DEF Answered, ResetRedisGlobalState
      <3>2. pings' = pings
        BY <2>1 DEF Answered
      <3> QED
        BY <3>1, <3>2
    <2>2. ASSUME NEW c \in Call, Failed(c) \/ Handled(c) PROVE GlobalOnItsWay'
      <3>1. NotifyRedisError(c) \/ UNCHANGED globalVars
        BY <2>2 DEF Failed, Handled
      <3>2. CountError \/ UNCHANGED globalVars
        BY <3>1 DEF NotifyRedisError
      <3>3. CASE CountError
        BY <3>3 DEF CountError, GlobalTypeOK
      <3>4. CASE UNCHANGED globalVars
        BY <3>4 DEF globalVars
      <3> QED
        BY <3>2, <3>3, <3>4
    <2>3. CASE Reconnect \/ ReconnectEnds
      <3>1. CASE Reconnect
        <4>1. disabled' = disabled
          BY <3>1 DEF Reconnect
        <4>2. timer' \/ pings' > 0
          <5>1. CASE timer' = FALSE /\ pings' = pings + 1
            BY <5>1 DEF GlobalTypeOK
          <5>2. CASE timer /\ UNCHANGED <<timer, pings>>
            BY <5>2
          <5> QED
            BY <3>1, <5>1, <5>2 DEF Reconnect
        <4> QED
          BY <4>1, <4>2
      <3>2. CASE ReconnectEnds
        <4>1. ~disabled' \/ timer'
          BY <3>2 DEF ReconnectEnds, ResetRedisGlobalState
        <4> QED
          BY <4>1
      <3> QED
        BY <2>3, <3>1, <3>2
    <2>4. ASSUME UNCHANGED globalVars PROVE GlobalOnItsWay'
      BY <2>4 DEF globalVars
    <2>5. ASSUME NEW c \in Call, NEW m \in Manager, NEW o \in Ops,
                 Send(c, m, o) \/ SendInVain(c, m, o)
          PROVE  GlobalOnItsWay'
      BY <2>4, <2>5 DEF Send, SendInVain
    <2>6. ASSUME NEW m \in Manager, Probe(m) \/ ProbeInVain(m) \/ ProbeEnds(m) \/ Destroy(m)
          PROVE  GlobalOnItsWay'
      BY <2>4, <2>6 DEF Probe, ProbeInVain, ProbeEnds, Destroy
    <2>7. CASE Outage \/ UNCHANGED breakerVars
      BY <2>4, <2>7 DEF Outage, breakerVars
    <2> QED
      BY <2>1, <2>2, <2>3, <2>5, <2>6, <2>7 DEF BreakerNext, Background
  <1>3. BreakerTypeOK /\ LocalOnItsWay /\ [BreakerNext]_breakerVars => LocalOnItsWay'
    <2> SUFFICES ASSUME LocalTypeOK, CallTypeOK, LocalOnItsWay, [BreakerNext]_breakerVars,
                        NEW n \in Manager \ destroyed', n \notin destroyed
                 PROVE  OnItsWay(n)'
      <3>1. [BreakerNext]_breakerVars => destroyed \subseteq destroyed'
        BY DEF BreakerNext, Background, breakerVars, Answered, Failed, Handled, Send, SendInVain,
               Reconnect, ReconnectEnds, Probe, ProbeInVain, ProbeEnds, Destroy, Outage
      <3> QED
        BY <3>1, TypeParts
    <2>0. OnItsWay(n)
      OBVIOUS
    <2>1. ASSUME UNCHANGED localVars PROVE OnItsWay(n)'
      BY <2>0, <2>1 DEF localVars, OnItsWay
    <2>2. ASSUME NEW c \in Call, NEW hit \in BOOLEAN, Answered(c, hit)
          PROVE  OnItsWay(n)'
      <3>1. op[c] # "none" /\ (UNCHANGED localVars \/ ResetRedisErrorState(by[c]))
        BY <2>2 DEF Answered
      <3> QED
        BY <2>0, <2>1, <3>1, OnBehalf, ResetOnItsWay
    <2>3. ASSUME NEW c \in Call, Failed(c) \/ Handled(c) PROVE OnItsWay(n)'
      <3>1. by[c] \in Manager
        <4>1. op[c] # "none" \/ thrown[c] # "none"
          BY <2>3 DEF Failed, Handled
        <4> QED
          BY <4>1, OnBehalf
      <3>2. CASE UNCHANGED localVars \/ ResetRedisErrorState(by[c])
        BY <2>0, <2>1, <3>1, <3>2, ResetOnItsWay
      <3>3. CASE HandleRedisError(by[c])
        BY <2>0, <3>1, <3>3, HandleOnItsWay
      <3> QED
        BY <2>3, <3>2, <3>3 DEF Failed, Handled
    <2>4. ASSUME NEW c \in Call, NEW m \in Manager, NEW o \in Ops,
                 Send(c, m, o) \/ SendInVain(c, m, o)
          PROVE  OnItsWay(n)'
      BY <2>0, <2>1, <2>4, ResetOnItsWay DEF Send, SendInVain
    <2>5. ASSUME NEW m \in Manager, Probe(m) \/ ProbeInVain(m) \/ ProbeEnds(m)
          PROVE  OnItsWay(n)'
      BY <2>0, <2>5, ProbesOnItsWay
    <2>6. ASSUME NEW m \in Manager, Destroy(m) PROVE OnItsWay(n)'
      BY <2>0, <2>6 DEF Destroy, OnItsWay, LocalTypeOK
    <2>7. CASE Reconnect \/ ReconnectEnds \/ Outage \/ UNCHANGED breakerVars
      BY <2>1, <2>7 DEF Reconnect, ReconnectEnds, Outage, breakerVars
    <2> QED
      BY <2>2, <2>3, <2>4, <2>5, <2>6, <2>7 DEF BreakerNext, Background
  <1> QED
    BY <1>0, <1>1, <1>2, <1>3, BreakerTypeCorrect, PTL DEF BreakerSpec

------------------------------------------------------------------------------
(* The global breaker opens at its threshold.                              *)

\* What errors counts is the failures; which errors were counted by now follows
\* from where they are.
Counts == errors = failed /\ (disabled <=> errors >= GlobalThreshold)
CountedOnce ==
    \A c \in Call :
        /\ op[c] # "none" /\ thrown[c] = "none" => c \notin counted
        /\ thrown[c] = "command" => c \in counted
        /\ thrown[c] = "client" => c \notin counted

LEMMA NewErrorCounts ==
    ASSUME GlobalTypeOK, failed \in Nat, Counts, CountError, failed' = failed + 1
    PROVE  Counts'
  <1>1. errors \in Nat /\ errors = failed /\ errors' = errors + 1
    BY DEF GlobalTypeOK, Counts, CountError
  <1>2. disabled' <=> disabled \/ errors' >= GlobalThreshold
    BY <1>1 DEF CountError
  <1>3. errors >= GlobalThreshold => errors' >= GlobalThreshold
    BY <1>1, BreakerConstantsOK
  <1>4. disabled' <=> errors' >= GlobalThreshold
    BY <1>2, <1>3 DEF Counts
  <1> QED
    BY <1>1, <1>4 DEF Counts

LEMMA OthersCountedOnce ==
    ASSUME CallTypeOK, CountedOnce, NEW c \in Call, EndCall(c),
           counted \subseteq counted', counted' \subseteq counted \cup {c}
    PROVE  CountedOnce'
  BY DEF CallTypeOK, CountedOnce, EndCall

LEMMA CountsStep ==
    BreakerTypeOK /\ Counts /\ CountedOnce /\ [BreakerNext]_breakerVars => Counts' /\ CountedOnce'
  <1> SUFFICES ASSUME GlobalTypeOK, CallTypeOK, failed \in Nat, Counts, CountedOnce,
                      [BreakerNext]_breakerVars
               PROVE  Counts' /\ CountedOnce'
    BY TypeParts
  <1>a. ASSUME UNCHANGED <<globalVars, failed>> PROVE Counts'
    BY <1>a DEF globalVars, Counts
  <1>b. ASSUME UNCHANGED callVars PROVE CountedOnce'
    BY <1>b DEF callVars, CountedOnce
  <1>c. ASSUME ResetRedisGlobalState, failed' = 0 PROVE Counts'
    BY <1>c, BreakerConstantsOK DEF ResetRedisGlobalState, Counts
  <1>1. ASSUME NEW c \in Call, NEW m \in Manager, NEW o \in Ops,
               Send(c, m, o) \/ SendInVain(c, m, o)
        PROVE  Counts' /\ CountedOnce'
    <2>1. ASSUME NEW error \in {"none", "client"}, BeginCall(c, m, o, error)
          PROVE  CountedOnce'
      BY <2>1 DEF BeginCall, CountedOnce, CallTypeOK
    <2> QED
      BY <1>a, <1>b, <1>1, <2>1 DEF Send, SendInVain
  <1>2. ASSUME NEW c \in Call, NEW hit \in BOOLEAN, Answered(c, hit)
        PROVE  Counts' /\ CountedOnce'
    <2>1. Counts'
      BY <1>c, <1>2 DEF Answered, Counts
    <2> QED
      BY <1>2, <2>1, OthersCountedOnce DEF Answered
  <1>3. ASSUME NEW c \in Call, Failed(c) PROVE Counts' /\ CountedOnce'
    <2>1. c \notin counted
      BY <1>3 DEF Failed, CountedOnce
    <2>2. CASE /\ op[c] \in Throwing /\ NotifyRedisError(c) /\ failed' = failed + 1
               /\ thrown' = [thrown EXCEPT ![c] = "command"]
               /\ UNCHANGED <<localVars, op, by>>
      <3>1. Counts'
        BY <2>1, <2>2, NewErrorCounts DEF NotifyRedisError
      <3>2. counted' = counted \cup {c}
        BY <2>1, <2>2 DEF NotifyRedisError
      <3> QED
        BY <2>2, <3>1, <3>2 DEF CountedOnce, CallTypeOK
    <2>3. CASE /\ op[c] = "set" /\ NotifyRedisError(c) /\ failed' = failed + 1
               /\ ResetRedisErrorState(by[c]) /\ EndCall(c)
      <3>1. Counts'
        BY <2>1, <2>3, NewErrorCounts DEF NotifyRedisError
      <3>2. counted' = counted \cup {c}
        BY <2>1, <2>3 DEF NotifyRedisError
      <3> QED
        BY <2>3, <3>1, <3>2, OthersCountedOnce
    <2>4. CASE EndCall(c) /\ UNCHANGED <<globalVars, counted, failed>>
      BY <1>a, <2>4, OthersCountedOnce
    <2> QED
      BY <1>3, <2>2, <2>3, <2>4 DEF Failed
  <1>4. ASSUME NEW c \in Call, Handled(c) PROVE Counts' /\ CountedOnce'
    <2>1. CASE thrown[c] = "command"
      <3>1. c \in counted /\ failed' = failed
        BY <1>4, <2>1 DEF Handled, CountedOnce
      <3>2. UNCHANGED <<globalVars, counted>>
        BY <1>4, <3>1 DEF Handled, NotifyRedisError
      <3> QED
        BY <1>a, <1>4, <3>1, <3>2, OthersCountedOnce DEF Handled
    <2>2. CASE thrown[c] = "client"
      <3>1. c \notin counted /\ failed' = failed + 1
        BY <1>4, <2>2 DEF Handled, CountedOnce
      <3>2. CountError /\ counted' = counted \cup {c}
        BY <1>4, <3>1 DEF Handled, NotifyRedisError
      <3> QED
        BY <1>4, <3>1, <3>2, NewErrorCounts, OthersCountedOnce DEF Handled
    <2> QED
      BY <1>4, <2>1, <2>2 DEF Handled, CallTypeOK
  <1>5. CASE Reconnect \/ ReconnectEnds
    <2>1. UNCHANGED callVars
      BY <1>5 DEF Reconnect, ReconnectEnds
    <2>2. Counts'
      BY <1>c, <1>5 DEF Reconnect, ReconnectEnds, Counts
    <2> QED
      BY <1>b, <2>1, <2>2
  <1>6. ASSUME NEW m \in Manager, Probe(m) \/ ProbeInVain(m) \/ ProbeEnds(m) \/ Destroy(m)
        PROVE  Counts' /\ CountedOnce'
    BY <1>a, <1>b, <1>6 DEF Probe, ProbeInVain, ProbeEnds, Destroy
  <1>7. CASE Outage \/ UNCHANGED breakerVars
    BY <1>a, <1>b, <1>7 DEF Outage, breakerVars
  <1> QED
    BY <1>1, <1>2, <1>3, <1>4, <1>5, <1>6, <1>7 DEF BreakerNext, Background

\* The global breaker is open if and only if GlobalThreshold failures have come
\* in since the last answer that resets the count, each counted once however its
\* two reports and the answers to other calls are interleaved.
THEOREM GlobalTripsAtThreshold == BreakerSpec => []TripsAtThreshold
  <1>1. BreakerInit => Counts /\ CountedOnce
    BY BreakerConstantsOK DEF BreakerInit, Counts, CountedOnce
  <1>2. Counts => TripsAtThreshold
    BY DEF Counts, TripsAtThreshold
  <1> QED
    BY <1>1, <1>2, CountsStep, BreakerTypeCorrect, PTL DEF BreakerSpec

------------------------------------------------------------------------------
(* The hybrid cache uses the breakers as RedisBreaker says.                *)

LEMMA BreakerStep == [HybridNext]_hybridVars => [BreakerNext]_breakerVars
  <1> SUFFICES ASSUME [HybridNext]_hybridVars PROVE [BreakerNext]_breakerVars
    OBVIOUS
  <1>0. Hybrid \in Manager /\ Methods \subseteq Ops
    BY HybridConstantsOK DEF Methods, Ops
  <1>1. ASSUME NEW c \in Call, NEW o \in Methods, CallMemory(c, o) PROVE UNCHANGED breakerVars
    BY <1>1 DEF CallMemory
  <1>2. ASSUME NEW c \in Call, NEW o \in Methods, CallRedis(c, o) \/ CallInVain(c, o)
        PROVE  BreakerNext
    BY <1>0, <1>2 DEF CallRedis, CallInVain, BreakerNext
  <1>3. ASSUME NEW c \in Call, Execute(c) PROVE UNCHANGED breakerVars
    BY <1>3 DEF Execute
  <1>4. ASSUME NEW c \in Call, Reply(c) PROVE BreakerNext
    <2>1. (reply[c] = "yes") \in BOOLEAN
      OBVIOUS
    <2> QED
      BY <1>4, <2>1 DEF Reply, BreakerNext
  <1>5. ASSUME NEW c \in Call, Fail(c) \/ FallBack(c) PROVE BreakerNext
    BY <1>5 DEF Fail, FallBack, BreakerNext
  <1>6. CASE Background
    BY <1>6 DEF BreakerNext
  <1>7. CASE UNCHANGED hybridVars
    BY <1>7 DEF hybridVars
  <1> QED
    BY <1>1, <1>2, <1>3, <1>4, <1>5, <1>6, <1>7 DEF HybridNext

\* The calls of a hybrid cache are calls of RedisBreaker, so what is proved
\* of the breakers holds of a cache in use.
THEOREM ImplementsBreaker == HybridSpec => BreakerSpec
  <1>1. HybridInit => BreakerInit
    BY DEF HybridInit
  <1> QED
    BY <1>1, BreakerStep, PTL DEF HybridSpec, BreakerSpec

------------------------------------------------------------------------------
(* Type correctness.                                                       *)

Results == {"none", "hit", "miss", "stored", "won", "lost", "threw"}

DataTypeOK ==
    /\ mode \in Modes
    /\ redis \in BOOLEAN /\ memory \in BOOLEAN /\ kept \in BOOLEAN
    /\ calm \in BOOLEAN
    /\ reply \in [Call -> {"none", "yes", "no"}]
    /\ result \in [Call -> Results]
    /\ wins \in [{"redis", "memory"} -> Nat]
    /\ began \in [Call -> [kept : BOOLEAN, claimed : BOOLEAN]]

ByHybrid == \A c \in Call : op[c] \in Methods \cup {"none"} /\ by[c] \in {Hybrid, None}

LEMMA HybridTypeParts == HybridTypeOK <=> BreakerTypeOK /\ DataTypeOK /\ ByHybrid
  BY DEF HybridTypeOK, DataTypeOK, ByHybrid, Results

LEMMA ReturnTypes ==
    ASSUME DataTypeOK, NEW c \in Call, NEW r \in Results, Return(c, r)
    PROVE  /\ reply' \in [Call -> {"none", "yes", "no"}]
           /\ result' \in [Call -> Results] /\ kept' \in BOOLEAN
  BY DEF DataTypeOK, Return

LEMMA WinTypes ==
    ASSUME DataTypeOK, NEW where \in {"redis", "memory"}, UNCHANGED wins \/ Won(where)
    PROVE  wins' \in [{"redis", "memory"} -> Nat]
  BY DEF DataTypeOK, Won

LEMMA BeganTypes ==
    ASSUME DataTypeOK, NEW c \in Call, Began(c)
    PROVE  began' \in [Call -> [kept : BOOLEAN, claimed : BOOLEAN]]
  <1>1. (wins.redis > 0) \in BOOLEAN
    OBVIOUS
  <1> QED
    BY <1>1 DEF DataTypeOK, Began

------------------------------------------------------------------------------
(* Each action in a normal form: which of the data it may change, and how. *)

\* Call c returned r and did not begin anew.
Returned(c, r) ==
    /\ Return(c, r) /\ UNCHANGED <<mode, redis>>
    /\ memory => memory'
    /\ memory' \in BOOLEAN
    /\ r = "won" \/ UNCHANGED wins

\* Redis has granted the key to c, who does not know yet.
Ticket(c) == op[c] = "setIfNotExists" /\ reply[c] = "yes"

\* Trouble does not come without an error, and does not go away.
Quiet ==
    /\ calm' => calm
    /\ \A d \in Call : thrown'[d] # "none" => thrown[d] # "none" \/ ~calm'

\* Call c is served in one go.
Instant(c) ==
    /\ op[c] = "none" /\ UNCHANGED <<op, by>> /\ Began(c) /\ Quiet
    /\ \/ ~RedisUsable(Hybrid) /\ UNCHANGED <<disabled, off>>
       \/ ~calm'
    /\ \E r \in Results \ {"none", "threw"} :
           /\ Returned(c, r)
           /\ r = "miss" => ~memory
           /\ r = "stored" => memory' \/ ~mode.toMemory
           /\ r = "won" => ~memory /\ memory' /\ Won("memory")

\* Call c begins, and will learn from Redis, or from an error, what it returns.
Sent(c, o) ==
    /\ op[c] = "none" /\ op' = [op EXCEPT ![c] = o] /\ by' = [by EXCEPT ![c] = Hybrid]
    /\ Began(c) /\ Quiet
    /\ result' = [result EXCEPT ![c] = "none"]
    /\ memory' = (memory \/ (o = "set" /\ mode.toMemory))
    /\ UNCHANGED <<mode, redis, reply, kept, wins>>
    /\ UNCHANGED <<disabled, off>> \/ ~calm'

\* The command of call c has failed, whose error is on its way.
Threw(c) ==
    /\ UNCHANGED <<op, by, mode, redis, memory, result, kept, wins, began>>
    /\ reply' = [reply EXCEPT ![c] = "none"]
    /\ ~calm'

\* Call c, which was waiting for Redis or for an error, returns.
Ended(c) ==
    /\ op' = [op EXCEPT ![c] = "none"] /\ by' = [by EXCEPT ![c] = None]
    /\ UNCHANGED began /\ Quiet
    /\ \/ \E hit \in BOOLEAN : Answered(c, hit)
       \/ ~calm' \/ thrown[c] # "none"
    /\ \E r \in Results \ {"none"} :
           /\ Returned(c, r)
           /\ r = "miss" => ~memory
           /\ r = "stored" => op[c] = "set" \/ memory'
           /\ r = "won" => \/ /\ Ticket(c) /\ Won("redis") /\ RememberClaim
                          \/ /\ ~memory /\ memory' /\ Won("memory")
                             /\ ~calm' \/ thrown[c] # "none"

LEMMA ReplyOutcome ==
    ASSUME DataTypeOK, ByHybrid, NEW c \in Call, Reply(c)
    PROVE  \E r \in Results \ {"none", "threw"} :
               /\ Returned(c, r) /\ UNCHANGED <<began, calm>>
               /\ r = "miss" => ~memory /\ op[c] \in Lookups
               /\ r = "stored" => op[c] = "set"
               /\ r = "won" => /\ op[c] = "setIfNotExists" /\ reply[c] = "yes"
                               /\ Won("redis") /\ RememberClaim
  <1>0. op[c] # "none" => op[c] \in Methods
    BY DEF ByHybrid
  <1>1. mode.toMemory \in BOOLEAN
    BY HybridConstantsOK DEF DataTypeOK, ModeConfig
  <1>2. CASE op[c] \in Lookups /\ reply[c] = "no" /\ InMemory(c, op[c])
    BY <1>2 DEF Reply, Returned, InMemory, Lookups, Results, DataTypeOK
  <1>3. CASE /\ op[c] \in Lookups /\ reply[c] = "yes" /\ Return(c, "hit")
             /\ UNCHANGED <<memory, wins>>
    BY <1>3 DEF Reply, Returned, Results, DataTypeOK
  <1>4. CASE op[c] = "set" /\ Return(c, "stored") /\ UNCHANGED <<memory, wins>>
    BY <1>4 DEF Reply, Returned, Results, DataTypeOK
  <1>5. CASE /\ op[c] = "setIfNotExists" /\ reply[c] = "yes"
             /\ Return(c, "won") /\ Won("redis") /\ RememberClaim
    <2>1. (memory => memory') /\ memory' \in BOOLEAN
      BY <1>1, <1>5 DEF RememberClaim, DataTypeOK
    <2> QED
      BY <1>5, <2>1 DEF Reply, Returned, Results
  <1>6. CASE /\ op[c] = "setIfNotExists" /\ reply[c] = "no" /\ Return(c, "lost")
             /\ UNCHANGED <<memory, wins>>
    BY <1>6 DEF Reply, Returned, Results, DataTypeOK
  <1> QED
    BY <1>2, <1>3, <1>4, <1>5, <1>6 DEF Reply

LEMMA MemoryOutcome ==
    ASSUME DataTypeOK, NEW c \in Call, NEW o \in Methods, InMemory(c, o),
           UNCHANGED <<mode, redis>>
    PROVE  \E r \in Results \ {"none", "threw"} :
               /\ Returned(c, r)
               /\ r = "miss" => ~memory /\ o \in Lookups
               /\ r = "stored" => memory'
               /\ r = "won" => /\ o = "setIfNotExists" /\ ~memory /\ memory'
                               /\ Won("memory")
  <1>1. CASE /\ o \in Lookups /\ Return(c, IF memory THEN "hit" ELSE "miss")
             /\ UNCHANGED <<memory, wins>>
    BY <1>1 DEF Returned, Results, DataTypeOK, Lookups
  <1>2. CASE o = "set" /\ Return(c, "stored") /\ memory' = TRUE /\ UNCHANGED wins
    BY <1>2 DEF Returned, Results
  <1>3. CASE o = "setIfNotExists" /\ memory /\ Return(c, "lost") /\ UNCHANGED <<memory, wins>>
    BY <1>3 DEF Returned, Results, DataTypeOK
  <1>4. CASE /\ o = "setIfNotExists" /\ ~memory /\ Return(c, "won") /\ Won("memory")
             /\ memory' = TRUE
    BY <1>4 DEF Returned, Results
  <1> QED
    BY <1>1, <1>2, <1>3, <1>4 DEF InMemory

LEMMA CallMemoryInstant ==
    ASSUME DataTypeOK, NEW c \in Call, NEW o \in Methods, CallMemory(c, o)
    PROVE  Instant(c)
  <1>1. PICK r \in Results \ {"none", "threw"} :
            /\ Returned(c, r) /\ (r = "miss" => ~memory)
            /\ r = "stored" => memory'
            /\ r = "won" => ~memory /\ memory' /\ Won("memory")
    BY MemoryOutcome DEF CallMemory
  <1>2. /\ op[c] = "none" /\ ~RedisUsable(Hybrid) /\ Began(c)
        /\ UNCHANGED <<op, by, thrown, disabled, off, calm>>
    BY DEF CallMemory, breakerVars, callVars, globalVars, localVars
  <1> QED
    BY <1>1, <1>2 DEF Instant, Quiet

LEMMA CallInVainForm ==
    ASSUME DataTypeOK, CallTypeOK, NEW c \in Call, NEW o \in Methods, CallInVain(c, o)
    PROVE  Instant(c) \/ Sent(c, o)
  <1>0. mode.toMemory \in BOOLEAN
    BY HybridConstantsOK DEF DataTypeOK, ModeConfig
  <1>1. op[c] = "none" /\ Began(c) /\ ~calm' /\ UNCHANGED <<mode, redis, wins>>
    BY DEF CallInVain, SendInVain
  <1>2. CASE o = "set"
    <2>1. UNCHANGED <<op, by, thrown>>
      BY <1>2 DEF CallInVain, SendInVain, Throwing, callVars
    <2>2. Return(c, "stored") /\ memory' = (memory \/ mode.toMemory)
      BY <1>2 DEF CallInVain
    <2>3. Returned(c, "stored") /\ (memory' \/ ~mode.toMemory)
      BY <1>0, <1>1, <2>2 DEF Returned, DataTypeOK
    <2>4. "stored" \in Results \ {"none", "threw"} /\ "stored" # "miss" /\ "stored" # "won"
      BY DEF Results
    <2>5. Quiet
      BY <1>1, <2>1 DEF Quiet
    <2> QED
      BY <1>1, <2>1, <2>3, <2>4, <2>5 DEF Instant
  <1>3. CASE o # "set"
    <2>1. /\ result' = [result EXCEPT ![c] = "none"] /\ UNCHANGED <<memory, reply, kept>>
      BY <1>3 DEF CallInVain
    <2>2. BeginCall(c, Hybrid, o, "client")
      BY <1>3 DEF CallInVain, SendInVain, Methods
    <2>3. op' = [op EXCEPT ![c] = o] /\ by' = [by EXCEPT ![c] = Hybrid]
      BY <2>2 DEF BeginCall
    <2>4. memory' = (memory \/ (o = "set" /\ mode.toMemory))
      BY <1>3, <2>1 DEF DataTypeOK
    <2>5. Quiet
      BY <1>1 DEF Quiet
    <2> QED
      BY <1>1, <2>1, <2>3, <2>4, <2>5 DEF Sent
  <1> QED
    BY <1>2, <1>3

LEMMA CallRedisSent ==
    ASSUME CallTypeOK, NEW c \in Call, NEW o \in Methods, CallRedis(c, o)
    PROVE  Sent(c, o)
  <1>1. /\ op[c] = "none" /\ BeginCall(c, Hybrid, o, "none")
        /\ UNCHANGED <<disabled, off, calm>>
    BY DEF CallRedis, Send, globalVars, localVars
  <1>2. /\ op' = [op EXCEPT ![c] = o] /\ by' = [by EXCEPT ![c] = Hybrid]
        /\ \A d \in Call : thrown'[d] # "none" => thrown[d] # "none"
    BY <1>1 DEF BeginCall, CallTypeOK
  <1>3. Quiet
    BY <1>1, <1>2 DEF Quiet
  <1> QED
    BY <1>1, <1>2, <1>3 DEF Sent, CallRedis

LEMMA CallEnds ==
    ASSUME CallTypeOK, NEW c \in Call, EndCall(c), calm' => calm
    PROVE  /\ op' = [op EXCEPT ![c] = "none"] /\ by' = [by EXCEPT ![c] = None]
           /\ Quiet
  BY DEF CallTypeOK, EndCall, Quiet

LEMMA ReplyEnded ==
    ASSUME CallTypeOK, DataTypeOK, ByHybrid, NEW c \in Call, Reply(c)
    PROVE  Ended(c)
  <1>1. PICK r \in Results \ {"none", "threw"} :
            /\ Returned(c, r) /\ UNCHANGED <<began, calm>>
            /\ r = "miss" => ~memory /\ op[c] \in Lookups
            /\ r = "stored" => op[c] = "set"
            /\ r = "won" => /\ op[c] = "setIfNotExists" /\ reply[c] = "yes"
                            /\ Won("redis") /\ RememberClaim
    BY ReplyOutcome
  <1>2. Answered(c, reply[c] = "yes") /\ (reply[c] = "yes") \in BOOLEAN
    BY DEF Reply
  <1>3. EndCall(c)
    BY <1>2 DEF Answered
  <1>4. /\ op' = [op EXCEPT ![c] = "none"] /\ by' = [by EXCEPT ![c] = None]
        /\ Quiet
    BY <1>1, <1>3, CallEnds
  <1> QED
    BY <1>1, <1>2, <1>4 DEF Ended, Ticket

LEMMA FailForm ==
    ASSUME CallTypeOK, DataTypeOK, ByHybrid, NEW c \in Call, Fail(c)
    PROVE  Threw(c) \/ Ended(c)
  <1>1. ~calm' /\ UNCHANGED <<mode, redis, memory, wins, began>> /\ op[c] # "none"
    BY DEF Fail, Failed
  <1>2. CASE op[c] = "set"
    <2>1. EndCall(c)
      BY <1>2 DEF Fail, Failed, Throwing
    <2>2. /\ op' = [op EXCEPT ![c] = "none"] /\ by' = [by EXCEPT ![c] = None]
          /\ Quiet
      BY <1>1, <2>1, CallEnds
    <2>3. Returned(c, "stored")
      BY <1>1, <1>2 DEF Fail, Returned, DataTypeOK
    <2>4. "stored" \in Results \ {"none"} /\ "stored" # "miss" /\ "stored" # "won"
      BY DEF Results
    <2> QED
      BY <1>1, <1>2, <2>2, <2>3, <2>4 DEF Ended
  <1>3. CASE op[c] # "set"
    <2>1. op[c] \in Throwing /\ op[c] # "increment" /\ op[c] # "checkConnection"
      BY <1>1, <1>3 DEF ByHybrid, Methods, Throwing
    <2>2. UNCHANGED <<op, by>>
      BY <1>3, <2>1 DEF Fail, Failed
    <2>3. reply' = [reply EXCEPT ![c] = "none"] /\ UNCHANGED <<result, kept>>
      BY <1>3 DEF Fail
    <2> QED
      BY <1>1, <2>2, <2>3 DEF Threw
  <1> QED
    BY <1>2, <1>3

LEMMA FallBackEnded ==
    ASSUME CallTypeOK, DataTypeOK, NEW c \in Call, FallBack(c)
    PROVE  Ended(c)
  <1>1. UNCHANGED <<mode, redis, began, calm>> /\ thrown[c] # "none" /\ EndCall(c)
    BY DEF FallBack, Handled
  <1>2. /\ op' = [op EXCEPT ![c] = "none"] /\ by' = [by EXCEPT ![c] = None]
        /\ Quiet
    BY <1>1, CallEnds
  <1>3. CASE op[c] \in Lookups \cup {"setIfNotExists"} /\ InMemory(c, op[c])
    <2>1. op[c] \in Methods
      BY <1>3 DEF Lookups, Methods
    <2>2. PICK r \in Results \ {"none", "threw"} :
              /\ Returned(c, r)
              /\ r = "miss" => ~memory /\ op[c] \in Lookups
              /\ r = "stored" => memory'
              /\ r = "won" => /\ op[c] = "setIfNotExists" /\ ~memory /\ memory'
                              /\ Won("memory")
      BY <1>1, <1>3, <2>1, MemoryOutcome
    <2> QED
      BY <1>1, <1>2, <2>2 DEF Ended
  <1>4. CASE Return(c, "threw") /\ UNCHANGED <<memory, wins>>
    <2>1. Returned(c, "threw")
      BY <1>1, <1>4 DEF Returned, DataTypeOK
    <2>2. "threw" \in Results \ {"none"} /\ "threw" \notin {"miss", "stored", "won"}
      BY DEF Results
    <2> QED
      BY <1>1, <1>2, <2>1, <2>2 DEF Ended
  <1> QED
    BY <1>3, <1>4 DEF FallBack

\* Every step of the cache has one of these forms.
LEMMA Forms ==
    ASSUME CallTypeOK, DataTypeOK, ByHybrid, [HybridNext]_hybridVars
    PROVE  \/ \E c \in Call : Instant(c)
           \/ \E c \in Call, o \in Methods : Sent(c, o)
           \/ \E c \in Call : Execute(c) \/ Threw(c) \/ Ended(c)
           \/ Background /\ UNCHANGED dataVars
           \/ UNCHANGED hybridVars
  BY CallMemoryInstant, CallInVainForm, CallRedisSent, ReplyEnded, FailForm, FallBackEnded
     DEF HybridNext

LEMMA BackgroundCalls == Background => UNCHANGED callVars
  <1>1. Reconnect \/ ReconnectEnds \/ Outage => UNCHANGED callVars
    BY DEF Reconnect, ReconnectEnds, Outage
  <1>2. ASSUME NEW m \in Manager, Probe(m) \/ ProbeInVain(m) \/ ProbeEnds(m) \/ Destroy(m)
        PROVE  UNCHANGED callVars
    BY <1>2 DEF Probe, ProbeInVain, ProbeEnds, Destroy
  <1> QED
    BY <1>1, <1>2 DEF Background

LEMMA ReturnedTypes ==
    ASSUME DataTypeOK, NEW c \in Call, NEW r \in Results, Returned(c, r),
           wins' \in [{"redis", "memory"} -> Nat], calm' \in BOOLEAN,
           began' \in [Call -> [kept : BOOLEAN, claimed : BOOLEAN]]
    PROVE  DataTypeOK'
  <1>1. /\ reply' \in [Call -> {"none", "yes", "no"}]
        /\ result' \in [Call -> Results] /\ kept' \in BOOLEAN
    BY ReturnTypes DEF Returned
  <1>2. mode' \in Modes /\ redis' \in BOOLEAN /\ memory' \in BOOLEAN
    <2>1. mode' = mode /\ redis' = redis /\ memory' \in BOOLEAN
      BY DEF Returned
    <2> QED
      BY <2>1 DEF DataTypeOK
  <1> QED
    BY <1>1, <1>2 DEF DataTypeOK

LEMMA HybridTypeStep ==
    HybridTypeOK /\ [HybridNext]_hybridVars => HybridTypeOK'
  <1> SUFFICES ASSUME BreakerTypeOK, DataTypeOK, ByHybrid, [HybridNext]_hybridVars
               PROVE  DataTypeOK' /\ ByHybrid'
    BY BreakerStep, BreakerTypeStep DEF HybridTypeOK, DataTypeOK, ByHybrid, Results
  <1>0. CallTypeOK
    BY TypeParts
  <1>d. calm' \in BOOLEAN
    BY DEF HybridNext, CallMemory, CallRedis, CallInVain, Execute, Reply, Fail, FallBack,
           hybridVars, dataVars, DataTypeOK
  <1>a. ASSUME UNCHANGED dataVars PROVE DataTypeOK'
    <2>1. UNCHANGED <<mode, redis, memory, kept, calm>>
      BY <1>a DEF dataVars
    <2>2. UNCHANGED <<reply, result, wins, began>>
      BY <1>a DEF dataVars
    <2>3. mode' \in Modes /\ redis' \in BOOLEAN /\ memory' \in BOOLEAN /\ kept' \in BOOLEAN
          /\ calm' \in BOOLEAN
      BY <2>1 DEF DataTypeOK
    <2> QED
      BY <2>2, <2>3 DEF DataTypeOK
  <1>b. ASSUME UNCHANGED callVars PROVE ByHybrid'
    BY <1>b DEF callVars, ByHybrid
  <1>1. ASSUME NEW c \in Call, Instant(c)
        PROVE  DataTypeOK' /\ ByHybrid'
    <2>1. PICK r \in Results \ {"none", "threw"} :
              Returned(c, r) /\ (r = "won" => Won("memory"))
      BY <1>1 DEF Instant
    <2>2. wins' \in [{"redis", "memory"} -> Nat]
      BY <2>1, WinTypes DEF Returned
    <2>3. began' \in [Call -> [kept : BOOLEAN, claimed : BOOLEAN]]
      BY <1>1, BeganTypes DEF Instant
    <2>4. UNCHANGED <<op, by>>
      BY <1>1 DEF Instant
    <2>5. DataTypeOK'
      BY <1>d, <2>1, <2>2, <2>3, ReturnedTypes
    <2> QED
      BY <2>4, <2>5 DEF ByHybrid
  <1>2. ASSUME NEW c \in Call, NEW o \in Methods, Sent(c, o)
        PROVE  DataTypeOK' /\ ByHybrid'
    <2>1. began' \in [Call -> [kept : BOOLEAN, claimed : BOOLEAN]]
      BY <1>2, BeganTypes DEF Sent
    <2>2. memory' \in BOOLEAN
      <3>1. mode.toMemory \in BOOLEAN
        BY HybridConstantsOK DEF DataTypeOK, ModeConfig
      <3> QED
        BY <1>2, <3>1 DEF Sent, DataTypeOK
    <2>3. result' \in [Call -> Results]
      BY <1>2 DEF Sent, DataTypeOK, Results
    <2>4. DataTypeOK'
      <3>1. UNCHANGED <<mode, redis, reply, kept, wins>>
        BY <1>2 DEF Sent
      <3> QED
        BY <1>d, <2>1, <2>2, <2>3, <3>1 DEF DataTypeOK
    <2>5. op' = [op EXCEPT ![c] = o] /\ by' = [by EXCEPT ![c] = Hybrid]
      BY <1>2 DEF Sent
    <2>6. ByHybrid'
      BY <1>0, <2>5 DEF ByHybrid, CallTypeOK
    <2> QED
      BY <2>4, <2>6
  <1>3. ASSUME NEW c \in Call, Execute(c) PROVE DataTypeOK' /\ ByHybrid'
    <2>1. UNCHANGED <<op, by, mode, memory, result, kept, wins, began, calm>>
      BY <1>3 DEF Execute, breakerVars, callVars
    <2>2. redis' \in BOOLEAN /\ reply' \in [Call -> {"none", "yes", "no"}]
      BY <1>3 DEF Execute, DataTypeOK
    <2> QED
      BY <2>1, <2>2 DEF DataTypeOK, ByHybrid
  <1>4. ASSUME NEW c \in Call, Ended(c) PROVE DataTypeOK' /\ ByHybrid'
    <2>1. PICK r \in Results :
              Returned(c, r) /\ (r = "won" => Won("redis") \/ Won("memory"))
      BY <1>4 DEF Ended
    <2>2. wins' \in [{"redis", "memory"} -> Nat]
      BY <2>1, WinTypes DEF Returned
    <2>3. UNCHANGED began
      BY <1>4 DEF Ended
    <2>4. DataTypeOK'
      BY <1>d, <2>1, <2>2, <2>3, ReturnedTypes DEF DataTypeOK
    <2>5. ByHybrid'
      BY <1>0, <1>4 DEF Ended, ByHybrid, CallTypeOK
    <2> QED
      BY <2>4, <2>5
  <1>7. ASSUME NEW c \in Call, Threw(c) PROVE DataTypeOK' /\ ByHybrid'
    <2>1. reply' \in [Call -> {"none", "yes", "no"}]
      BY <1>7 DEF Threw, DataTypeOK
    <2>2. UNCHANGED <<op, by, mode, redis, memory, result, kept, wins, began>>
      BY <1>7 DEF Threw
    <2> QED
      BY <1>d, <2>1, <2>2 DEF DataTypeOK, ByHybrid
  <1>5. CASE Background /\ UNCHANGED dataVars
    BY <1>a, <1>b, <1>5, BackgroundCalls
  <1>6. CASE UNCHANGED hybridVars
    BY <1>a, <1>b, <1>6 DEF hybridVars, breakerVars
  <1> QED
    BY <1>0, <1>1, <1>2, <1>3, <1>4, <1>5, <1>6, <1>7, Forms

\* Every variable of the hybrid cache keeps its type.
THEOREM HybridTypeCorrect == HybridSpec => []HybridTypeOK
  <1>1. HybridInit => HybridTypeOK
    <2> SUFFICES ASSUME HybridInit PROVE BreakerTypeOK /\ DataTypeOK /\ ByHybrid
      BY HybridTypeParts
    <2>1. BreakerTypeOK
      BY BreakerInitType DEF HybridInit
    <2>2. DataTypeOK
      <3>1. wins \in [{"redis", "memory"} -> Nat]
        BY DEF HybridInit, NoWins
      <3>2. began \in [Call -> [kept : BOOLEAN, claimed : BOOLEAN]]
        BY DEF HybridInit
      <3> QED
        BY <3>1, <3>2 DEF HybridInit, DataTypeOK, Results
    <2>3. ByHybrid
      BY DEF HybridInit, BreakerInit, ByHybrid
    <2> QED
      BY <2>1, <2>2, <2>3
  <1> QED
    BY <1>1, HybridTypeStep, PTL DEF HybridSpec

------------------------------------------------------------------------------
(* Marks are found.                                                        *)

\* What a set or a claim has promised is in memory, which never forgets; a
\* set still on its way to Redis has written it already.
Kept ==
    /\ kept => memory
    /\ \A c \in Call : op[c] = "set" => memory
KeptBefore == \A c \in Call : began[c].kept => kept
Marked == mode.toMemory => Kept /\ \A c \in Call : result[c] = "miss" => ~began[c].kept

LEMMA ReturnKept ==
    ASSUME DataTypeOK, NEW c \in Call, NEW r \in Results, Return(c, r)
    PROVE  /\ kept => kept'
           /\ kept' => kept \/ r \in {"stored", "won"}
           /\ result'[c] = r
           /\ \A d \in Call \ {c} : result'[d] = result[d]
  BY DEF DataTypeOK, Return

LEMMA BeganKept ==
    ASSUME DataTypeOK, NEW c \in Call, Began(c)
    PROVE  /\ began'[c].kept = kept /\ began'[c].claimed = (wins.redis > 0)
           /\ \A d \in Call \ {c} : began'[d] = began[d]
  BY DEF DataTypeOK, Began

LEMMA MarkedStep ==
    HybridTypeOK /\ Marked /\ KeptBefore /\ [HybridNext]_hybridVars => Marked' /\ KeptBefore'
  <1> SUFFICES ASSUME CallTypeOK, DataTypeOK, ByHybrid, Marked, KeptBefore,
                      [HybridNext]_hybridVars
               PROVE  Marked' /\ KeptBefore'
    BY HybridTypeParts, TypeParts
  <1>1. ASSUME NEW c \in Call, Instant(c)
        PROVE  Marked' /\ KeptBefore'
    <2>1. PICK r \in Results \ {"none", "threw"} :
              /\ Returned(c, r) /\ (r = "miss" => ~memory)
              /\ r \in {"stored", "won"} => memory' \/ ~mode.toMemory
      BY <1>1 DEF Instant
    <2>2. /\ op' = op /\ mode' = mode /\ (memory => memory')
      BY <1>1, <2>1 DEF Instant, Returned
    <2>3. /\ kept => kept'
          /\ kept' => kept \/ r \in {"stored", "won"}
          /\ result'[c] = r
          /\ \A d \in Call \ {c} : result'[d] = result[d]
      BY <2>1, ReturnKept DEF Returned
    <2>4. began'[c].kept = kept /\ \A d \in Call \ {c} : began'[d] = began[d]
      BY <1>1, BeganKept DEF Instant
    <2>5. KeptBefore'
      BY <2>3, <2>4 DEF KeptBefore
    <2>6. ASSUME mode.toMemory PROVE Kept'
      BY <2>1, <2>2, <2>3, <2>6 DEF Marked, Kept
    <2>7. ASSUME mode.toMemory, NEW d \in Call, result'[d] = "miss" PROVE ~began'[d].kept
      BY <2>1, <2>3, <2>4, <2>7 DEF Marked, Kept
    <2> QED
      BY <2>2, <2>5, <2>6, <2>7 DEF Marked
  <1>2. ASSUME NEW c \in Call, NEW o \in Methods, Sent(c, o)
        PROVE  Marked' /\ KeptBefore'
    <2>1. op' = [op EXCEPT ![c] = o]
      BY <1>2 DEF Sent
    <2>2. /\ result' = [result EXCEPT ![c] = "none"] /\ UNCHANGED <<mode, kept>>
          /\ memory' = (memory \/ (o = "set" /\ mode.toMemory))
      BY <1>2 DEF Sent
    <2>3. began'[c].kept = kept /\ \A d \in Call \ {c} : began'[d] = began[d]
      BY <1>2, BeganKept DEF Sent
    <2>4. KeptBefore'
      BY <2>2, <2>3 DEF KeptBefore
    <2>5. ASSUME mode.toMemory PROVE Kept'
      BY <2>1, <2>2, <2>5 DEF Marked, Kept, CallTypeOK
    <2>6. ASSUME mode.toMemory, NEW d \in Call, result'[d] = "miss" PROVE ~began'[d].kept
      BY <2>2, <2>3, <2>6 DEF Marked, DataTypeOK
    <2> QED
      BY <2>2, <2>4, <2>5, <2>6 DEF Marked
  <1>3. ASSUME NEW c \in Call, Execute(c) \/ Threw(c) PROVE Marked' /\ KeptBefore'
    BY <1>3 DEF Execute, Threw, breakerVars, callVars, Marked, Kept, KeptBefore
  <1>4. ASSUME NEW c \in Call, Ended(c) PROVE Marked' /\ KeptBefore'
    <2>1. PICK r \in Results \ {"none"} :
              /\ Returned(c, r) /\ (r = "miss" => ~memory)
              /\ r = "stored" => op[c] = "set" \/ memory'
              /\ r = "won" => memory' \/ RememberClaim
      BY <1>4 DEF Ended
    <2>2. /\ op' = [op EXCEPT ![c] = "none"] /\ UNCHANGED began
          /\ mode' = mode /\ (memory => memory')
      BY <1>4, <2>1 DEF Ended, Returned
    <2>3. /\ kept => kept'
          /\ kept' => kept \/ r \in {"stored", "won"}
          /\ result'[c] = r
          /\ \A d \in Call \ {c} : result'[d] = result[d]
      BY <2>1, ReturnKept DEF Returned
    <2>4. KeptBefore'
      BY <2>2, <2>3 DEF KeptBefore
    <2>5. ASSUME mode.toMemory PROVE Kept'
      <3>1. r \in {"stored", "won"} => memory'
        BY <2>1, <2>2, <2>5 DEF Marked, Kept, RememberClaim
      <3>2. \A d \in Call : op'[d] = "set" => op[d] = "set"
        BY <2>2 DEF CallTypeOK
      <3> QED
        BY <2>2, <2>3, <2>5, <3>1, <3>2 DEF Marked, Kept
    <2>6. ASSUME mode.toMemory, NEW d \in Call, result'[d] = "miss" PROVE ~began'[d].kept
      BY <2>1, <2>2, <2>3, <2>6 DEF Marked, Kept, KeptBefore
    <2> QED
      BY <2>2, <2>4, <2>5, <2>6 DEF Marked
  <1>5. CASE Background /\ UNCHANGED dataVars
    BY <1>5, BackgroundCalls DEF callVars, dataVars, Marked, Kept, KeptBefore
  <1>6. CASE UNCHANGED hybridVars
    BY <1>6 DEF hybridVars, breakerVars, callVars, dataVars, Marked, Kept, KeptBefore
  <1> QED
    BY <1>1, <1>2, <1>3, <1>4, <1>5, <1>6, Forms

\* With writeToMemory no lookup overlooks a mark that was kept before it.
THEOREM MarksAreFound == HybridSpec => []MarkIsFound
  <1>1. HybridInit => Marked /\ KeptBefore
    BY DEF HybridInit, BreakerInit, Marked, Kept, KeptBefore
  <1>2. Marked => MarkIsFound
    BY DEF Marked, MarkIsFound
  <1> QED
    BY <1>1, <1>2, MarkedStep, HybridTypeCorrect, PTL DEF HybridSpec

------------------------------------------------------------------------------
(* Claims are granted once by each level.                                  *)

Granted ==
    /\ wins.redis > 0 => redis
    /\ \A c \in Call : Ticket(c) => redis /\ wins.redis = 0
    /\ \A c, d \in Call : Ticket(c) /\ Ticket(d) => c = d
    /\ \A c \in Call : reply[c] # "none" => op[c] # "none"
    /\ wins.redis <= 1
    /\ wins.memory > 0 => memory
    /\ wins.memory <= 1
Calm ==
    /\ calm => wins.memory = 0 /\ ~disabled /\ ~off[Hybrid]
    /\ \A c \in Call : thrown[c] # "none" => ~calm
Stands ==
    /\ \A c \in Call : began[c].claimed => wins.redis > 0
    /\ mode.toMemory => /\ wins.redis > 0 => memory
                        /\ \A c \in Call : result[c] = "won" => ~began[c].claimed

LEMMA StaysClosed ==
    ASSUME LocalTypeOK, ~disabled, ~off[Hybrid],
           Background \/ \E c \in Call, hit \in BOOLEAN : Answered(c, hit)
    PROVE  ~disabled' /\ ~off'[Hybrid]
  <1>1. CASE Reconnect \/ ReconnectEnds \/ Outage
    BY <1>1 DEF Reconnect, ReconnectEnds, ResetRedisGlobalState, Outage, localVars, globalVars
  <1>2. ASSUME NEW m \in Manager, Probe(m) \/ ProbeInVain(m) \/ Destroy(m)
        PROVE  ~disabled' /\ ~off'[Hybrid]
    BY <1>2 DEF Probe, ProbeInVain, Destroy, globalVars
  <1>3. ASSUME NEW m \in Manager, ProbeEnds(m) PROVE ~disabled' /\ ~off'[Hybrid]
    BY <1>3, HybridConstantsOK DEF ProbeEnds, globalVars, LocalTypeOK
  <1>4. ASSUME NEW c \in Call, NEW hit \in BOOLEAN, Answered(c, hit)
        PROVE  ~disabled' /\ ~off'[Hybrid]
    <2>1. ~disabled'
      BY <1>4 DEF Answered, ResetRedisGlobalState
    <2>2. ~off'[Hybrid]
      BY <1>4, HybridConstantsOK DEF Answered, ResetRedisErrorState, localVars, LocalTypeOK
    <2> QED
      BY <2>1, <2>2
  <1> QED
    BY <1>1, <1>2, <1>3, <1>4 DEF Background

LEMMA WonCounts ==
    ASSUME DataTypeOK, NEW where \in {"redis", "memory"}, Won(where)
    PROVE  /\ wins'[where] = wins[where] + 1
           /\ \A w \in {"redis", "memory"} \ {where} : wins'[w] = wins[w]
  BY DEF DataTypeOK, Won

LEMMA GrantedStep ==
    HybridTypeOK /\ Granted /\ Calm /\ Stands /\ [HybridNext]_hybridVars
        => Granted' /\ Calm' /\ Stands'
  <1> SUFFICES ASSUME LocalTypeOK, CallTypeOK, DataTypeOK, ByHybrid, Granted, Calm, Stands,
                      [HybridNext]_hybridVars
               PROVE  Granted' /\ Calm' /\ Stands'
    BY HybridTypeParts, TypeParts
  <1>0. wins.redis \in Nat /\ wins.memory \in Nat
    BY DEF DataTypeOK
  <1>1. ASSUME NEW c \in Call, Instant(c)
        PROVE  Granted' /\ Calm' /\ Stands'
    <2>1. PICK r \in Results \ {"none", "threw"} :
              /\ Returned(c, r)
              /\ r = "won" => ~memory /\ memory' /\ Won("memory")
      BY <1>1 DEF Instant
    <2>2. /\ op[c] = "none" /\ UNCHANGED <<op, mode, redis>>
          /\ memory => memory'
      BY <1>1, <2>1 DEF Instant, Returned
    <2>3. reply' = [reply EXCEPT ![c] = "none"]
      BY <2>1 DEF Returned, Return
    <2>4. /\ wins'.redis = wins.redis
          /\ \/ wins'.memory = wins.memory
             \/ ~memory /\ memory' /\ wins'.memory = wins.memory + 1
      BY <2>1, WonCounts DEF Returned
    <2>5. \A d \in Call : Ticket(d)' => Ticket(d)
      BY <2>2, <2>3 DEF Ticket, DataTypeOK
    <2>6. Granted'
      <3>1. \A d \in Call : reply'[d] # "none" => op'[d] # "none"
        BY <2>2, <2>3 DEF Granted, DataTypeOK
      <3> QED
        BY <1>0, <2>2, <2>4, <2>5, <3>1 DEF Granted
    <2>7. Calm'
      BY <1>1 DEF Calm, Instant, Quiet, RedisUsable
    <2>8. /\ began'[c].claimed = (wins.redis > 0)
          /\ \A d \in Call \ {c} : began'[d] = began[d]
      BY <1>1, BeganKept DEF Instant
    <2>9. \A d \in Call : began'[d].claimed => wins'.redis > 0
      BY <2>4, <2>8 DEF Stands
    <2>10. ASSUME mode.toMemory, NEW d \in Call, result'[d] = "won"
           PROVE  ~began'[d].claimed
      <3>1. CASE d = c
        <4>1. r = "won"
          BY <2>1, <2>10, <3>1, ReturnKept DEF Returned
        <4> QED
          BY <2>1, <2>8, <2>10, <3>1, <4>1 DEF Stands
      <3>2. CASE d # c
        BY <2>1, <2>8, <2>10, <3>2, ReturnKept DEF Returned, Stands
      <3> QED
        BY <3>1, <3>2
    <2> QED
      BY <2>2, <2>4, <2>6, <2>7, <2>9, <2>10 DEF Stands
  <1>2. ASSUME NEW c \in Call, NEW o \in Methods, Sent(c, o)
        PROVE  Granted' /\ Calm' /\ Stands'
    <2>1. op[c] = "none" /\ op' = [op EXCEPT ![c] = o]
      BY <1>2 DEF Sent
    <2>2. /\ UNCHANGED <<mode, redis, reply, kept, wins>>
          /\ memory => memory'
      BY <1>2 DEF Sent
    <2>3. \A d \in Call : Ticket(d)' => Ticket(d)
      BY <2>1, <2>2 DEF Ticket, Granted, CallTypeOK
    <2>4. Granted'
      <3>1. \A d \in Call : reply'[d] # "none" => op'[d] # "none"
        BY <2>1, <2>2 DEF Granted, CallTypeOK
      <3> QED
        BY <2>2, <2>3, <3>1 DEF Granted
    <2>5. Calm'
      BY <1>2, <2>2 DEF Calm, Sent, Quiet
    <2>6. /\ began'[c].claimed = (wins.redis > 0)
          /\ \A d \in Call \ {c} : began'[d] = began[d]
      BY <1>2, BeganKept DEF Sent
    <2>7. result' = [result EXCEPT ![c] = "none"]
      BY <1>2 DEF Sent
    <2>8. \A d \in Call : began'[d].claimed => wins'.redis > 0
      BY <2>2, <2>6 DEF Stands
    <2>9. ASSUME mode.toMemory, NEW d \in Call, result'[d] = "won" PROVE ~began'[d].claimed
      BY <2>6, <2>7, <2>9 DEF Stands, DataTypeOK
    <2> QED
      BY <2>2, <2>4, <2>5, <2>8, <2>9 DEF Stands
  <1>3. ASSUME NEW c \in Call, Execute(c) PROVE Granted' /\ Calm' /\ Stands'
    <2>1. UNCHANGED <<op, thrown, disabled, off, mode, memory, result, kept, wins, began, calm>>
      BY <1>3 DEF Execute, breakerVars, callVars, globalVars, localVars
    <2>2. /\ op[c] # "none"
          /\ redis => redis'
          /\ \A d \in Call \ {c} : reply'[d] = reply[d]
      BY <1>3 DEF Execute, DataTypeOK
    <2>3. Ticket(c)' => ~redis /\ redis'
      BY <1>3, <2>1 DEF Execute, Ticket, Lookups, DataTypeOK
    <2>4. \A d \in Call \ {c} : Ticket(d)' => Ticket(d)
      BY <2>1, <2>2 DEF Ticket
    <2>5. Granted'
      <3>1. \A d \in Call : Ticket(d)' => redis' /\ wins'.redis = 0
        BY <1>0, <2>1, <2>2, <2>3, <2>4 DEF Granted
      <3>2. \A d, e \in Call : Ticket(d)' /\ Ticket(e)' => d = e
        BY <2>2, <2>3, <2>4 DEF Granted
      <3>3. \A d \in Call : reply'[d] # "none" => op'[d] # "none"
        BY <2>1, <2>2 DEF Granted
      <3> QED
        BY <2>1, <2>2, <3>1, <3>2, <3>3 DEF Granted
    <2> QED
      BY <2>1, <2>5 DEF Calm, Stands
  <1>7. ASSUME NEW c \in Call, Threw(c) PROVE Granted' /\ Calm' /\ Stands'
    <2>1. /\ UNCHANGED <<op, mode, redis, memory, result, wins, began>> /\ ~calm'
          /\ \A d \in Call : reply'[d] # "none" => reply'[d] = reply[d]
      BY <1>7 DEF Threw, DataTypeOK
    <2>2. \A d \in Call : Ticket(d)' => Ticket(d)
      BY <2>1 DEF Ticket
    <2>3. Granted'
      BY <2>1, <2>2 DEF Granted
    <2> QED
      BY <2>1, <2>3 DEF Calm, Stands
  <1>4. ASSUME NEW c \in Call, Ended(c) PROVE Granted' /\ Calm' /\ Stands'
    <2>1. PICK r \in Results \ {"none"} :
              /\ Returned(c, r)
              /\ r = "won" => \/ /\ Ticket(c) /\ Won("redis") /\ RememberClaim
                             \/ /\ ~memory /\ memory' /\ Won("memory")
                                /\ ~calm' \/ thrown[c] # "none"
      BY <1>4 DEF Ended
    <2>2. /\ op' = [op EXCEPT ![c] = "none"] /\ UNCHANGED <<mode, redis, began>>
          /\ memory => memory'
      BY <1>4, <2>1 DEF Ended, Returned
    <2>3. reply' = [reply EXCEPT ![c] = "none"]
      BY <2>1 DEF Returned, Return
    <2>4. /\ ~Ticket(c)'
          /\ \A d \in Call \ {c} : Ticket(d)' => Ticket(d)
      BY <2>2, <2>3 DEF Ticket, CallTypeOK
    <2>5. \/ wins' = wins
          \/ /\ Ticket(c) /\ RememberClaim /\ r = "won"
             /\ wins'.redis = wins.redis + 1 /\ wins'.memory = wins.memory
          \/ /\ ~calm' \/ thrown[c] # "none"
             /\ ~memory /\ memory' /\ r = "won"
             /\ wins'.memory = wins.memory + 1 /\ wins'.redis = wins.redis
      BY <2>1, WonCounts DEF Returned
    <2>6. Granted'
      <3>1. \A d \in Call : reply'[d] # "none" => op'[d] # "none"
        BY <2>2, <2>3 DEF Granted, DataTypeOK, CallTypeOK
      <3>2. \A d, e \in Call : Ticket(d)' /\ Ticket(e)' => d = e
        BY <2>4 DEF Granted
      <3>3. \A d \in Call : Ticket(d)' => redis' /\ wins'.redis = 0
        BY <2>2, <2>4, <2>5 DEF Granted
      <3>4. (wins'.redis > 0 => redis') /\ wins'.redis <= 1
        BY <1>0, <2>2, <2>5 DEF Granted
      <3>5. (wins'.memory > 0 => memory') /\ wins'.memory <= 1
        BY <1>0, <2>2, <2>5 DEF Granted
      <3> QED
        BY <3>1, <3>2, <3>3, <3>4, <3>5 DEF Granted
    <2>7. Calm'
      <3>1. Quiet /\ (~calm' \/ thrown[c] # "none" \/ \E hit \in BOOLEAN : Answered(c, hit))
        BY <1>4 DEF Ended
      <3>2. thrown[c] # "none" => ~calm'
        BY <3>1 DEF Quiet, Calm
      <3>3. CASE calm'
        <4>1. ~disabled /\ ~off[Hybrid] /\ wins.memory = 0
          BY <3>1, <3>3 DEF Quiet, Calm
        <4>2. ~disabled' /\ ~off'[Hybrid]
          BY <3>1, <3>2, <3>3, <4>1, StaysClosed
        <4>3. wins'.memory = wins.memory
          BY <2>5, <3>2, <3>3
        <4> QED
          BY <3>1, <3>3, <4>1, <4>2, <4>3 DEF Quiet, Calm
      <3> QED
        BY <3>3 DEF Calm
    <2>8. \A d \in Call : began'[d].claimed => wins'.redis > 0
      BY <1>0, <2>2, <2>5 DEF Stands
    <2>9. ASSUME mode.toMemory PROVE wins'.redis > 0 => memory'
      BY <1>0, <2>2, <2>5, <2>9 DEF Stands, RememberClaim
    <2>10. ASSUME mode.toMemory, NEW d \in Call, result'[d] = "won"
           PROVE  ~began'[d].claimed
      <3>1. CASE d = c
        <4>1. r = "won"
          BY <2>1, <2>10, <3>1, ReturnKept DEF Returned
        <4>2. Ticket(c) \/ ~memory
          BY <2>1, <4>1
        <4> QED
          BY <2>2, <2>10, <3>1, <4>2 DEF Granted, Stands
      <3>2. CASE d # c
        BY <2>1, <2>2, <2>10, <3>2, ReturnKept DEF Returned, Stands
      <3> QED
        BY <3>1, <3>2
    <2> QED
      BY <2>2, <2>6, <2>7, <2>8, <2>9, <2>10 DEF Stands
  <1>5. CASE Background /\ UNCHANGED dataVars
    <2>1. UNCHANGED <<op, thrown>> /\ UNCHANGED dataVars
      BY <1>5, BackgroundCalls DEF callVars
    <2>2. Granted' /\ Stands'
      BY <2>1 DEF dataVars, Granted, Stands, Ticket
    <2>3. ~disabled /\ ~off[Hybrid] => ~disabled' /\ ~off'[Hybrid]
      BY <1>5, StaysClosed
    <2> QED
      BY <2>1, <2>2, <2>3 DEF dataVars, Calm
  <1>6. CASE UNCHANGED hybridVars
    BY <1>6 DEF hybridVars, breakerVars, callVars, globalVars, localVars, dataVars, Granted, Calm,
                Stands, Ticket
  <1> QED
    BY <1>1, <1>2, <1>3, <1>4, <1>5, <1>6, <1>7, Forms

LEMMA GrantedAlways == HybridSpec => [](Granted /\ Calm /\ Stands)
  <1>1. HybridInit => Granted /\ Calm /\ Stands
    BY HybridConstantsOK DEF HybridInit, BreakerInit, NoWins, Granted, Calm, Stands, Ticket
  <1> QED
    BY <1>1, GrantedStep, HybridTypeCorrect, PTL DEF HybridSpec

\* With writeToMemory nobody is granted a claim after Redis has granted it.
THEOREM ClaimsStand == HybridSpec => []ClaimStands
  <1>1. Stands /\ DataTypeOK => ClaimStands
    BY DEF Stands, ClaimStands
  <1>2. HybridTypeOK => DataTypeOK
    BY HybridTypeParts
  <1> QED
    BY <1>1, <1>2, GrantedAlways, HybridTypeCorrect, PTL

\* Each level grants the key once, memory only after a failure.
THEOREM ClaimsAreBounded == HybridSpec => []ClaimsBounded
  <1>1. Granted /\ Calm => ClaimsBounded
    BY DEF Granted, Calm, ClaimsBounded
  <1> QED
    BY <1>1, GrantedAlways, PTL
==============================================================================
