-------------------------- MODULE CoordinatorProofs --------------------------
(***************************************************************************)
(* Proofs about the coordinator process, for any set of processes, any     *)
(* durations that satisfy TimingAssumption and any bounds.  The types hold *)
(* for every schedule; the rest is about prompt processes whose callbacks  *)
(* finish within a time unit, and a Redis that keeps the key.              *)
(***************************************************************************)
EXTENDS ElectionTiming, ElectionProofs

(* The token of a process run counts what it won, up to the bound.         *)
TokenInv(p) ==
  /\ token[p] <= MaxToken
  /\ pc[p] = "acquired" => token[p] < MaxToken
  /\ pc[p] = "matched" => isLeader[p]
  /\ isLeader[p] => token[p] > 0 /\ pc[p] # "down"

(* At most one callback runs, of the current term, and between two ticks;  *)
(* without one a leader knows how to cancel its detector, and a follower   *)
(* has none.  A detector that runs has the lease of its process.           *)
DetectorInv(p) ==
  /\ callbacks[p] # {} => pc[p] = "select" /\ ~tick[p]
  /\ \A c, d \in callbacks[p] : c = d
  /\ \A c \in callbacks[p] : c.term = token[p]
  /\ \A c \in callbacks[p] : c.kind = "onLeader" => isLeader[p] /\ detectors[p] = {}
  /\ \A c \in callbacks[p] : c.kind = "onFollower" =>
       /\ ~isLeader[p] /\ detectorCancel[p] = token[p]
       /\ c.at = "called" => detectors[p] = {}
  /\ callbacks[p] = {} /\ isLeader[p] => detectorCancel[p] = token[p]
  /\ callbacks[p] = {} /\ ~isLeader[p] => detectors[p] = {}
  /\ detectors[p] \subseteq {token[p]}
  /\ detectors[p] # {} => ~ctxDone[p] /\ KeyExists /\ lease.proc = p

DetectorsInTime == \A p \in Procs : DetectorInv(p)

(* Somebody who holds the key is about to see it, or a follower will try   *)
(* before the vacancy ends: after the key expires on its next tick.        *)
WillLead(r) ==
  pc[r] = "acquired" /\ vacancy + MaxLag - lag[r] <= MaxVacancy

NextTry(p) ==
  IF KeyExists THEN ttl + RenewInterval - 1 + MaxLag
  ELSE IF tick[p] THEN MaxLag - lag[p]
  ELSE timer[p] + MaxLag

WillTry(p) ==
  /\ pc[p] = "select" /\ ~isLeader[p] /\ ~ctxDone[p]
  /\ vacancy + NextTry(p) + MaxLag <= MaxVacancy

(* Only failures use up the terms of a process that may win.               *)
TermsLeft ==
  \A p \in Live : token[p] <= faults + (IF isLeader[p] THEN 1 ELSE 0)

VacancyInv ==
  /\ Vacant => \E p \in Procs : WillLead(p) \/ WillTry(p)
  /\ ~Vacant => vacancy = 0

-----------------------------------------------------------------------------
(* Types *)

(* Every step is one of the Elector, or none of its business, except the   *)
(* panic of a callback.                                                    *)
LEMMA ElectionStep ==
  ASSUME [CNext]_cvars
  PROVE  \/ [Next]_vars
         \/ \E p \in Procs : OnFollowerPanics(p)
<1>1. CASE CTick
  BY <1>1 DEF CTick, Next
<1>2. CASE CEnvironment
  BY <1>2 DEF CEnvironment, Signalled, Next, Environment
<1>3. ASSUME NEW p \in Procs, CStep(p) PROVE [Next]_vars
  BY <1>3 DEF CStep, Wins, LosesLeadership, Campaigns, Next, Step
<1>4. ASSUME NEW p \in Procs, RunCallback(p) PROVE [Next]_vars \/ OnFollowerPanics(p)
  BY <1>4 DEF RunCallback, OnLeader, OnFollowerChecks, OnFollowerCancels, OnFollowerClears
<1>5. ASSUME PutApplied \/ \E p \in Procs : Raise(p) PROVE [Next]_vars
  BY <1>5 DEF PutApplied, Raise
<1>6. CASE UNCHANGED cvars
  BY <1>6 DEF cvars
<1> QED
  BY <1>1, <1>2, <1>3, <1>4, <1>5, <1>6 DEF CNext

LEMMA TypeOKCStep ==
  ASSUME TypeOK, [CNext]_cvars
  PROVE  TypeOK'
<1>1. ASSUME NEW p \in Procs, OnFollowerPanics(p) PROVE TypeOK'
  BY <1>1, TimingAssumption DEF OnFollowerPanics, Exit, TypeOK, Locations, redisVars, counters
<1> QED
  BY <1>1, ElectionStep, TypeOKStep

LEMMA TokenInvStep ==
  ASSUME TypeOK, \A p \in Procs : TokenInv(p), [Next]_vars, NEW q \in Procs
  PROVE  TokenInv(q)'
<1> USE BoundsAssumption
<1> USE DEF TokenInv, TypeOK, Locations, counters, redisVars, procVars, timeVars
<1>0. TokenInv(q)
  OBVIOUS
<1>1. CASE Tick
  BY <1>1 DEF Tick
<1>2. CASE RedisLosesKey
  BY <1>2 DEF RedisLosesKey
<1>3. ASSUME NEW p \in Procs, Signal(p) \/ Crash(p) \/ Restart(p) PROVE TokenInv(q)'
  <2>1. CASE Signal(p)
    BY <2>1 DEF Signal, CountStop
  <2>2. CASE Crash(p)
    BY <2>2 DEF Crash, CountStop, Exit
  <2>3. CASE Restart(p)
    BY <2>3 DEF Restart
  <2> QED
    BY <1>3, <2>1, <2>2, <2>3
<1>4. ASSUME NEW p \in Procs, Step(p) PROVE TokenInv(q)'
  <2> USE DEF TakeTick, BackToSelect, StepDown, Serving
  <2>1. CASE AcquireWins(p)
    BY <2>1 DEF AcquireWins, SetNXSucceeds
  <2>2. CASE AcquireLoses(p) \/ AcquireFails(p)
    BY <2>2 DEF AcquireLoses, AcquireFails
  <2>3. CASE BecomeLeader(p)
    BY <2>3 DEF BecomeLeader
  <2>4. CASE RenewGet(p) \/ RenewExpire(p)
    BY <2>4 DEF RenewGet, RenewExpire
  <2>5. CASE RenewLoses(p) \/ RenewGetFails(p)
    BY <2>5 DEF RenewLoses, RenewGetFails
  <2>6. CASE RenewCancelled(p) \/ RenewExpireFails(p)
    BY <2>6 DEF RenewCancelled, RenewExpireFails
  <2>7. CASE Stop(p)
    BY <2>7 DEF Stop, Exit
  <2> QED
    BY <1>4, <2>1, <2>2, <2>3, <2>4, <2>5, <2>6, <2>7 DEF Step
<1>5. CASE UNCHANGED vars
  BY <1>5 DEF vars
<1> QED
  BY <1>1, <1>2, <1>3, <1>4, <1>5 DEF Next, Environment

LEMMA TokenInvCStep ==
  ASSUME TypeOK, \A p \in Procs : TokenInv(p), [CNext]_cvars
  PROVE  \A p \in Procs : TokenInv(p)'
<1>1. ASSUME NEW p \in Procs, OnFollowerPanics(p), NEW q \in Procs PROVE TokenInv(q)'
  BY <1>1 DEF OnFollowerPanics, Exit, TokenInv, TypeOK, Locations
<1> QED
  BY <1>1, ElectionStep, TokenInvStep
TypesInv == CTypeOK /\ \A p \in Procs : TokenInv(p)

LEMMA TypesInvInit == CInit => TypesInv
BY TypeOKInit, BoundsAssumption
   DEF CInit, TypesInv, CTypeOK, TokenInv, Init, Terms, Nil

LEMMA TypesInvStep ==
  ASSUME TypesInv, [CNext]_cvars
  PROVE  TypesInv'
<1> USE DEF TypesInv
<1>1. TypeOK' /\ \A p \in Procs : TokenInv(p)'
  BY TypeOKCStep, TokenInvCStep DEF CTypeOK
<1>2. CTypeOK'
  <2> SUFFICES /\ (callbacks \in [Procs -> SUBSET Callback])'
               /\ (detectorCancel \in [Procs -> Terms \cup {Nil}])'
               /\ (detectors \in [Procs -> SUBSET Terms])'
               /\ (put \in [proc : Procs, term : Terms] \cup {NoPut})'
    BY <1>1 DEF CTypeOK
  <2>0. /\ callbacks \in [Procs -> SUBSET Callback]
        /\ detectorCancel \in [Procs -> Terms \cup {Nil}]
        /\ detectors \in [Procs -> SUBSET Terms]
        /\ put \in [proc : Procs, term : Terms] \cup {NoPut}
    BY DEF CTypeOK
  <2>1. CASE CTick \/ PutApplied \/ UNCHANGED cvars
    BY <2>0, <2>1 DEF CTick, PutApplied, cvars, mainVars
  <2>2. CASE CEnvironment
    BY <2>0, <2>2 DEF CEnvironment, Signalled, ProcessEnds, mainVars
  <2>3. ASSUME NEW p \in Procs, CStep(p)
        PROVE  /\ (callbacks \in [Procs -> SUBSET Callback])'
               /\ (detectorCancel \in [Procs -> Terms \cup {Nil}])'
               /\ (detectors \in [Procs -> SUBSET Terms])'
               /\ (put \in [proc : Procs, term : Terms] \cup {NoPut})'
    <3>1. token[p] \in Nat /\ token'[p] \in Nat
      BY <1>1 DEF CTypeOK, TypeOK
    <3>2. CASE Wins(p)
      <4>1. token'[p] \in Terms
        BY <1>1, <3>1, <3>2, BoundsAssumption DEF Wins, BecomeLeader, TokenInv, Terms, CTypeOK, TypeOK
      <4> QED
        BY <2>0, <3>2, <4>1 DEF Wins, Start, Callback
    <3>3. CASE LosesLeadership(p)
      <4>1. isLeader[p]
        BY <3>3 DEF LosesLeadership, RenewLoses, RenewGetFails, RenewCancelled, RenewExpireFails, TokenInv
      <4>2. token[p] \in Terms
        BY <3>1, <4>1, BoundsAssumption DEF TokenInv, Terms
      <4> QED
        BY <2>0, <3>3, <4>2 DEF LosesLeadership, Start, Callback
    <3>4. CASE Campaigns(p)
      BY <2>0, <3>4 DEF Campaigns, mainVars
    <3>5. CASE Stop(p) /\ ProcessEnds(p)
      BY <2>0, <3>5 DEF ProcessEnds
    <3> QED
      BY <2>3, <3>2, <3>3, <3>4, <3>5 DEF CStep
  <2>4. ASSUME NEW p \in Procs, RunCallback(p) \/ Raise(p)
        PROVE  /\ (callbacks \in [Procs -> SUBSET Callback])'
               /\ (detectorCancel \in [Procs -> Terms \cup {Nil}])'
               /\ (detectors \in [Procs -> SUBSET Terms])'
               /\ (put \in [proc : Procs, term : Terms] \cup {NoPut})'
    <3>1. \A c \in callbacks[p] : c \in Callback
      BY <2>0
    <3>2. CASE OnLeader(p)
      BY <2>0, <3>1, <3>2 DEF OnLeader, Callback
    <3>3. CASE OnFollowerChecks(p)
      BY <2>0, <3>1, <3>3 DEF OnFollowerChecks, Advance, Callback
    <3>4. CASE OnFollowerCancels(p)
      BY <2>0, <3>1, <3>4 DEF OnFollowerCancels, Advance, Callback
    <3>5. CASE OnFollowerPanics(p)
      BY <2>0, <3>5 DEF OnFollowerPanics, ProcessEnds
    <3>6. CASE OnFollowerClears(p)
      BY <2>0, <3>6 DEF OnFollowerClears
    <3>7. CASE Raise(p)
      BY <2>0, <3>7 DEF Raise
    <3> QED
      BY <2>4, <3>2, <3>3, <3>4, <3>5, <3>6, <3>7 DEF RunCallback
  <2> QED
    BY <2>1, <2>2, <2>3, <2>4 DEF CNext
<1> QED
  BY <1>1, <1>2

LEMMA TypesInvariant == CSpec => []TypesInv
BY TypesInvInit, TypesInvStep, PTL DEF CSpec

(* Every reachable state of the coordinators has the types of CTypeOK: in  *)
(* whatever order the callbacks of main.go:41-58 run, crash or panic, the  *)
(* terms they carry are elections that the process run has won.            *)
THEOREM CTypeCorrect == CSpec => []CTypeOK
BY TypesInvariant, PTL DEF TypesInv

-----------------------------------------------------------------------------
(* Prompt processes with prompt callbacks, and a Redis that keeps the key. *)

PromptInv == TypesInv /\ RenewalInTime /\ DetectorsInTime

LEMMA PromptInvInit == CInit => PromptInv
BY TypesInvInit, RenewalInTimeInit
   DEF CInit, Init, PromptInv, DetectorsInTime, DetectorInv

(* Only one onFollower runs at a time, so detectorCancel is still there    *)
(* when it is called (main.go:51-54).                                      *)
LEMMA NoPanic ==
  ASSUME PromptInv, NEW p \in Procs
  PROVE  ~OnFollowerPanics(p)
<1> SUFFICES ASSUME detectorCancel[p] = Nil,
                    NEW c \in callbacks[p], FollowerAt(p, c, "checked")
             PROVE  FALSE
  BY DEF OnFollowerPanics
<1>1. c.term # Nil
  BY DEF PromptInv, TypesInv, CTypeOK, Callback, Terms, Nil
<1>2. c.term = token[p] /\ detectorCancel[p] = token[p]
  BY DEF PromptInv, DetectorsInTime, DetectorInv, FollowerAt
<1> QED
  BY <1>1, <1>2

LEMMA PromptElectionStep ==
  ASSUME PromptInv, [CNext]_cvars
  PROVE  [Next]_vars
BY ElectionStep, NoPanic

(* A step that leaves q and its callbacks alone takes the key from its     *)
(* detector only if it takes it from q.                                    *)
LEMMA DetectorInvKept ==
  ASSUME NEW q \in Procs, DetectorInv(q),
         callbacks'[q] = callbacks[q], detectors'[q] = detectors[q],
         detectorCancel'[q] = detectorCancel[q],
         pc'[q] = pc[q], tick'[q] = tick[q] \/ callbacks[q] = {},
         token'[q] = token[q], isLeader'[q] = isLeader[q],
         ctxDone'[q] = ctxDone[q] \/ detectors[q] = {},
         KeyExists /\ lease.proc = q /\ detectors[q] # {} => KeyExists' /\ lease'.proc = q
  PROVE  DetectorInv(q)'
BY DEF DetectorInv

(* While the detector of a process runs, the key is its own: no other one  *)
(* stores, extends or deletes it.                                          *)
LEMMA KeyKept ==
  ASSUME PromptInv, NEW p \in Procs, NEW q \in Procs, p # q, Step(p),
         KeyExists, lease.proc = q
  PROVE  KeyExists' /\ lease'.proc = q
<1> USE DEF PromptInv, KeyExists, redisVars
<1>0. ~isLeader[p] /\ pc[p] # "matched"
  BY DEF RenewalInTime, LeaseInv, ControlInv
<1>1. CASE AcquireWins(p) \/ AcquireLoses(p) \/ AcquireFails(p)
  BY <1>1 DEF AcquireWins, AcquireLoses, AcquireFails, SetNXSucceeds
<1>2. CASE BecomeLeader(p) \/ Stop(p)
  BY <1>0, <1>2 DEF BecomeLeader, Stop
<1> QED
  BY <1>0, <1>1, <1>2
     DEF Step, RenewGet, RenewLoses, RenewGetFails, RenewExpire, RenewCancelled, RenewExpireFails

(* The step of an Elector leaves every other one alone.                    *)
LEMMA OthersKept ==
  ASSUME TypeOK, NEW p \in Procs, NEW q \in Procs, p # q,
         Step(p) \/ Signal(p) \/ Crash(p) \/ Restart(p)
  PROVE  /\ pc'[q] = pc[q] /\ tick'[q] = tick[q] /\ timer'[q] = timer[q] /\ lag'[q] = lag[q]
         /\ token'[q] = token[q] /\ isLeader'[q] = isLeader[q]
         /\ ctxDone'[q] = ctxDone[q]
<1> USE DEF TypeOK, timeVars
<1>1. CASE Step(p)
  <2> USE DEF BackToSelect, TakeTick, StepDown, Exit
  <2>1. CASE AcquireWins(p) \/ AcquireLoses(p) \/ AcquireFails(p) \/ BecomeLeader(p)
    BY <2>1 DEF AcquireWins, AcquireLoses, AcquireFails, BecomeLeader
  <2>2. CASE RenewGet(p) \/ RenewLoses(p) \/ RenewGetFails(p)
    BY <2>2 DEF RenewGet, RenewLoses, RenewGetFails
  <2>3. CASE RenewExpire(p) \/ RenewCancelled(p) \/ RenewExpireFails(p) \/ Stop(p)
    BY <2>3 DEF RenewExpire, RenewCancelled, RenewExpireFails, Stop
  <2> QED
    BY <1>1, <2>1, <2>2, <2>3 DEF Step
<1>2. CASE Signal(p) \/ Crash(p) \/ Restart(p)
  BY <1>2 DEF Signal, Crash, Restart, Exit
<1> QED
  BY <1>1, <1>2

(* The part of DetectorInv that matters while a callback c runs.           *)
LEMMA OneCallback ==
  ASSUME NEW q \in Procs, NEW c, callbacks'[q] = {c},
         pc'[q] = "select", ~tick'[q], c.term = token'[q],
         c.kind = "onLeader" => isLeader'[q] /\ detectors'[q] = {},
         c.kind = "onFollower" =>
           ~isLeader'[q] /\ detectorCancel'[q] = token'[q]
           /\ (c.at = "called" => detectors'[q] = {}),
         detectors'[q] \subseteq {token'[q]},
         detectors'[q] # {} => ~ctxDone'[q] /\ KeyExists' /\ lease'.proc = q
  PROVE  DetectorInv(q)'
BY DEF DetectorInv

LEMMA DetectorInvOwnStep ==
  ASSUME PromptInv, TypeOK', RenewalInTime', NEW q \in Procs, CStep(q)
  PROVE  DetectorInv(q)'
<1> USE TimingAssumption
<1>0. /\ TypeOK /\ ControlInv(q) /\ DetectorInv(q)
      /\ isLeader[q] => KeyExists /\ lease.proc = q
      /\ callbacks \in [Procs -> SUBSET Callback]
      /\ detectors \in [Procs -> SUBSET Terms]
      /\ detectorCancel \in [Procs -> Terms \cup {Nil}]
  BY LeaderOwnsKey DEF PromptInv, TypesInv, CTypeOK, RenewalInTime, DetectorsInTime,
                       LeaderHoldsLease, Leaders
<1> USE DEF TypeOK, Locations, ControlInv
<1>1. CASE Wins(q)
  <2>1. callbacks[q] = {} /\ detectors[q] = {} /\ ~tick[q]
    BY <1>0, <1>1 DEF Wins, BecomeLeader, DetectorInv
  <2> DEFINE c == [kind |-> "onLeader", term |-> token'[q], at |-> "start"]
  <2>2. callbacks'[q] = {c} /\ detectors'[q] = {}
    BY <1>0, <1>1, <2>1 DEF Wins, Start
  <2>3. pc'[q] = "select" /\ ~tick'[q] /\ isLeader'[q]
    BY <1>0, <1>1, <2>1 DEF Wins, BecomeLeader, BackToSelect
  <2>4. c.term = token'[q] /\ c.kind = "onLeader"
    OBVIOUS
  <2> HIDE DEF c
  <2> QED
    BY <2>2, <2>3, <2>4, OneCallback
<1>2. CASE LosesLeadership(q)
  <2>1. /\ callbacks[q] = {} /\ isLeader[q]
        /\ pc'[q] = "select" /\ ~tick'[q] /\ ~isLeader'[q]
        /\ ctxDone' = ctxDone /\ token' = token
        /\ KeyExists' /\ lease'.proc = q
    <3> USE DEF TakeTick, Serving, StepDown, BackToSelect, KeyExists
    <3>1. CASE RenewLoses(q) \/ RenewGetFails(q)
      BY <1>0, <3>1 DEF RenewLoses, RenewGetFails, DetectorInv, redisVars
    <3>2. CASE RenewCancelled(q) \/ RenewExpireFails(q)
      BY <1>0, <3>2 DEF RenewCancelled, RenewExpireFails, ExtendKey, DetectorInv, redisVars
    <3> QED
      BY <1>2, <3>1, <3>2 DEF LosesLeadership
  <2> DEFINE c == [kind |-> "onFollower", term |-> token[q], at |-> "start"]
  <2>2. callbacks'[q] = {c} /\ detectors' = detectors /\ detectorCancel' = detectorCancel
    BY <1>0, <1>2, <2>1 DEF LosesLeadership, Start
  <2>3. detectorCancel[q] = token[q] /\ detectors[q] \subseteq {token[q]}
        /\ (detectors[q] # {} => ~ctxDone[q])
    BY <1>0, <2>1 DEF DetectorInv
  <2>4. c.term = token[q] /\ c.kind = "onFollower" /\ c.at = "start"
    OBVIOUS
  <2> HIDE DEF c
  <2> QED
    BY <2>1, <2>2, <2>3, <2>4, OneCallback
<1>3. CASE Campaigns(q)
  <2>1. callbacks[q] = {} /\ token' = token /\ isLeader' = isLeader /\ ctxDone' = ctxDone
    BY <1>0, <1>3 DEF Campaigns, AcquireWins, AcquireLoses, AcquireFails, RenewGet, RenewExpire,
                      TakeTick, Serving, DetectorInv
  <2>2. isLeader'[q] => KeyExists' /\ lease'.proc = q
    BY LeaderOwnsKeyNext DEF LeaderHoldsLease, Leaders
  <2> QED
    BY <1>0, <1>3, <2>1, <2>2 DEF Campaigns, DetectorInv, mainVars
<1>4. CASE Stop(q) /\ ProcessEnds(q)
  BY <1>0, <1>4 DEF Stop, Exit, ProcessEnds, DetectorInv
<1> QED
  BY <1>1, <1>2, <1>3, <1>4 DEF CStep

LEMMA DetectorInvCallback ==
  ASSUME PromptInv, NEW q \in Procs, RunCallback(q)
  PROVE  DetectorInv(q)'
<1>0. /\ DetectorInv(q)
      /\ callbacks \in [Procs -> SUBSET Callback]
      /\ detectors \in [Procs -> SUBSET Terms]
      /\ detectorCancel \in [Procs -> Terms \cup {Nil}]
      /\ \A c \in callbacks[q] : c \in Callback /\ c.term # Nil
      /\ isLeader[q] => KeyExists /\ lease.proc = q
  BY LeaderOwnsKey DEF PromptInv, TypesInv, CTypeOK, DetectorsInTime, Callback, Terms, Nil,
                       LeaderHoldsLease, Leaders
<1> USE <1>0
<1>1. CASE OnLeader(q)
  <2>1. PICK c \in callbacks[q] :
          /\ c.kind = "onLeader"
          /\ callbacks' = [callbacks EXCEPT ![q] = @ \ {c}]
          /\ detectorCancel' = [detectorCancel EXCEPT ![q] = c.term]
          /\ detectors' = [detectors EXCEPT ![q] =
                             IF ctxDone[q] THEN @ ELSE @ \cup {c.term}]
          /\ UNCHANGED <<vars, put>>
    BY <1>1 DEF OnLeader
  <2>2. callbacks'[q] = {} /\ isLeader[q] /\ c.term = token[q] /\ detectors[q] = {}
    BY <2>1 DEF DetectorInv
  <2> QED
    BY <2>1, <2>2 DEF DetectorInv, vars, procVars, redisVars, timeVars, KeyExists
<1>2. ASSUME NEW c \in callbacks[q], c.kind = "onFollower"
      PROVE  /\ callbacks[q] = {c} /\ c.term = token[q]
             /\ ~isLeader[q] /\ detectorCancel[q] = token[q]
             /\ c.at = "called" => detectors[q] = {}
  BY <1>2 DEF DetectorInv
<1> USE DEF FollowerAt, Advance, Callback, vars, procVars, redisVars, timeVars, KeyExists
<1>3. CASE OnFollowerChecks(q)
  <2>1. PICK c \in callbacks[q] : FollowerAt(q, c, "start") /\ Advance(q, c, "checked")
    BY <1>2, <1>3 DEF OnFollowerChecks
  <2> DEFINE d == [c EXCEPT !.at = "checked"]
  <2>2. callbacks'[q] = {d}
    BY <1>2, <2>1
  <2>3. d.kind = "onFollower" /\ d.term = c.term /\ d.at = "checked"
    BY <1>0, <2>1
  <2>4. UNCHANGED <<vars, detectorCancel, detectors>> /\ pc[q] = "select" /\ ~tick[q]
        /\ (detectors[q] # {} => ~ctxDone[q] /\ KeyExists /\ lease.proc = q)
        /\ detectors[q] \subseteq {token[q]}
    BY <1>3 DEF OnFollowerChecks, DetectorInv
  <2> HIDE DEF d
  <2> QED
    BY <1>2, <2>1, <2>2, <2>3, <2>4, OneCallback
<1>4. CASE OnFollowerCancels(q)
  <2>1. PICK c \in callbacks[q] : FollowerAt(q, c, "checked") /\ Advance(q, c, "called")
    BY <1>4 DEF OnFollowerCancels
  <2> DEFINE d == [c EXCEPT !.at = "called"]
  <2>2. callbacks'[q] = {d}
    BY <1>2, <2>1
  <2>3. d.kind = "onFollower" /\ d.term = c.term
    BY <1>0, <2>1
  <2>4. detectors'[q] = {}
    BY <1>2, <1>4, <2>1 DEF OnFollowerCancels, DetectorInv
  <2>5. UNCHANGED <<vars, detectorCancel>> /\ pc[q] = "select" /\ ~tick[q]
    BY <1>4, <2>1 DEF OnFollowerCancels, DetectorInv
  <2> HIDE DEF d
  <2> QED
    BY <1>2, <2>1, <2>2, <2>3, <2>4, <2>5, OneCallback
<1>5. CASE OnFollowerClears(q)
  BY <1>2, <1>5 DEF OnFollowerClears, DetectorInv
<1> QED
  BY <1>1, <1>3, <1>4, <1>5, NoPanic DEF RunCallback

LEMMA DetectorInvStep ==
  ASSUME Prompt = Procs, MaxLosses = 0, PromptCallbacks = TRUE,
         PromptInv, [CNext]_cvars, TypeOK', RenewalInTime', NEW q \in Procs
  PROVE  DetectorInv(q)'
<1>0. /\ TypeOK /\ ControlInv(q) /\ DetectorInv(q)
      /\ callbacks \in [Procs -> SUBSET Callback]
      /\ detectors \in [Procs -> SUBSET Terms]
      /\ detectorCancel \in [Procs -> Terms \cup {Nil}]
  BY DEF PromptInv, TypesInv, CTypeOK, RenewalInTime, DetectorsInTime
<1>1. CASE CTick
  <2>1. callbacks'[q] = {} /\ callbacks[q] = {} /\ UNCHANGED <<procVars, mainVars>>
    BY <1>1 DEF CTick, Tick, mainVars
  <2>2. isLeader'[q] => KeyExists' /\ lease'.proc = q
    BY LeaderOwnsKeyNext DEF LeaderHoldsLease, Leaders
  <2> QED
    BY <1>0, <2>1, <2>2 DEF DetectorInv, procVars, mainVars
<1>2. ASSUME NEW p \in Procs,
             \/ Signalled(p)
             \/ Crash(p) /\ ProcessEnds(p)
             \/ Restart(p) /\ UNCHANGED mainVars
      PROVE  DetectorInv(q)'
  <2>1. UNCHANGED redisVars
    BY <1>2 DEF Signalled, Signal, Crash, Restart
  <2>2. CASE p # q
    BY <1>0, <1>2, <2>1, <2>2, OthersKept, DetectorInvKept
       DEF Signalled, ProcessEnds, mainVars, redisVars, KeyExists
  <2>3. CASE Signalled(q)
    BY <1>0, <2>1, <2>3
       DEF Signalled, Signal, DetectorInv, TypeOK, redisVars, timeVars, KeyExists
  <2>4. CASE Crash(q) /\ ProcessEnds(q)
    BY <1>0, <2>1, <2>4
       DEF Crash, Exit, ProcessEnds, DetectorInv, TypeOK, redisVars, KeyExists
  <2>5. CASE Restart(q) /\ UNCHANGED mainVars
    BY <1>0, <2>1, <2>5
       DEF Restart, DetectorInv, ControlInv, TypeOK, mainVars
  <2> QED
    BY <1>2, <2>2, <2>3, <2>4, <2>5
<1>3. ASSUME NEW p \in Procs, CStep(p) PROVE DetectorInv(q)'
  <2>1. CASE p # q
    <3>1. Step(p)
      BY <1>3 DEF CStep, Wins, LosesLeadership, Campaigns, Step
    <3>2. /\ callbacks'[q] = callbacks[q] /\ detectors'[q] = detectors[q]
          /\ detectorCancel'[q] = detectorCancel[q]
      BY <1>0, <1>3, <2>1 DEF CStep, Wins, LosesLeadership, Campaigns, Start, ProcessEnds, mainVars
    <3> QED
      BY <1>0, <2>1, <3>1, <3>2, KeyKept, OthersKept, DetectorInvKept
  <2> QED
    BY <1>3, <2>1, DetectorInvOwnStep
<1>4. ASSUME NEW p \in Procs, RunCallback(p) PROVE DetectorInv(q)'
  <2>1. CASE p # q
    <3>1. /\ callbacks'[q] = callbacks[q] /\ detectors'[q] = detectors[q]
          /\ detectorCancel'[q] = detectorCancel[q] /\ UNCHANGED vars
      BY <1>0, <1>4, <2>1, NoPanic
         DEF RunCallback, OnLeader, OnFollowerChecks, OnFollowerCancels, OnFollowerClears, Advance
    <3> QED
      BY <1>0, <3>1, DetectorInvKept DEF vars, redisVars, procVars, timeVars, KeyExists
  <2> QED
    BY <1>4, <2>1, DetectorInvCallback
<1>5. CASE UNCHANGED cvars \/ PutApplied \/ \E p \in Procs : Raise(p)
  BY <1>0, <1>5, DetectorInvKept
     DEF cvars, mainVars, PutApplied, Raise, vars, redisVars, procVars, timeVars, KeyExists
<1>6. CASE RedisLosesKey
  BY <1>0, <1>6, BoundsAssumption DEF RedisLosesKey, TypeOK
<1>7. CASE CEnvironment
  BY <1>2, <1>6, <1>7 DEF CEnvironment
<1> QED
  BY <1>1, <1>3, <1>4, <1>5, <1>7 DEF CNext

LEMMA PromptInvStep ==
  ASSUME Prompt = Procs, MaxLosses = 0, PromptCallbacks = TRUE,
         PromptInv, [CNext]_cvars
  PROVE  PromptInv'
<1>1. TypesInv'
  BY TypesInvStep DEF PromptInv
<1>2. TypeOK /\ TypeOK' /\ RenewalInTime
  BY <1>1 DEF PromptInv, TypesInv, CTypeOK
<1>3. RenewalInTime'
  BY <1>2, PromptElectionStep, RenewalInTimeStep
<1>4. DetectorsInTime'
  BY <1>2, <1>3, DetectorInvStep DEF DetectorsInTime
<1> QED
  BY <1>1, <1>3, <1>4 DEF PromptInv

LEMMA CPromptInvariant ==
  ASSUME Prompt = Procs, MaxLosses = 0, PromptCallbacks = TRUE
  PROVE  CSpec => []PromptInv
<1>1. PromptInv /\ [CNext]_cvars => PromptInv'
  BY PromptInvStep
<1> QED
  BY <1>1, PromptInvInit, PTL DEF CSpec

LEMMA DetectorHoldsLease ==
  ASSUME PromptInv, NEW p \in Procs, detectors[p] # {}
  PROVE  KeyExists /\ lease.proc = p
BY DEF PromptInv, DetectorsInTime, DetectorInv

(* Drift detectors run on one coordinator at a time (main.go:41-54): the   *)
(* detector of a process that lost its lease is cancelled before another   *)
(* process can have won, for any number of prompt coordinators.            *)
THEOREM OneDetectorHolds ==
  ASSUME Prompt = Procs, MaxLosses = 0, PromptCallbacks = TRUE
  PROVE  CSpec => []OneDetector
<1>1. PromptInv => OneDetector
  <2> SUFFICES ASSUME PromptInv, NEW p \in Procs, NEW q \in Procs,
                      NEW t \in detectors[p], NEW u \in detectors[q]
               PROVE  p = q /\ t = u
    BY DEF OneDetector
  <2>1. p = q
    BY DetectorHoldsLease
  <2>2. detectors[p] \subseteq {token[p]}
    BY DEF PromptInv, DetectorsInTime, DetectorInv
  <2> QED
    BY <2>1, <2>2
<1> QED
  BY <1>1, CPromptInvariant, PTL

(* When the callbacks of a follower are through, none of its detectors     *)
(* runs (main.go:50-54).                                                   *)
THEOREM FollowersPauseHolds ==
  ASSUME Prompt = Procs, MaxLosses = 0, PromptCallbacks = TRUE
  PROVE  CSpec => []FollowersPause
<1>1. PromptInv => FollowersPause
  BY DEF PromptInv, DetectorsInTime, DetectorInv, FollowersPause
<1> QED
  BY <1>1, CPromptInvariant, PTL

(* No alert is sent by a process while another one holds the lease: the    *)
(* detector is cancelled (main.go:50-54) before a peer can have won.  What *)
(* was sent before may still be applied after that.                        *)
THEOREM DeposedLeaderSendsNothingHolds ==
  ASSUME Prompt = Procs, MaxLosses = 0, PromptCallbacks = TRUE
  PROVE  CSpec => DeposedLeaderSendsNothing
<1>1. PromptInv /\ [CNext]_cvars =>
        [put' # put /\ put' # NoPut => ~OthersLease(put'.proc)]_put
  <2> SUFFICES ASSUME PromptInv, [CNext]_cvars, put' # put, put' # NoPut
               PROVE  lease.proc = put'.proc
    BY DEF OthersLease
  <2>1. PICK p \in Procs : Raise(p)
    BY DEF CNext, CEnvironment, CTick, Signalled, ProcessEnds, CStep, Wins, LosesLeadership,
           Campaigns, Start, RunCallback, OnLeader, OnFollowerChecks, OnFollowerCancels,
           OnFollowerPanics, OnFollowerClears, PutApplied, mainVars, cvars
  <2>2. detectors[p] # {} /\ put'.proc = p
    BY <2>1 DEF Raise
  <2> QED
    BY <2>2, DetectorHoldsLease
<1> QED
  BY <1>1, CPromptInvariant, PTL DEF CSpec, DeposedLeaderSendsNothing

(* The callbacks leave the election as it is: with main around it, Run     *)
(* still makes the steps of module Election and no other, for the panic    *)
(* that would end the process elsewhere cannot happen.                     *)
THEOREM CoordinatorImplementsElection ==
  ASSUME Prompt = Procs, MaxLosses = 0, PromptCallbacks = TRUE
  PROVE  CSpec => Spec
<1>1. CInit => Init
  BY DEF CInit
<1>2. PromptInv /\ [CNext]_cvars => [Next]_vars
  BY PromptElectionStep
<1> QED
  BY <1>1, <1>2, CPromptInvariant, PTL DEF CSpec, Spec

-----------------------------------------------------------------------------
(* The vacancy of leadership                                               *)

LEMMA TermsLeftStep ==
  ASSUME PromptInv, TermsLeft, [Next]_vars
  PROVE  TermsLeft'
<1> SUFFICES ASSUME NEW q \in Live'
             PROVE  token'[q] <= faults' + (IF isLeader'[q] THEN 1 ELSE 0)
  BY DEF TermsLeft
<1> USE DEF Live, TypeOK, Locations, counters, redisVars, procVars, timeVars
<1>0. /\ TypeOK /\ ControlInv(q) /\ q \in Procs
      /\ q \in Live => token[q] <= faults + (IF isLeader[q] THEN 1 ELSE 0)
      /\ isLeader[q] => OwnsKey(q)
  BY LeaderOwnsKey DEF PromptInv, TypesInv, CTypeOK, RenewalInTime, TermsLeft,
                       LeaderHoldsLease, Leaders, OwnsKey
<1>1. CASE Tick
  BY <1>0, <1>1 DEF Tick
<1>2. CASE RedisLosesKey
  BY <1>0, <1>2 DEF RedisLosesKey
<1>3. ASSUME NEW p \in Procs, Signal(p) \/ Crash(p) \/ Restart(p)
      PROVE  token'[q] <= faults' + (IF isLeader'[q] THEN 1 ELSE 0)
  <2>1. CASE Signal(p)
    BY <1>0, <2>1 DEF Signal, CountStop
  <2>2. CASE Crash(p)
    BY <1>0, <2>2 DEF Crash, CountStop, Exit
  <2>3. CASE Restart(p)
    BY <1>0, <2>3 DEF Restart, ControlInv
  <2> QED
    BY <1>3, <2>1, <2>2, <2>3
<1>4. ASSUME NEW p \in Procs, Step(p)
      PROVE  token'[q] <= faults' + (IF isLeader'[q] THEN 1 ELSE 0)
  <2> USE DEF BackToSelect, TakeTick, StepDown, Serving, Fault
  <2>1. CASE AcquireWins(p) \/ AcquireLoses(p) \/ AcquireFails(p)
    BY <1>0, <2>1 DEF AcquireWins, AcquireLoses, AcquireFails
  <2>2. CASE BecomeLeader(p)
    BY <1>0, <2>2 DEF BecomeLeader, ControlInv
  <2>3. CASE RenewGet(p) \/ RenewExpire(p)
    BY <1>0, <2>3 DEF RenewGet, RenewExpire
  <2>4. CASE RenewLoses(p)
    BY <1>0, <2>4 DEF RenewLoses
  <2>5. CASE RenewGetFails(p)
    BY <1>0, <2>5 DEF RenewGetFails
  <2>6. CASE RenewCancelled(p) \/ RenewExpireFails(p)
    BY <1>0, <2>6 DEF RenewCancelled, RenewExpireFails
  <2>7. CASE Stop(p)
    BY <1>0, <2>7 DEF Stop, Exit
  <2> QED
    BY <1>4, <2>1, <2>2, <2>3, <2>4, <2>5, <2>6, <2>7 DEF Step
<1>5. CASE UNCHANGED vars
  BY <1>0, <1>5 DEF vars
<1> QED
  BY <1>1, <1>2, <1>3, <1>4, <1>5 DEF Next, Environment

(* When the stopwatch starts, everybody who may win has the longest        *)
(* vacancy ahead.                                                          *)
LEMMA VacancyBegins ==
  ASSUME TypeOK', RenewalInTime', Vacant', vacancy' = 0
  PROVE  \E p \in Procs : WillLead(p)' \/ WillTry(p)'
<1>1. PICK p \in Procs : p \in Live' /\ ~isLeader'[p] /\ ControlInv(p)'
  BY DEF Vacant, Live, Leaders, RenewalInTime
<1>2. pc'[p] = "acquired" \/ pc'[p] = "select"
  BY <1>1 DEF Live, TypeOK, Locations, ControlInv
<1>3. CASE pc'[p] = "acquired"
  BY <1>1, <1>3, TimingAssumption DEF WillLead, MaxVacancy, TypeOK
<1>4. CASE pc'[p] = "select"
  BY <1>1, <1>4, TimingAssumption DEF WillTry, NextTry, MaxVacancy, Live, TypeOK
<1> QED
  BY <1>2, <1>3, <1>4

(* Every unit of time brings the next leader nearer by one.                *)
LEMMA VacancyTicks ==
  ASSUME Prompt = Procs, PromptInv, vacancy \in Nat, NEW p \in Procs,
         WillLead(p) \/ WillTry(p), Tick,
         vacancy' = IF vacancy > MaxVacancy THEN vacancy ELSE vacancy + 1
  PROVE  WillLead(p)' \/ WillTry(p)'
<1>0. TypeOK /\ ControlInv(p) /\ (Busy(p) => lag[p] < MaxLag)
  BY DEF Tick, PromptInv, TypesInv, CTypeOK, RenewalInTime
<1> USE TimingAssumption DEF TypeOK, KeyExists
<1>1. CASE WillLead(p)
  <2>1. lag'[p] = lag[p] + 1 /\ vacancy' = vacancy + 1 /\ pc' = pc
    BY <1>0, <1>1 DEF Tick, Busy, WillLead, procVars, MaxVacancy
  <2> QED
    BY <1>0, <1>1, <2>1 DEF WillLead, MaxVacancy
<1>2. CASE WillTry(p)
  <2>1. UNCHANGED procVars /\ pc[p] = "select" /\ ~ctxDone[p] /\ NextTry(p) \in Nat
    BY <1>0, <1>2 DEF Tick, WillTry, NextTry
  <2>2. vacancy' = vacancy + 1
    BY <1>0, <1>2, <2>1 DEF WillTry, MaxVacancy
  <2>3. NextTry(p)' <= NextTry(p) - 1
    <3>1. /\ ttl' = IF ttl > 0 THEN ttl - 1 ELSE 0
          /\ tick'[p] = (tick[p] \/ timer[p] = 1)
          /\ ~tick[p] => timer'[p] = IF timer[p] = 1 THEN RenewInterval ELSE timer[p] - 1
      BY <2>1 DEF Tick
    <3>2. /\ tick[p] => lag'[p] = lag[p] + 1 /\ tick'[p]
          /\ ~tick[p] => lag'[p] = 0
      BY <1>0, <2>1 DEF Tick, Busy, ControlInv
    <3>3. lag'[p] \in Nat /\ timer[p] \in 1..RenewInterval /\ lag[p] \in Nat /\ ttl \in Nat
      BY <1>0, <3>2
    <3>4. CASE tick[p]
      BY <3>1, <3>2, <3>3, <3>4 DEF NextTry
    <3>5. CASE ~tick[p] /\ timer[p] = 1
      <4>1. tick'[p] /\ lag'[p] = 0
        BY <3>1, <3>2, <3>5
      <4> QED
        BY <3>1, <3>3, <3>5, <4>1 DEF NextTry
    <3>6. CASE ~tick[p] /\ timer[p] # 1
      <4>1. ~tick'[p] /\ timer'[p] = timer[p] - 1
        BY <3>1, <3>6
      <4> QED
        BY <3>1, <3>3, <3>6, <4>1 DEF NextTry
    <3> QED
      BY <3>4, <3>5, <3>6
  <2>4. NextTry(p)' \in Int
    BY <1>0, <2>1 DEF NextTry, Tick
  <2> QED
    BY <1>0, <1>2, <2>1, <2>2, <2>3, <2>4 DEF WillTry, MaxVacancy, procVars
<1> QED
  BY <1>1, <1>2

(* A step that neither fails nor ends the vacancy: somebody else wins the  *)
(* key that p waits for, or p does, or p's try comes too early.            *)
LEMMA VacancyGoesOn ==
  ASSUME MaxFaults < MaxToken, PromptInv, TermsLeft, vacancy \in Nat, vacancy' = vacancy,
         Leaders = {}, Leaders' = {}, counters' = counters,
         NEW p \in Procs, WillLead(p) \/ WillTry(p),
         NEW r \in Procs, Step(r) \/ Restart(r)
  PROVE  \E q \in Procs : WillLead(q)' \/ WillTry(q)'
<1>0. /\ TypeOK /\ ControlInv(p) /\ ControlInv(r)
      /\ ~isLeader[p] /\ ~isLeader[r] /\ ~isLeader'[r] /\ pc[r] # "matched"
      /\ WillTry(p) => token[p] < MaxToken
  BY BoundsAssumption
     DEF PromptInv, TypesInv, CTypeOK, RenewalInTime, ControlInv, Leaders, TermsLeft, WillTry,
         Live, TypeOK
<1>1. MaxLag \in Nat /\ LeaseTTL \in Nat /\ RenewInterval \in Nat
  BY TimingAssumption
<1>2. \/ AcquireWins(r)
      \/ /\ AcquireLoses(r) \/ Stop(r) \/ Restart(r)
         /\ UNCHANGED redisVars
  <2>1. ~Fault
    BY <1>0 DEF Fault, counters, TypeOK
  <2>2. ~BecomeLeader(r)
    BY <1>0 DEF BecomeLeader, TypeOK
  <2> QED
    BY <1>0, <2>1, <2>2
       DEF Step, Restart, AcquireLoses, AcquireFails, RenewGet, RenewLoses, RenewGetFails, RenewExpire,
           RenewCancelled, RenewExpireFails, Stop
<1> USE DEF TypeOK, KeyExists
<1>3. NextTry(p) >= 0
  BY <1>0, <1>1 DEF NextTry
<1>4. CASE AcquireWins(r)
  <2>1. pc'[r] = "acquired" /\ lag'[r] = lag[r] /\ lag[r] \in 0..MaxLag
        /\ ~KeyExists /\ pc[r] = "select" /\ tick[r]
    BY <1>0, <1>4 DEF AcquireWins, SetNXSucceeds, TakeTick, Serving
  <2>2. CASE WillTry(p)
    <3>1. vacancy + MaxLag <= MaxVacancy
      BY <1>0, <1>1, <1>3, <2>2 DEF WillTry, NextTry, MaxVacancy
    <3> QED
      BY <1>1, <2>1, <3>1 DEF WillLead, MaxVacancy
  <2>3. CASE WillLead(p)
    BY <1>0, <1>4, <2>1, <2>3, OthersKept DEF WillLead, MaxVacancy
  <2> QED
    BY <2>2, <2>3
<1>5. CASE (AcquireLoses(r) \/ Stop(r) \/ Restart(r)) /\ UNCHANGED redisVars
  <2>1. CASE p # r
    <3>1. pc'[p] = pc[p] /\ tick'[p] = tick[p] /\ timer'[p] = timer[p] /\ lag'[p] = lag[p]
          /\ isLeader'[p] = isLeader[p] /\ ctxDone'[p] = ctxDone[p]
      BY <1>0, <2>1, OthersKept
    <3> QED
      BY <1>5, <3>1 DEF WillLead, WillTry, NextTry, MaxVacancy, redisVars
  <2>2. CASE p = r
    <3>1. WillTry(p) /\ AcquireLoses(p) /\ KeyExists
      BY <1>0, <1>5, <2>2 DEF WillLead, WillTry, AcquireLoses, Stop, Restart, TakeTick, Serving
    <3>2. pc'[p] = "select" /\ ~isLeader'[p] /\ ~ctxDone'[p] /\ NextTry(p)' = NextTry(p)
      BY <1>0, <1>5, <3>1 DEF AcquireLoses, BackToSelect, WillTry, NextTry, redisVars
    <3> QED
      BY <3>1, <3>2 DEF WillTry, MaxVacancy
  <2> QED
    BY <2>1, <2>2
<1> QED
  BY <1>2, <1>4, <1>5

LEMMA UntimedStep ==
  ASSUME PromptInv, MaxLosses = 0,
         CEnvironment \/ PutApplied \/ \E p \in Procs : CStep(p) \/ RunCallback(p) \/ Raise(p)
  PROVE  \/ UNCHANGED vars
         \/ counters' # counters
         \/ \E r \in Procs : Step(r) \/ Restart(r)
<1>0. TypeOK
  BY DEF PromptInv, TypesInv, CTypeOK
<1>1. CASE CEnvironment
  <2>1. ASSUME NEW p \in Procs, Signal(p) \/ Crash(p) PROVE counters' # counters
    BY <1>0, <2>1 DEF Signal, Crash, CountStop, counters, TypeOK
  <2>2. ~RedisLosesKey
    BY <1>0 DEF RedisLosesKey, TypeOK
  <2> QED
    BY <1>1, <2>1, <2>2 DEF CEnvironment, Signalled
<1>2. ASSUME NEW p \in Procs, CStep(p) PROVE Step(p)
  BY <1>2 DEF CStep, Wins, LosesLeadership, Campaigns, Step
<1>3. ASSUME NEW p \in Procs, RunCallback(p) PROVE UNCHANGED vars
  BY <1>3, NoPanic DEF RunCallback, OnLeader, OnFollowerChecks, OnFollowerCancels, OnFollowerClears
<1>4. ASSUME PutApplied \/ \E p \in Procs : Raise(p) PROVE UNCHANGED vars
  BY <1>4 DEF PutApplied, Raise
<1> QED
  BY <1>1, <1>2, <1>3, <1>4

TInv == PromptInv /\ TermsLeft /\ VacancyInv /\ vacancy \in Nat

LEMMA TInvInit == TInit => TInv
<1> SUFFICES ASSUME TInit PROVE TInv
  OBVIOUS
<1>1. PromptInv
  BY PromptInvInit DEF TInit
<1>2. TermsLeft
  BY DEF TInit, CInit, Init, TermsLeft, Live
<1>3. VacancyInv
  BY <1>1, TimingAssumption
     DEF TInit, CInit, Init, VacancyInv, Vacant, Live, Leaders, WillTry, NextTry, KeyExists, MaxVacancy
<1> QED
  BY <1>1, <1>2, <1>3 DEF TInit, TInv

LEMMA VacancyInvStep ==
  ASSUME Prompt = Procs, MaxLosses = 0, MaxFaults < MaxToken,
         TInv, [TNext]_tvars, PromptInv'
  PROVE  VacancyInv' /\ vacancy' \in Nat
<1>0. TypeOK' /\ RenewalInTime'
  BY DEF PromptInv, TypesInv, CTypeOK
<1>1. vacancy' \in Nat /\ (~Vacant' => vacancy' = 0)
  BY DEF TInv, TNext, tvars, cvars, vars, procVars, VacancyInv, Vacant, Live, Leaders
<1> SUFFICES ASSUME Vacant', vacancy' # 0
             PROVE  \E q \in Procs : WillLead(q)' \/ WillTry(q)'
  BY <1>0, <1>1, VacancyBegins DEF VacancyInv
<1>2. CASE /\ CTick
           /\ vacancy' = IF ~Vacant' THEN 0
                         ELSE IF vacancy > MaxVacancy THEN vacancy ELSE vacancy + 1
  <2>1. Tick /\ Vacant
    BY <1>2 DEF CTick, Tick, procVars, Vacant, Live, Leaders
  <2>2. PICK p \in Procs : WillLead(p) \/ WillTry(p)
    BY <2>1 DEF TInv, VacancyInv
  <2> QED
    BY <1>2, <2>1, <2>2, VacancyTicks DEF TInv
<1>3. CASE /\ CEnvironment \/ PutApplied \/ \E p \in Procs : CStep(p) \/ RunCallback(p) \/ Raise(p)
           /\ vacancy' = IF Vacant' /\ counters' = counters THEN vacancy ELSE 0
  <2>1. vacancy' = vacancy /\ counters' = counters
    BY <1>3
  <2>2. Vacant
    BY <2>1 DEF TInv, VacancyInv
  <2>3. PICK p \in Procs : WillLead(p) \/ WillTry(p)
    BY <2>2 DEF TInv, VacancyInv
  <2>4. CASE UNCHANGED vars
    BY <2>1, <2>3, <2>4
       DEF WillLead, WillTry, NextTry, KeyExists, MaxVacancy, vars, redisVars, procVars, timeVars
  <2>5. ASSUME NEW r \in Procs, Step(r) \/ Restart(r)
        PROVE  \E q \in Procs : WillLead(q)' \/ WillTry(q)'
    BY <2>1, <2>2, <2>3, <2>5, VacancyGoesOn DEF TInv, Vacant
  <2> QED
    BY <1>3, <2>1, <2>4, <2>5, UntimedStep DEF TInv
<1>4. CASE UNCHANGED tvars
  <2>1. UNCHANGED <<vars, vacancy>> /\ Vacant
    BY <1>4 DEF tvars, cvars, TInv, VacancyInv, vars, procVars, Vacant, Live, Leaders
  <2>2. PICK p \in Procs : WillLead(p) \/ WillTry(p)
    BY <2>1 DEF TInv, VacancyInv
  <2> QED
    BY <2>1, <2>2
       DEF WillLead, WillTry, NextTry, KeyExists, MaxVacancy, vars, redisVars, procVars, timeVars
<1> QED
  BY <1>2, <1>3, <1>4 DEF TNext

(* A behaviour with a stopwatch is one of the coordinators.                *)
LEMMA StopwatchOnly == TSpec => CSpec
<1>1. TInit => CInit
  BY DEF TInit
<1>2. [TNext]_tvars => [CNext]_cvars
  BY DEF TNext, CNext, tvars
<1> QED
  BY <1>1, <1>2, PTL DEF TSpec, CSpec

(* After the last failure, leadership is never vacant longer than the      *)
(* lease that is left, a renewInterval and two delays of MaxLag, for any   *)
(* number of coordinators and any durations (election.go:17-18, 50-63), as *)
(* long as no process runs out of terms in the model.                      *)
THEOREM FailoverBoundedHolds ==
  ASSUME Prompt = Procs, MaxLosses = 0, PromptCallbacks = TRUE, MaxFaults < MaxToken
  PROVE  TSpec => []FailoverBounded
<1>1. TInv /\ [TNext]_tvars => TInv'
  <2> SUFFICES ASSUME TInv, [TNext]_tvars PROVE TInv'
    OBVIOUS
  <2>1. [CNext]_cvars
    BY DEF TNext, CNext, tvars
  <2>2. PromptInv'
    BY <2>1, PromptInvStep DEF TInv
  <2>3. TermsLeft'
    BY <2>1, PromptElectionStep, TermsLeftStep DEF TInv
  <2> QED
    BY <2>2, <2>3, VacancyInvStep DEF TInv
<1>2. TInv => FailoverBounded
  <2> SUFFICES ASSUME TInv, vacancy # 0 PROVE vacancy <= MaxVacancy
    BY TimingAssumption DEF TInv, FailoverBounded, MaxVacancy
  <2>1. PICK p \in Procs : WillLead(p) \/ WillTry(p)
    BY DEF TInv, VacancyInv
  <2>2. TypeOK
    BY DEF TInv, PromptInv, TypesInv, CTypeOK
  <2>3. NextTry(p) >= 0 /\ NextTry(p) \in Int
    BY <2>2, TimingAssumption DEF NextTry, TypeOK
  <2> QED
    BY <2>1, <2>2, <2>3, TimingAssumption DEF TInv, WillLead, WillTry, MaxVacancy, TypeOK
<1> QED
  BY <1>1, <1>2, TInvInit, PTL DEF TSpec
=============================================================================
