--------------------------- MODULE ElectionProofs ---------------------------
(***************************************************************************)
(* Proofs about Election for any set of processes and any durations that   *)
(* satisfy TimingAssumption.                                               *)
(***************************************************************************)
EXTENDS Election, TLAPS

LEMMA TypeOKInit == Init => TypeOK
BY ProcsAssumption, TimingAssumption, BoundsAssumption DEF Init, TypeOK, Locations

(* No step of a process, of its environment or of time leaves the types.   *)
LEMMA TypeOKStep ==
  ASSUME TypeOK, [Next]_vars
  PROVE  TypeOK'
<1> USE ProcsAssumption, TimingAssumption, BoundsAssumption
<1> USE DEF TypeOK, Locations, counters, redisVars, procVars, timeVars
<1>1. CASE Tick
  BY <1>1 DEF Tick, KeyExists, Busy
<1>2. CASE RedisLosesKey
  BY <1>2 DEF RedisLosesKey
<1>3. ASSUME NEW p \in Procs, Signal(p) \/ Crash(p) \/ Restart(p) PROVE TypeOK'
  <2>1. CASE Signal(p)
    BY <2>1 DEF Signal, CountStop
  <2>2. CASE Crash(p)
    BY <2>2 DEF Crash, CountStop, Exit
  <2>3. CASE Restart(p)
    BY <2>3 DEF Restart
  <2> QED
    BY <1>3, <2>1, <2>2, <2>3
<1>4. ASSUME NEW p \in Procs, Step(p) PROVE TypeOK'
  <2> USE DEF TakeTick, BackToSelect, Fault, StepDown
  <2>1. CASE AcquireWins(p)
    BY <2>1 DEF AcquireWins, SetNXSucceeds, StoreLease
  <2>2. CASE AcquireLoses(p)
    BY <2>2 DEF AcquireLoses
  <2>3. CASE AcquireFails(p)
    BY <2>3 DEF AcquireFails, SetNXSucceeds, StoreLease
  <2>4. CASE BecomeLeader(p)
    BY <2>4 DEF BecomeLeader
  <2>5. CASE RenewGet(p)
    BY <2>5 DEF RenewGet
  <2>6. CASE RenewLoses(p)
    BY <2>6 DEF RenewLoses
  <2>7. CASE RenewGetFails(p)
    BY <2>7 DEF RenewGetFails
  <2>8. CASE RenewExpire(p)
    BY <2>8 DEF RenewExpire, ExtendKey, KeyExists
  <2>9. CASE RenewCancelled(p)
    BY <2>9 DEF RenewCancelled
  <2>10. CASE RenewExpireFails(p)
    BY <2>10 DEF RenewExpireFails, ExtendKey, KeyExists
  <2>11. CASE Stop(p)
    BY <2>11 DEF Stop, ReleaseKey, Exit
  <2> QED
    BY <1>4, <2>1, <2>2, <2>3, <2>4, <2>5, <2>6, <2>7, <2>8, <2>9, <2>10, <2>11 DEF Step
<1>5. CASE UNCHANGED vars
  BY <1>5 DEF vars
<1> QED
  BY <1>1, <1>2, <1>3, <1>4, <1>5 DEF Next, Environment

(* Every reachable state has the types of TypeOK: the control locations    *)
(* and timers of election.go, whatever fails, crashes or is paused.        *)
THEOREM TypeCorrect == Spec => []TypeOK
<1>1. TypeOK /\ [Next]_vars => TypeOK'
  BY TypeOKStep
<1> QED
  BY <1>1, TypeOKInit, PTL DEF Spec

-----------------------------------------------------------------------------
(* The rest is about prompt processes and a Redis that keeps the key.      *)

(* Nobody leads and no command is under way at the start.                 *)
LEMMA RenewalInTimeInit == Init => RenewalInTime
BY DEF Init, RenewalInTime, ControlInv, LeaseInv, Busy, Serving

(* Every step of a process, of its environment and of time keeps the lease *)
(* of the leader ahead of its next renewal.                                *)
LEMMA RenewalInTimeStep ==
  ASSUME Prompt = Procs, MaxLosses = 0, TypeOK, RenewalInTime, [Next]_vars
  PROVE  RenewalInTime'
<1> USE TimingAssumption, BoundsAssumption
<1> SUFFICES ASSUME NEW q \in Procs PROVE ControlInv(q)' /\ LeaseInv(q)'
  BY DEF RenewalInTime
<1>0. ControlInv(q) /\ LeaseInv(q)
  BY DEF RenewalInTime
<1> USE DEF ControlInv, LeaseInv, Busy, Serving, KeyExists, TypeOK, Locations,
            counters, redisVars, procVars, timeVars
<1>1. CASE Tick
  BY <1>0, <1>1 DEF Tick
<1>2. CASE RedisLosesKey
  BY <1>2 DEF RedisLosesKey
<1>3. ASSUME NEW p \in Procs, Signal(p) \/ Crash(p) \/ Restart(p)
      PROVE  ControlInv(q)' /\ LeaseInv(q)'
  <2>1. CASE Signal(p)
    BY <1>0, <2>1 DEF Signal, CountStop
  <2>2. CASE Crash(p)
    BY <1>0, <2>2 DEF Crash, CountStop, Exit
  <2>3. CASE Restart(p)
    BY <1>0, <2>3 DEF Restart
  <2> QED
    BY <1>3, <2>1, <2>2, <2>3
<1>4. ASSUME NEW p \in Procs, Step(p)
      PROVE  ControlInv(q)' /\ LeaseInv(q)'
  <2>0. ControlInv(p) /\ LeaseInv(p)
    BY DEF RenewalInTime
  <2> USE DEF TakeTick, BackToSelect, Fault, StepDown
  <2>1. CASE AcquireWins(p)
    BY <1>0, <2>0, <2>1 DEF AcquireWins, SetNXSucceeds, StoreLease
  <2>2. CASE AcquireLoses(p)
    BY <1>0, <2>0, <2>2 DEF AcquireLoses
  <2>3. CASE AcquireFails(p)
    BY <1>0, <2>0, <2>3 DEF AcquireFails, SetNXSucceeds, StoreLease
  <2>4. CASE BecomeLeader(p)
    BY <1>0, <2>0, <2>4 DEF BecomeLeader
  <2>5. CASE RenewGet(p)
    BY <1>0, <2>0, <2>5 DEF RenewGet, OwnsKey
  <2>6. CASE RenewLoses(p)
    BY <1>0, <2>0, <2>6 DEF RenewLoses
  <2>7. CASE RenewGetFails(p)
    BY <1>0, <2>0, <2>7 DEF RenewGetFails
  <2>8. CASE RenewExpire(p)
    BY <1>0, <2>0, <2>8 DEF RenewExpire, ExtendKey
  <2>9. CASE RenewCancelled(p)
    BY <1>0, <2>0, <2>9 DEF RenewCancelled
  <2>10. CASE RenewExpireFails(p)
    BY <1>0, <2>0, <2>10 DEF RenewExpireFails, ExtendKey
  <2>11. CASE Stop(p)
    BY <1>0, <2>0, <2>11 DEF Stop, ReleaseKey, Exit
  <2> QED
    BY <1>4, <2>1, <2>2, <2>3, <2>4, <2>5, <2>6, <2>7, <2>8, <2>9, <2>10, <2>11 DEF Step
<1>5. CASE UNCHANGED vars
  BY <1>0, <1>5 DEF vars
<1> QED
  BY <1>1, <1>2, <1>3, <1>4, <1>5 DEF Next, Environment

LEMMA PromptInvariant ==
  ASSUME Prompt = Procs, MaxLosses = 0
  PROVE  Spec => [](TypeOK /\ RenewalInTime)
<1>1. TypeOK /\ RenewalInTime /\ [Next]_vars => RenewalInTime'
  BY RenewalInTimeStep
<1> QED
  BY <1>1, TypeCorrect, RenewalInTimeInit, PTL DEF Spec

LEMMA LeaderOwnsKey ==
  ASSUME TypeOK, RenewalInTime
  PROVE  LeaderHoldsLease
BY TimingAssumption
   DEF TypeOK, RenewalInTime, LeaseInv, LeaderHoldsLease, Leaders, Busy, Serving, KeyExists

LEMMA LeaderOwnsKeyNext ==
  ASSUME TypeOK', RenewalInTime'
  PROVE  LeaderHoldsLease'
BY TimingAssumption
   DEF TypeOK, RenewalInTime, LeaseInv, LeaderHoldsLease, Leaders, Busy, Serving, KeyExists

(* Every leader is the process that stored the current value of the key,   *)
(* under its own token: what renew reads back (election.go:84-90) is true  *)
(* at all times, for any number of prompt coordinators.                    *)
THEOREM LeaderHoldsLeaseHolds ==
  ASSUME Prompt = Procs, MaxLosses = 0
  PROVE  Spec => []LeaderHoldsLease
BY LeaderOwnsKey, PromptInvariant, PTL

(* Two coordinators never both take themselves for the leader (Run,        *)
(* election.go:41-66) while every tick is served within MaxLag and Redis   *)
(* keeps the key.                                                          *)
THEOREM AtMostOneLeaderHolds ==
  ASSUME Prompt = Procs, MaxLosses = 0
  PROVE  Spec => []AtMostOneLeader
<1>1. LeaderHoldsLease => AtMostOneLeader
  BY DEF LeaderHoldsLease, AtMostOneLeader, Leaders
<1> QED
  BY <1>1, LeaderHoldsLeaseHolds, PTL

(* For prompt coordinators the GET and the EXPIRE of renew act as one: the *)
(* key that EXPIRE extends is still the one that GET returned              *)
(* (election.go:84-91).                                                    *)
THEOREM RenewExtendsOwnLeaseHolds ==
  ASSUME Prompt = Procs, MaxLosses = 0
  PROVE  Spec => RenewExtendsOwnLease
<1>1. TypeOK /\ RenewalInTime =>
        \A p \in Procs :
          (pc[p] = "matched" /\ pc'[p] = "select" /\ isLeader'[p] /\ KeyExists)
            => lease.proc = p
  BY DEF RenewalInTime, ControlInv, LeaseInv
<1> QED
  BY <1>1, PromptInvariant, PTL DEF RenewExtendsOwnLease

(* For prompt coordinators the DEL of a stopping leader removes its own    *)
(* lease (election.go:45-48).                                              *)
THEOREM ReleasesOwnLeaseHolds ==
  ASSUME Prompt = Procs, MaxLosses = 0
  PROVE  Spec => ReleasesOwnLease
<1>1. TypeOK /\ RenewalInTime =>
        \A p \in Procs :
          (isLeader[p] /\ pc[p] = "select" /\ pc'[p] = "down" /\ KeyExists /\ ttl' = 0)
            => lease.proc = p
  BY DEF RenewalInTime, LeaseInv
<1> QED
  BY <1>1, PromptInvariant, PTL DEF ReleasesOwnLease
=============================================================================
