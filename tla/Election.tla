------------------------------ MODULE Election ------------------------------
(***************************************************************************)
(* Leader election of the coordinators (coordinator/election.go): a Redis  *)
(* key with a time to live is the lease; every process runs Elector.Run,   *)
(* which on each ticker tick either tries SET NX (follower) or GET + EXPIRE *)
(* (leader).  Each Redis command is one atomic step; the process may be     *)
(* delayed, signalled or killed between any two of them.                    *)
(*                                                                          *)
(* Time is discrete.  Tick lets one unit pass; a process in Prompt never    *)
(* stays busy for more than MaxLag units, the others may be paused.         *)
(***************************************************************************)
EXTENDS Integers, FiniteSets

CONSTANTS
  Procs,          \* the coordinator processes
  Host,           \* [Procs -> host names]: os.Hostname(), the nodeID of a process
  None,           \* "no process has stored a lease yet"
  LeaseTTL,       \* leaseTTL, in time units
  RenewInterval,  \* renewInterval, in time units
  MaxLag,         \* longest time a prompt process takes to serve a tick
  Prompt,         \* the processes that are never paused longer than MaxLag
  MaxToken,       \* bound: leaderships won by one process run
  MaxFaults,      \* bound: Redis commands whose execution or reply fails
  MaxStops,       \* bound: crashes and SIGTERMs
  MaxLosses       \* bound: Redis restarts that lose the key

ASSUME ProcsAssumption ==
  /\ None \notin Procs
  /\ DOMAIN Host = Procs
  /\ Prompt \subseteq Procs

ASSUME TimingAssumption ==
  /\ LeaseTTL \in Nat /\ RenewInterval \in Nat /\ MaxLag \in Nat
  /\ MaxLag < RenewInterval
  /\ RenewInterval + MaxLag < LeaseTTL

ASSUME BoundsAssumption ==
  /\ MaxToken \in Nat /\ MaxFaults \in Nat
  /\ MaxStops \in Nat /\ MaxLosses \in Nat

VARIABLES
  lease,     \* value last stored under leaderKey: the process and its token
  ttl,       \* time left before the key expires; the key exists iff ttl > 0
  pc,        \* where Elector.Run of a process is
  isLeader,  \* the local variable isLeader of Run
  token,     \* Elector.token
  ctxDone,   \* the process's context is cancelled (SIGINT or SIGTERM)
  timer,     \* time until the ticker of a process fires
  tick,      \* a tick is buffered in ticker.C
  lag,       \* how long a prompt process has been busy
  faults, stops, losses   \* the bounded events that happened so far

redisVars == <<lease, ttl>>
procVars  == <<pc, isLeader, token, ctxDone>>
timeVars  == <<timer, tick, lag>>
counters  == <<faults, stops, losses>>
vars      == <<redisVars, procVars, timeVars, counters>>

(* "select": blocked in the select; "acquired": SET NX answered true, the  *)
(* answer not yet processed; "matched": GET returned the process's own     *)
(* value, EXPIRE not yet sent; "down": the process does not run.           *)
Locations == {"select", "acquired", "matched", "down"}

TypeOK ==
  /\ lease \in [proc : Procs \cup {None}, token : Nat]
  /\ ttl \in 0..LeaseTTL
  /\ ttl > 0 => lease.proc # None
  /\ pc \in [Procs -> Locations]
  /\ isLeader \in [Procs -> BOOLEAN]
  /\ token \in [Procs -> Nat]
  /\ ctxDone \in [Procs -> BOOLEAN]
  /\ timer \in [Procs -> 1..RenewInterval]
  /\ tick \in [Procs -> BOOLEAN]
  /\ lag \in [Procs -> 0..MaxLag]
  /\ faults \in 0..MaxFaults /\ stops \in 0..MaxStops /\ losses \in 0..MaxLosses

-----------------------------------------------------------------------------

KeyExists == ttl > 0

(* Faulty variant: renew does not compare the value it read.               *)
OwnsKey_NoToken(p) == KeyExists

(* The value "nodeID:token" stored under the key is the one the process    *)
(* would write: hosts are compared, not processes.                         *)
OwnsKey(p) ==
  /\ KeyExists
  /\ Host[lease.proc] = Host[p]
  /\ lease.token = token[p]

Serving(p) == pc[p] = "select" /\ tick[p]
Busy(p) ==
  \/ pc[p] \in {"acquired", "matched"}
  \/ pc[p] = "select" /\ (tick[p] \/ ctxDone[p])

(* The process goes back to the select of Run.                             *)
BackToSelect(p) ==
  /\ pc' = [pc EXCEPT ![p] = "select"]
  /\ lag' = [lag EXCEPT ![p] = 0]

TakeTick(p) ==
  /\ Serving(p)
  /\ tick' = [tick EXCEPT ![p] = FALSE]

Fault ==
  /\ faults < MaxFaults
  /\ faults' = faults + 1
  /\ UNCHANGED <<stops, losses>>

Init ==
  /\ lease = [proc |-> None, token |-> 0]
  /\ ttl = 0
  /\ pc = [p \in Procs |-> "select"]
  /\ isLeader = [p \in Procs |-> FALSE]
  /\ token = [p \in Procs |-> 0]
  /\ ctxDone = [p \in Procs |-> FALSE]
  /\ timer \in [Procs -> 1..RenewInterval]
  /\ tick = [p \in Procs |-> FALSE]
  /\ lag = [p \in Procs |-> 0]
  /\ faults = 0 /\ stops = 0 /\ losses = 0

-----------------------------------------------------------------------------
(* tryAcquire *)

(* Faulty variant: the key is stored with the wrong duration.              *)
StoreLease_TwiceTheTTL(p) ==
  /\ lease' = [proc |-> p, token |-> token[p] + 1]
  /\ ttl' = 2 * LeaseTTL

StoreLease(p) ==
  /\ lease' = [proc |-> p, token |-> token[p] + 1]
  /\ ttl' = LeaseTTL

(* Faulty variant: SET without NX.                                         *)
SetNXSucceeds_Unconditional(p) == token[p] < MaxToken /\ StoreLease(p)

SetNXSucceeds(p) ==
  /\ ~KeyExists
  /\ token[p] < MaxToken
  /\ StoreLease(p)

(* SET NX stores the lease and answers true.                               *)
AcquireWins(p) ==
  /\ ~isLeader[p] /\ ~ctxDone[p]
  /\ TakeTick(p)
  /\ SetNXSucceeds(p)
  /\ pc' = [pc EXCEPT ![p] = "acquired"]
  /\ UNCHANGED <<isLeader, token, ctxDone, timer, lag, counters>>

(* Faulty variant: a try that loses refreshes the key all the same.        *)
AcquireLoses_RefreshesKey(p) ==
  /\ ~isLeader[p]
  /\ KeyExists \/ ctxDone[p] \/ token[p] = MaxToken
  /\ TakeTick(p)
  /\ ttl' = IF KeyExists THEN LeaseTTL ELSE ttl
  /\ BackToSelect(p)
  /\ UNCHANGED <<lease, isLeader, token, ctxDone, timer, counters>>

(* The key is held, or the context is cancelled and no command is sent (or *)
(* the process has used up MaxToken and no longer competes).               *)
AcquireLoses(p) ==
  /\ ~isLeader[p]
  /\ KeyExists \/ ctxDone[p] \/ token[p] = MaxToken
  /\ TakeTick(p)
  /\ BackToSelect(p)
  /\ UNCHANGED <<redisVars, isLeader, token, ctxDone, timer, counters>>

(* The command fails.  Its reply may be lost after the key was stored: the *)
(* process stays a follower and the lease belongs to nobody until it       *)
(* expires.                                                                *)
AcquireFails(p) ==
  /\ ~isLeader[p] /\ ~ctxDone[p]
  /\ TakeTick(p)
  /\ \/ SetNXSucceeds(p)
     \/ UNCHANGED redisVars
  /\ Fault
  /\ BackToSelect(p)
  /\ UNCHANGED <<isLeader, token, ctxDone, timer>>

(* Run sees that tryAcquire returned true.                                 *)
BecomeLeader(p) ==
  /\ pc[p] = "acquired"
  /\ isLeader' = [isLeader EXCEPT ![p] = TRUE]
  /\ token' = [token EXCEPT ![p] = @ + 1]
  /\ BackToSelect(p)
  /\ UNCHANGED <<redisVars, ctxDone, timer, tick, counters>>

-----------------------------------------------------------------------------
(* renew *)

StepDown(p) ==
  /\ isLeader' = [isLeader EXCEPT ![p] = FALSE]
  /\ BackToSelect(p)

(* GET returns the process's own value.                                    *)
RenewGet(p) ==
  /\ isLeader[p] /\ ~ctxDone[p]
  /\ OwnsKey(p)
  /\ TakeTick(p)
  /\ pc' = [pc EXCEPT ![p] = "matched"]
  /\ UNCHANGED <<redisVars, isLeader, token, ctxDone, timer, lag, counters>>

(* GET returns nil or another value, or the context is cancelled and no    *)
(* command is sent: renew returns false.                                   *)
RenewLoses(p) ==
  /\ isLeader[p]
  /\ ~OwnsKey(p) \/ ctxDone[p]
  /\ TakeTick(p)
  /\ StepDown(p)
  /\ UNCHANGED <<redisVars, token, ctxDone, timer, counters>>

(* The GET fails, for instance on a network error: renew returns false.    *)
RenewGetFails(p) ==
  /\ isLeader[p] /\ ~ctxDone[p]
  /\ TakeTick(p)
  /\ Fault
  /\ StepDown(p)
  /\ UNCHANGED <<redisVars, token, ctxDone, timer>>

(* Faulty variant: EXPIRE with the wrong one of the two durations.         *)
ExtendKey_ByRenewInterval ==
  /\ ttl' = IF KeyExists THEN RenewInterval ELSE ttl
  /\ UNCHANGED lease

ExtendKey ==
  /\ ttl' = IF KeyExists THEN LeaseTTL ELSE ttl
  /\ UNCHANGED lease

(* EXPIRE extends whatever is stored under the key by now.  On a missing   *)
(* key it answers 0 with no error, which renew takes for success.          *)
RenewExpire(p) ==
  /\ pc[p] = "matched" /\ ~ctxDone[p]
  /\ ExtendKey
  /\ BackToSelect(p)
  /\ UNCHANGED <<isLeader, token, ctxDone, timer, tick, counters>>

(* The context was cancelled after the GET: EXPIRE is not sent.            *)
RenewCancelled(p) ==
  /\ pc[p] = "matched" /\ ctxDone[p]
  /\ StepDown(p)
  /\ UNCHANGED <<redisVars, token, ctxDone, timer, tick, counters>>

(* EXPIRE fails, or its reply is lost.                                     *)
RenewExpireFails(p) ==
  /\ pc[p] = "matched" /\ ~ctxDone[p]
  /\ ExtendKey \/ UNCHANGED redisVars
  /\ Fault
  /\ StepDown(p)
  /\ UNCHANGED <<token, ctxDone, timer, tick>>

-----------------------------------------------------------------------------
(* Shutdown, crash and restart *)

CountStop ==
  /\ stops < MaxStops
  /\ stops' = stops + 1
  /\ UNCHANGED <<faults, losses>>

(* SIGINT or SIGTERM cancels the context of the process.                   *)
Signal(p) ==
  /\ pc[p] # "down" /\ ~ctxDone[p]
  /\ CountStop
  /\ ctxDone' = [ctxDone EXCEPT ![p] = TRUE]
  /\ UNCHANGED <<redisVars, pc, isLeader, token, timeVars>>

Exit(p) ==
  /\ pc' = [pc EXCEPT ![p] = "down"]
  /\ isLeader' = [isLeader EXCEPT ![p] = FALSE]
  /\ lag' = [lag EXCEPT ![p] = 0]
  /\ tick' = [tick EXCEPT ![p] = FALSE]

(* The ctx.Done() case of the select; a buffered tick may win instead.  A  *)
(* leader deletes the key, whoever stored it; the error of DEL is ignored. *)
ReleaseKey == ttl' = 0 /\ UNCHANGED lease
Stop(p) ==
  /\ pc[p] = "select" /\ ctxDone[p]
  /\ \/ /\ IF isLeader[p] THEN ReleaseKey ELSE UNCHANGED redisVars
        /\ UNCHANGED counters
     \/ isLeader[p] /\ Fault /\ UNCHANGED redisVars
  /\ Exit(p)
  /\ UNCHANGED <<token, ctxDone, timer>>

(* The process is killed.                                                  *)
Crash(p) ==
  /\ pc[p] # "down"
  /\ CountStop
  /\ Exit(p)
  /\ UNCHANGED <<redisVars, token, ctxDone, timer>>

(* A new process starts on the same host: NewElector and Run from scratch. *)
Restart(p) ==
  /\ pc[p] = "down"
  /\ pc' = [pc EXCEPT ![p] = "select"]
  /\ token' = [token EXCEPT ![p] = 0]
  /\ ctxDone' = [ctxDone EXCEPT ![p] = FALSE]
  /\ timer' = [timer EXCEPT ![p] = RenewInterval]
  /\ UNCHANGED <<redisVars, isLeader, tick, lag, counters>>

(* Redis restarts from a snapshot that does not hold the key.              *)
RedisLosesKey ==
  /\ KeyExists
  /\ losses < MaxLosses
  /\ losses' = losses + 1
  /\ ttl' = 0
  /\ UNCHANGED <<lease, procVars, timeVars, faults, stops>>

-----------------------------------------------------------------------------

(* One unit of time passes: the key ages, tickers run.  A ticker that      *)
(* fires while a tick is buffered drops the new one.                       *)
Tick ==
  /\ \A p \in Prompt : Busy(p) => lag[p] < MaxLag
  /\ ttl' = IF KeyExists THEN ttl - 1 ELSE 0
  /\ timer' = [p \in Procs |->
                 IF pc[p] = "down" THEN timer[p]
                 ELSE IF timer[p] = 1 THEN RenewInterval ELSE timer[p] - 1]
  /\ tick' = [p \in Procs |-> tick[p] \/ (pc[p] # "down" /\ timer[p] = 1)]
  /\ lag' = [p \in Procs |->
               IF p \in Prompt /\ Busy(p) THEN lag[p] + 1 ELSE lag[p]]
  /\ UNCHANGED <<lease, procVars, counters>>

(* The steps a running process takes by itself.                            *)
Step(p) ==
  \/ AcquireWins(p) \/ AcquireLoses(p) \/ AcquireFails(p) \/ BecomeLeader(p)
  \/ RenewGet(p) \/ RenewLoses(p) \/ RenewGetFails(p)
  \/ RenewExpire(p) \/ RenewCancelled(p) \/ RenewExpireFails(p)
  \/ Stop(p)

Environment ==
  \/ RedisLosesKey
  \/ \E p \in Procs : Signal(p) \/ Crash(p) \/ Restart(p)

Next == Tick \/ Environment \/ \E p \in Procs : Step(p)

Spec == Init /\ [][Next]_vars

(* Time never stops and a process that can take a step takes it, sooner or *)
(* later: goroutines are scheduled and Redis commands return or time out.  *)
(* A select with two ready cases picks one at random, so a cancelled        *)
(* context is not passed over for ever.                                     *)
Fairness ==
  /\ WF_vars(Tick)
  /\ \A p \in Procs : WF_vars(Step(p)) /\ WF_vars(Stop(p))

FairSpec == Spec /\ Fairness

-----------------------------------------------------------------------------

(* The local state of a process fits the place its Run loop is at, and its *)
(* ticker has not fired again since the tick it is serving.                *)
ControlInv(p) ==
  /\ pc[p] = "down" => ~isLeader[p] /\ ~tick[p]
  /\ pc[p] = "acquired" => ~isLeader[p]
  /\ pc[p] = "matched" => isLeader[p]
  /\ ~Busy(p) => lag[p] = 0
  /\ pc[p] \in {"acquired", "matched"} => ~tick[p] /\ timer[p] + lag[p] = RenewInterval
  /\ Serving(p) /\ ~ctxDone[p] => timer[p] + lag[p] = RenewInterval

(* A process that won SET NX owns the key, and so does a leader: a leader  *)
(* at rest has time to see its next tick and to serve it before the key    *)
(* expires, a busy one to finish what it is doing.                         *)
LeaseInv(p) ==
  /\ pc[p] = "acquired" =>
       /\ lease = [proc |-> p, token |-> token[p] + 1]
       /\ ttl + lag[p] >= LeaseTTL
  /\ isLeader[p] =>
       /\ lease = [proc |-> p, token |-> token[p]]
       /\ Busy(p) => ttl > MaxLag - lag[p]
       /\ ~Busy(p) => ttl > timer[p] + MaxLag

(* The inductive invariant behind LeaderHoldsLease: the lease always       *)
(* outlives the renewal that is due (renewInterval "must be less than      *)
(* leaseTTL", election.go:17), by enough to cover the time a tick takes.   *)
RenewalInTime == \A p \in Procs : ControlInv(p) /\ LeaseInv(p)

Leaders == {p \in Procs : isLeader[p]}

(* At most one process believes it is the leader.  Holds when every process *)
(* is prompt and Redis keeps the key: Run renews every RenewInterval, well   *)
(* before the lease stored by SET NX expires.                                *)
AtMostOneLeader ==
  \A p, q \in Leaders : p = q

(* A leader is the process that stored the current value of the key, under  *)
(* the token it carries: what renew verifies on each tick holds at all      *)
(* times for prompt processes, also between two ticks.                      *)
LeaderHoldsLease ==
  \A p \in Leaders : KeyExists /\ lease = [proc |-> p, token |-> token[p]]

(* Two leaders never stay leaders forever: a paused leader that lost its    *)
(* lease steps down at one of its next renewals (renew, line 88).           *)
SplitBrainHeals ==
  []<>AtMostOneLeader

(* As long as some process runs (and has not used up MaxToken), leadership  *)
(* never stays vacant for good: the key of a dead leader, or a key nobody   *)
(* knows it owns, expires and a follower's SET NX succeeds.                 *)
LeadershipRecovers ==
  \/ []<>(Leaders # {})
  \/ <>[](\A p \in Procs : pc[p] = "down" \/ token[p] = MaxToken)

(* "renew extends the lease only if this node's token still matches the     *)
(* stored value" (election.go:81): when renew has sent EXPIRE, returned     *)
(* true and the key was there, the key was the process's own.              *)
RenewExtendsOwnLease ==
  [][\A p \in Procs :
        (pc[p] = "matched" /\ pc'[p] = "select" /\ isLeader'[p] /\ KeyExists)
          => lease.proc = p]_vars

(* "Release the lease immediately so a peer can take over fast"             *)
(* (election.go:46): the key a stopping leader deletes is its own lease.    *)
ReleasesOwnLease ==
  [][\A p \in Procs :
        (isLeader[p] /\ pc[p] = "select" /\ pc'[p] = "down" /\ KeyExists /\ ttl' = 0)
          => lease.proc = p]_vars
=============================================================================
