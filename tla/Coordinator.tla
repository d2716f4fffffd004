---------------------------- MODULE Coordinator ----------------------------
(***************************************************************************)
(* The coordinator process (cmd/coordinator/main.go) around the Elector:   *)
(* Run starts onLeader and onFollower each in a goroutine of its own       *)
(* (election.go:57, 62), so they run in any order and overlap; both use    *)
(* the unprotected variable detectorCancel of main.  A drift detector runs *)
(* until the context that its onLeader made is cancelled.                  *)
(***************************************************************************)
EXTENDS Election

CONSTANT PromptCallbacks  \* callbacks finish before the next unit of time

ASSUME CallbacksAssumption == PromptCallbacks \in BOOLEAN

VARIABLES
  callbacks,       \* the goroutines started by Run of a process that still run
  detectorCancel,  \* main's variable: the term whose detector it cancels, or Nil
  detectors,       \* the terms of a process whose detector is not cancelled
  put              \* the PUT of an alert that was sent and not applied yet

mainVars == <<callbacks, detectorCancel, detectors, put>>
cvars    == <<vars, mainVars>>

(* A term is the number of an election that the process run has won, which *)
(* is its fence token; no term has number 0.                               *)
Nil   == 0
Terms == 1..MaxToken

(* A PUT is known by the process and the term whose detector has sent it.  *)
NoPut == [proc |-> None, term |-> Nil]

(* "start": not begun; "checked": onFollower saw detectorCancel # nil;     *)
(* "called": onFollower has called it.                                     *)
Callback == [kind : {"onLeader", "onFollower"}, term : Terms,
             at : {"start", "checked", "called"}]

CTypeOK ==
  /\ TypeOK
  /\ callbacks \in [Procs -> SUBSET Callback]
  /\ detectorCancel \in [Procs -> Terms \cup {Nil}]
  /\ detectors \in [Procs -> SUBSET Terms]
  /\ put \in [proc : Procs, term : Terms] \cup {NoPut}

CInit ==
  /\ Init
  /\ callbacks = [p \in Procs |-> {}]
  /\ detectorCancel = [p \in Procs |-> Nil]
  /\ detectors = [p \in Procs |-> {}]
  /\ put = NoPut

-----------------------------------------------------------------------------

Start(p, kind, t) ==
  /\ callbacks' = [callbacks EXCEPT ![p] = @ \cup
                     {[kind |-> kind, term |-> t, at |-> "start"]}]
  /\ UNCHANGED <<detectorCancel, detectors, put>>

(* Faulty variant: the goroutine is started before the token is counted.   *)
Wins_TermBefore(p) ==
  /\ BecomeLeader(p)
  /\ Start(p, "onLeader", token[p])

(* go onLeader()                                                           *)
Wins(p) ==
  /\ BecomeLeader(p)
  /\ Start(p, "onLeader", token'[p])

(* go onFollower()                                                         *)
LosesLeadership(p) ==
  /\ \/ RenewLoses(p) \/ RenewGetFails(p)
     \/ RenewCancelled(p) \/ RenewExpireFails(p)
  /\ Start(p, "onFollower", token[p])

Campaigns(p) ==
  /\ \/ AcquireWins(p) \/ AcquireLoses(p) \/ AcquireFails(p)
     \/ RenewGet(p) \/ RenewExpire(p)
  /\ UNCHANGED mainVars

(* main returns or the process dies: its goroutines and variables go too.  *)
ProcessEnds(p) ==
  /\ callbacks' = [callbacks EXCEPT ![p] = {}]
  /\ detectorCancel' = [detectorCancel EXCEPT ![p] = Nil]
  /\ detectors' = [detectors EXCEPT ![p] = {}]
  /\ UNCHANGED put

(* The contexts of the detectors derive from the one the signal cancels.   *)
Signalled(p) ==
  /\ Signal(p)
  /\ detectors' = [detectors EXCEPT ![p] = {}]
  /\ UNCHANGED <<callbacks, detectorCancel, put>>

-----------------------------------------------------------------------------
(* The callbacks of main *)

(* Faulty variant: the cancel function is not kept.                        *)
OnLeader_KeepsNoCancel(p) ==
  \E c \in callbacks[p] :
    /\ c.kind = "onLeader"
    /\ callbacks' = [callbacks EXCEPT ![p] = @ \ {c}]
    /\ detectors' = [detectors EXCEPT ![p] =
                       IF ctxDone[p] THEN @ ELSE @ \cup {c.term}]
    /\ UNCHANGED <<vars, detectorCancel, put>>

(* Faulty variant: no second detector is started next to a first one.      *)
OnLeader_UnlessOneRuns(p) ==
  \E c \in callbacks[p] :
    /\ c.kind = "onLeader"
    /\ callbacks' = [callbacks EXCEPT ![p] = @ \ {c}]
    /\ detectorCancel' = [detectorCancel EXCEPT ![p] = IF @ = Nil THEN c.term ELSE @]
    /\ detectors' = [detectors EXCEPT ![p] =
                       IF ctxDone[p] \/ detectorCancel[p] # Nil THEN @ ELSE @ \cup {c.term}]
    /\ UNCHANGED <<vars, put>>

(* onLeader makes a context, stores its cancel function over the one that  *)
(* is there, and starts a detector.                                        *)
OnLeader(p) ==
  \E c \in callbacks[p] :
    /\ c.kind = "onLeader"
    /\ callbacks' = [callbacks EXCEPT ![p] = @ \ {c}]
    /\ detectorCancel' = [detectorCancel EXCEPT ![p] = c.term]
    /\ detectors' = [detectors EXCEPT ![p] =
                       IF ctxDone[p] THEN @ ELSE @ \cup {c.term}]
    /\ UNCHANGED <<vars, put>>

FollowerAt(p, c, at) ==
  c \in callbacks[p] /\ c.kind = "onFollower" /\ c.at = at

Advance(p, c, at) ==
  callbacks' = [callbacks EXCEPT ![p] = (@ \ {c}) \cup {[c EXCEPT !.at = at]}]

(* if detectorCancel != nil                                                *)
OnFollowerChecks(p) ==
  \E c \in callbacks[p] :
    /\ FollowerAt(p, c, "start")
    /\ IF detectorCancel[p] # Nil
         THEN Advance(p, c, "checked")
         ELSE callbacks' = [callbacks EXCEPT ![p] = @ \ {c}]
    /\ UNCHANGED <<vars, detectorCancel, detectors, put>>

(* detectorCancel(): the variable is read again.                           *)
OnFollowerCancels(p) ==
  /\ detectorCancel[p] # Nil
  /\ \E c \in callbacks[p] : FollowerAt(p, c, "checked") /\ Advance(p, c, "called")
  /\ detectors' = [detectors EXCEPT ![p] = @ \ {detectorCancel[p]}]
  /\ UNCHANGED <<vars, detectorCancel, put>>

(* Another onFollower has set it to nil: the call of nil panics and the    *)
(* process dies.                                                           *)
OnFollowerPanics(p) ==
  /\ detectorCancel[p] = Nil
  /\ \E c \in callbacks[p] : FollowerAt(p, c, "checked")
  /\ Exit(p)
  /\ ProcessEnds(p)
  /\ UNCHANGED <<redisVars, token, ctxDone, timer, counters>>

(* detectorCancel = nil                                                    *)
OnFollowerClears(p) ==
  /\ \E c \in callbacks[p] :
       /\ FollowerAt(p, c, "called")
       /\ callbacks' = [callbacks EXCEPT ![p] = @ \ {c}]
  /\ detectorCancel' = [detectorCancel EXCEPT ![p] = Nil]
  /\ UNCHANGED <<vars, detectors, put>>

RunCallback(p) ==
  \/ OnLeader(p) \/ OnFollowerChecks(p) \/ OnFollowerCancels(p)
  \/ OnFollowerPanics(p) \/ OnFollowerClears(p)

(* A detector raises an alert: one PUT of its Set is sent, with no token.  *)
(* Once the context is cancelled, no request is sent any more.  Any PUT of *)
(* any detector may be the one that is followed, others are not recorded;  *)
(* one that is lost is never applied.                                      *)
Raise(p) ==
  /\ put = NoPut
  /\ \E t \in detectors[p] : put' = [proc |-> p, term |-> t]
  /\ UNCHANGED <<vars, callbacks, detectorCancel, detectors>>

(* The node applies the PUT, whatever became of its sender meanwhile:      *)
(* handleSet looks at no token, and Badger ignores the context.            *)
PutApplied ==
  /\ put # NoPut
  /\ put' = NoPut
  /\ UNCHANGED <<vars, callbacks, detectorCancel, detectors>>

CTick ==
  /\ PromptCallbacks => \A p \in Procs : callbacks[p] = {}
  /\ Tick
  /\ UNCHANGED mainVars

CStep(p) == Wins(p) \/ LosesLeadership(p) \/ Campaigns(p) \/ (Stop(p) /\ ProcessEnds(p))

CEnvironment ==
  \/ RedisLosesKey /\ UNCHANGED mainVars
  \/ \E p \in Procs :
       \/ Signalled(p)
       \/ Crash(p) /\ ProcessEnds(p)
       \/ Restart(p) /\ UNCHANGED mainVars

CNext ==
  \/ CTick
  \/ CEnvironment
  \/ PutApplied
  \/ \E p \in Procs : CStep(p) \/ RunCallback(p) \/ Raise(p)

CSpec == CInit /\ [][CNext]_cvars

(* Time passes, Run loops and started goroutines make progress.            *)
CFairSpec ==
  /\ CSpec
  /\ WF_cvars(CTick)
  /\ \A p \in Procs : WF_cvars(CStep(p)) /\ WF_cvars(RunCallback(p))

-----------------------------------------------------------------------------

(* "drift detection should only run on one node at a time"                 *)
(* (docs/05-leader-election.md:5): the detectors that run, on all          *)
(* coordinators together, never exceed one.  Callbacks lag behind the      *)
(* election, so this needs more than AtMostOneLeader.                      *)
OneDetector ==
  \A p, q \in Procs : \A t \in detectors[p], u \in detectors[q] : p = q /\ t = u

(* "followers pause automatically on leadership loss" (README.md:117): when *)
(* the callbacks of a follower are through, none of its detectors runs.    *)
FollowersPause ==
  \A p \in Procs : ~isLeader[p] /\ callbacks[p] = {} => detectors[p] = {}

(* However late and in whatever order the callbacks run, the leader is not *)
(* left without a detector: every onFollower cancels at most one of the    *)
(* detectors that were started, and a leader has won once more than it has *)
(* lost (main.go:44-54).                                                   *)
LeaderDetects ==
  \A p \in Procs :
    isLeader[p] ~> (detectors[p] # {} \/ ~isLeader[p] \/ ctxDone[p])

OthersLease(p) == KeyExists /\ lease.proc # p

(* A detector sends no alert while another process holds the lease: its    *)
(* context is cancelled by then, by onFollower (main.go:50-54) or by the   *)
(* signal, before the lease can be lost or released to a peer.             *)
DeposedLeaderSendsNothing ==
  [][put' # put /\ put' # NoPut => ~OthersLease(put'.proc)]_put

(* "Storage nodes reject writes with a lower fence token than the last     *)
(* seen one" (docs/05-leader-election.md:47): no node applies the alert of *)
(* a process while another one holds the lease.  Not so in the code: a PUT *)
(* under way when its sender stops arrives after a peer has won.           *)
DeposedLeaderWritesNothing ==
  [][put # NoPut /\ put' = NoPut => ~OthersLease(put.proc)]_put
=============================================================================
