--------------------------- MODULE ElectionTiming ---------------------------
(***************************************************************************)
(* How long leadership stays vacant: the coordinators with a stopwatch     *)
(* that starts again whenever there is a leader, nobody can become one, or *)
(* something fails.                                                        *)
(***************************************************************************)
EXTENDS Coordinator

VARIABLE vacancy    \* time units without a leader or a new failure

tvars == <<cvars, vacancy>>

(* The longest vacancy: the lease of the last leader runs out just after a *)
(* try of the follower, which tries again on its next tick and loses, as   *)
(* late as it may, to another one that takes as long to see that it won.   *)
MaxVacancy == LeaseTTL + RenewInterval - 1 + 2 * MaxLag

(* The processes that may win: a cancelled one is about to return.         *)
Live   == {p \in Procs : pc[p] # "down" /\ ~ctxDone[p]}
Vacant == Leaders = {} /\ Live # {}

TInit == CInit /\ vacancy = 0

(* The stopwatch stops counting once MaxVacancy is exceeded.               *)
TNext ==
  \/ /\ CTick
     /\ vacancy' = IF ~Vacant' THEN 0
                   ELSE IF vacancy > MaxVacancy THEN vacancy ELSE vacancy + 1
  \/ /\ CEnvironment \/ PutApplied \/ \E p \in Procs : CStep(p) \/ RunCallback(p) \/ Raise(p)
     /\ vacancy' = IF Vacant' /\ counters' = counters THEN vacancy ELSE 0

TSpec == TInit /\ [][TNext]_tvars

(* After the last crash, SIGTERM or Redis error some coordinator that runs *)
(* and is not shutting down leads within MaxVacancy: a lease that nobody   *)
(* serves is never refreshed, and no follower misses more than one         *)
(* renewInterval of its vacancy (election.go:50-63).                       *)
FailoverBounded == vacancy <= MaxVacancy
=============================================================================
