-------------------------- MODULE MCElectionTiming --------------------------
(* Instances of ElectionTiming for TLC.                                    *)
EXTENDS ElectionTiming

OwnHosts == [p \in Procs |-> p]
=============================================================================
