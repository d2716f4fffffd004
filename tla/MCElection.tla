----------------------------- MODULE MCElection -----------------------------
(* Instances of Election for TLC.                                          *)
EXTENDS Election

(* One coordinator per container: every process has a host name of its own. *)
OwnHosts == [p \in Procs |-> p]

(* Several coordinators started on one machine.                            *)
OneHost == [p \in Procs |-> "localhost"]

=============================================================================
