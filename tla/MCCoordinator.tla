--------------------------- MODULE MCCoordinator ---------------------------
(* Instances of Coordinator for TLC.                                       *)
EXTENDS Coordinator

(* One coordinator per container: every process has a host name of its own. *)
OwnHosts == [p \in Procs |-> p]
=============================================================================
