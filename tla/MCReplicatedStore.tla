------------------------- MODULE MCReplicatedStore -------------------------
(* Instances of ReplicatedStore for TLC.                                   *)
EXTENDS AtomicStore, TLC

CONSTANTS n1, n2, n3, k1, k2, w1, r1

(* Keys with different targets that overlap in one node.                   *)
ThePrimary == [k \in Keys |-> IF k = k1 THEN n1 ELSE n2]
TheReplica == [k \in Keys |-> IF k = k1 THEN n2 ELSE n3]

(* w1, say the API's stream consumer, sets all keys; the others only read. *)
OneWriter == [c \in Clients |-> IF c = w1 THEN Keys ELSE {}]

(* The second node's clock is ahead, by less than the Gap of 2.            *)
TheSkew == [n \in Nodes |-> IF n = n2 THEN 1 ELSE 0]
=============================================================================
