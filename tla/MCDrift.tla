------------------------------ MODULE MCDrift ------------------------------
(* Instances of Drift for TLC.                                             *)
EXTENDS Drift

CONSTANTS n1, n2, c1, c2, t1, t2, ac1, ac2, at1, at2, det

ThePrimary == [k \in Keys |-> IF k \in {t1, ac1} THEN n2 ELSE n1]
TheReplica == [k \in Keys |-> IF k \in {t1, ac1} THEN n1 ELSE n2]
TheAlerts  == [x \in Commits \cup Tickets |->
                 CASE x = c1 -> ac1 [] x = c2 -> ac2 [] x = t1 -> at1 [] x = t2 -> at2]
TheWriters == [c \in Clients |-> IF c = Api THEN Commits \cup Tickets
                                 ELSE {AlertOf[x] : x \in Commits \cup Tickets}]
NoSkew     == [n \in Nodes |-> 0]
=============================================================================
