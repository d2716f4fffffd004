-------------------------------- MODULE Ring --------------------------------
(***************************************************************************)
(* The consistent hash ring (store/partition.go).  A node is placed at the *)
(* hashes of its virtual nodes; a key belongs to the node of the first     *)
(* point at or after its own hash, walking clockwise.  The hash is left    *)
(* open: Init places the virtual nodes anywhere.                           *)
(***************************************************************************)
EXTENDS Integers, Sequences, FiniteSets

CONSTANTS
  Addrs,         \* the addresses of the store nodes
  HashSize,      \* the hashes are 0..HashSize-1 (2^32 in the code)
  VirtualNodes,  \* virtualNodes
  MaxCollisions, \* bound: virtual nodes whose hash another one has, too
  MaxPoints      \* bound: length of sorted

ASSUME RingAssumption ==
  /\ IsFiniteSet(Addrs)
  /\ HashSize \in Nat \ {0} /\ VirtualNodes \in Nat \ {0}
  /\ MaxCollisions \in Nat /\ MaxPoints \in Nat

Hashes == 0..HashSize-1

VARIABLES
  hash,    \* the hashes of the virtual nodes of every address
  nodes,   \* Ring.nodes: the address at a point
  sorted   \* Ring.sorted: the points in ascending order

vars == <<hash, nodes, sorted>>

Points(a) == {hash[a][i] : i \in 1..VirtualNodes}
Members   == {nodes[p] : p \in DOMAIN nodes}

TypeOK ==
  /\ hash \in [Addrs -> [1..VirtualNodes -> Hashes]]
  /\ DOMAIN nodes \subseteq Hashes /\ Members \subseteq Addrs
  /\ sorted \in Seq(Hashes)

AllPoints == UNION {Points(a) : a \in Addrs}
Collided  == VirtualNodes * Cardinality(Addrs) - Cardinality(AllPoints)

Init ==
  /\ hash \in [Addrs -> [1..VirtualNodes -> Hashes]]
  /\ Collided <= MaxCollisions
  /\ nodes = << >>
  /\ sorted = << >>

(* The elements of P, or of s, in ascending order: the i-th one has i - 1    *)
(* others before it.  Equal elements of s keep their order.                 *)
InOrder(P) ==
  [i \in 1..Cardinality(P) |-> CHOOSE p \in P : Cardinality({q \in P : q < p}) = i - 1]

Before(s, k, j) == s[k] < s[j] \/ (s[k] = s[j] /\ k < j)
Sort(s) ==
  [i \in DOMAIN s |->
     s[CHOOSE j \in DOMAIN s : Cardinality({k \in DOMAIN s : Before(s, k, j)}) = i - 1]]

(* The owners once the points of a are a's own.                             *)
Placed(a) == [p \in DOMAIN nodes \cup Points(a) |-> IF p \in Points(a) THEN a ELSE nodes[p]]

(* Faulty variant: the new points are not sorted in.                        *)
AddNode_Unsorted(a) ==
  /\ Len(sorted) + VirtualNodes <= MaxPoints
  /\ nodes' = Placed(a)
  /\ sorted' = sorted \o hash[a]
  /\ UNCHANGED hash

(* AddNode overwrites the owner of a point that is taken.  A point added    *)
(* twice is twice in sorted.                                                *)
AddNode(a) ==
  /\ Len(sorted) + VirtualNodes <= MaxPoints
  /\ nodes' = Placed(a)
  /\ sorted' = Sort(sorted \o hash[a])
  /\ UNCHANGED hash

(* Faulty variant: the last point of the removed node is left behind.       *)
RemoveNode_AllButLast(a) ==
  /\ nodes' = [p \in DOMAIN nodes \ {hash[a][i] : i \in 1..VirtualNodes-1} |-> nodes[p]]
  /\ sorted' = InOrder(DOMAIN nodes')
  /\ UNCHANGED hash

(* Faulty variant: the owner of a point is blanked, not deleted.            *)
RemoveNode_Blanks(a) ==
  /\ nodes' = [p \in DOMAIN nodes |-> IF p \in Points(a) THEN "" ELSE nodes[p]]
  /\ sorted' = InOrder(DOMAIN nodes')
  /\ UNCHANGED hash

(* RemoveNode deletes the node's points, whoever owns them, and rebuilds    *)
(* sorted from what is left.                                                *)
RemoveNode(a) ==
  /\ nodes' = [p \in DOMAIN nodes \ Points(a) |-> nodes[p]]
  /\ sorted' = InOrder(DOMAIN nodes')
  /\ UNCHANGED hash

Next == \E a \in Addrs : AddNode(a) \/ RemoveNode(a)

Spec == Init /\ [][Next]_vars

-----------------------------------------------------------------------------
(* Queries, for a non-empty ring *)

(* Faulty variant: past the last point the search does not wrap around.     *)
Search_WrapsToLast(h) ==
  IF \E i \in DOMAIN sorted : sorted[i] >= h
    THEN CHOOSE i \in DOMAIN sorted :
           sorted[i] >= h /\ \A j \in 1..i-1 : sorted[j] < h
    ELSE Len(sorted)

(* sort.Search: the index of the first element that is >= h, wrapping to 1. *)
Search(h) ==
  IF \E i \in DOMAIN sorted : sorted[i] >= h
    THEN CHOOSE i \in DOMAIN sorted :
           sorted[i] >= h /\ \A j \in 1..i-1 : sorted[j] < h
    ELSE 1

Lookup(h) == nodes[sorted[Search(h)]]

(* The owner of the i-th point, counted clockwise from the key's own.       *)
OwnerAt(h, i) == nodes[sorted[((Search(h) - 1 + i) % Len(sorted)) + 1]]

(* Faulty variant: neighbouring points of one node count as two replicas.   *)
Replicas_NotDistinct(h, n) ==
  [i \in 1..(IF n < Len(sorted) THEN n ELSE Len(sorted)) |-> OwnerAt(h, i - 1)]

(* The distinct owners met on the way round, at most n of them.             *)
Replicas(h, n) ==
  LET first == InOrder({i \in 0..Len(sorted)-1 :
                          \A j \in 0..i-1 : OwnerAt(h, j) # OwnerAt(h, i)})
      count == IF n < Len(first) THEN n ELSE Len(first)
  IN  [i \in 1..count |-> OwnerAt(h, first[i])]

-----------------------------------------------------------------------------

NonEmpty == sorted # << >>

(* The point that is met first when walking clockwise from h.               *)
Clockwise(h, p) == (p - h + HashSize) % HashSize
Successor(h) ==
  CHOOSE p \in DOMAIN nodes : \A q \in DOMAIN nodes : Clockwise(h, p) <= Clockwise(h, q)

(* "walk clockwise until we hit a node" (docs/03-consistent-hashing.md:11):  *)
(* the binary search over sorted, with its wrap-around, finds the nearest    *)
(* point although sorted and nodes are kept separately, with duplicates,     *)
(* overwritten owners and rebuilds.                                          *)
LookupIsSuccessor ==
  NonEmpty => \A h \in Hashes : Lookup(h) = nodes[Successor(h)]

(* Replicas returns distinct nodes, the primary first, and as many as asked  *)
(* for when the ring has them: with two nodes or more no fact is written     *)
(* twice to one node (docs/04-replication.md:9).                             *)
ReplicasDistinct ==
  NonEmpty => \A h \in Hashes, n \in 1..Cardinality(Addrs) :
    LET r == Replicas(h, n) IN
      /\ r[1] = Lookup(h)
      /\ \A i, j \in DOMAIN r : r[i] = r[j] => i = j
      /\ Len(r) = IF n < Cardinality(Members) THEN n ELSE Cardinality(Members)

(* "when a node is added or removed, only ~1/N of keys need to move"         *)
(* (docs/03-consistent-hashing.md:7): a key that changes its primary goes to *)
(* a node that joins, or comes from a node that leaves.  Two nodes with a     *)
(* point in common take it from each other, so collisions are left out.      *)
OnlyOwnKeysMove ==
  [][Collided = 0 /\ NonEmpty /\ NonEmpty' => \A h \in Hashes :
       Lookup(h)' # Lookup(h) =>
         Lookup(h)' \notin Members \/ Lookup(h) \notin Members']_vars

(* "The formerly unreachable node's keys now route to the next clockwise     *)
(* node, which may already have a replica" (docs/04-replication.md:61): the  *)
(* new primary of a key is its old second replica, which does.               *)
SuccessorTakesOver ==
  [][Collided = 0 /\ NonEmpty /\ NonEmpty' => \A h \in Hashes :
       Lookup(h) \notin Members' => Lookup(h)' = Replicas(h, 2)[2]]_vars
=============================================================================
