----------------------------- MODULE RingProofs -----------------------------
(***************************************************************************)
(* Proofs about the hash ring, for any nodes, any hashes and any number of *)
(* virtual nodes, however they collide.                                    *)
(***************************************************************************)
EXTENDS Ring, TLAPS, FiniteSetTheorems

(* The remainder of a number that is less than twice the divisor.           *)
LEMMA ModOnce ==
  ASSUME NEW n \in Nat \ {0}, NEW x \in 0..2 * n - 1
  PROVE  x % n = IF x < n THEN x ELSE x - n
OBVIOUS

(***************************************************************************)
(* Sorting: in a finite set with a strict total order every rank is taken. *)
(***************************************************************************)
StrictOrder(R, S) ==
  /\ \A x \in S : <<x, x>> \notin R
  /\ \A x \in S : \A y \in S : x = y \/ <<x, y>> \in R \/ <<y, x>> \in R
  /\ \A x \in S : \A y \in S : \A z \in S : <<x, y>> \in R /\ <<y, z>> \in R => <<x, z>> \in R

Below(x, R, S) == {y \in S : <<y, x>> \in R}

LEMMA RankLess ==
  ASSUME NEW S, IsFiniteSet(S), NEW R, StrictOrder(R, S)
  PROVE  /\ \A x \in S : Cardinality(Below(x, R, S)) \in 0..Cardinality(S) - 1
         /\ \A x \in S : \A y \in S :
              <<x, y>> \in R => Cardinality(Below(x, R, S)) < Cardinality(Below(y, R, S))
<1>0. Cardinality(S) \in Nat
  BY FS_CardinalityType
<1>1. ASSUME NEW x \in S
      PROVE  Cardinality(Below(x, R, S)) \in 0..Cardinality(S) - 1
  <2>1. Below(x, R, S) \subseteq S /\ x \notin Below(x, R, S)
    BY DEF Below, StrictOrder
  <2>2. IsFiniteSet(Below(x, R, S)) /\ Cardinality(Below(x, R, S)) <= Cardinality(S)
    BY <2>1, FS_Subset
  <2>3. Cardinality(Below(x, R, S)) # Cardinality(S)
    BY <2>1, FS_Subset
  <2>4. Cardinality(Below(x, R, S)) \in Nat
    BY <2>2, FS_CardinalityType
  <2> QED
    BY <1>0, <2>2, <2>3, <2>4
<1>2. ASSUME NEW x \in S, NEW y \in S, <<x, y>> \in R
      PROVE  Cardinality(Below(x, R, S)) < Cardinality(Below(y, R, S))
  <2>1. Below(x, R, S) \subseteq Below(y, R, S)
    BY <1>2 DEF Below, StrictOrder
  <2>2. x \in Below(y, R, S) /\ x \notin Below(x, R, S)
    BY <1>2 DEF Below, StrictOrder
  <2>3. IsFiniteSet(Below(y, R, S))
    BY FS_Subset DEF Below
  <2>4. /\ Cardinality(Below(x, R, S)) <= Cardinality(Below(y, R, S))
        /\ Cardinality(Below(x, R, S)) # Cardinality(Below(y, R, S))
    BY <2>1, <2>2, <2>3, FS_Subset
  <2> QED
    BY <1>1, <2>4
<1> QED
  BY <1>1, <1>2

LEMMA RankOnto ==
  ASSUME NEW S, IsFiniteSet(S), NEW R, StrictOrder(R, S)
  PROVE  \A i \in 0..Cardinality(S) - 1 :
           \E x \in S : Cardinality(Below(x, R, S)) = i
<1> DEFINE n    == Cardinality(S)
           rank == [x \in S |-> Cardinality(Below(x, R, S))]
<1>0. n \in Nat
  BY FS_CardinalityType
<1>1. rank \in [S -> 0..n-1]
  BY RankLess
<1>2. ASSUME NEW x \in S, NEW y \in S, rank[x] = rank[y]
      PROVE  x = y
  <2>1. Cardinality(Below(x, R, S)) \in Nat /\ Cardinality(Below(y, R, S)) \in Nat
    BY <1>0, RankLess
  <2>2. ~(Cardinality(Below(x, R, S)) < Cardinality(Below(y, R, S)))
    BY <1>2, <2>1
  <2>3. ~(Cardinality(Below(y, R, S)) < Cardinality(Below(x, R, S)))
    BY <1>2, <2>1
  <2>4. <<x, y>> \notin R /\ <<y, x>> \notin R
    BY <2>2, <2>3, RankLess
  <2> QED
    BY <2>4 DEF StrictOrder
<1>3. rank \in Injection(S, 0..n-1)
  BY <1>1, <1>2 DEF Injection, IsInjective
<1>4. IsFiniteSet(0..n-1) /\ Cardinality(0..n-1) = n
  BY <1>0, FS_Interval
<1>5. rank \in Surjection(S, 0..n-1)
  BY <1>3, <1>4, FS_Injection
<1> QED
  BY <1>5 DEF Surjection

InOrderIs(s, P) ==
  /\ s \in [1..Cardinality(P) -> P]
  /\ \A i \in DOMAIN s : \A j \in DOMAIN s : i < j => s[i] < s[j]
  /\ \A p \in P : \E i \in DOMAIN s : s[i] = p

(* InOrder(P) lists the elements of P in ascending order.                   *)
LEMMA InOrderLists ==
  ASSUME NEW P \in SUBSET Int, IsFiniteSet(P)
  PROVE  InOrderIs(InOrder(P), P)
<1> DEFINE R == {e \in P \X P : e[1] < e[2]}
           Rank(p) == Cardinality({q \in P : q < p})
           s == InOrder(P)
<1>0. Cardinality(P) \in Nat /\ \A p \in P : p \in Int
  BY FS_CardinalityType
<1>1. StrictOrder(R, P)
  BY DEF StrictOrder
<1>2. \A p \in P : Rank(p) = Cardinality(Below(p, R, P))
  <2> SUFFICES ASSUME NEW p \in P PROVE {q \in P : q < p} = Below(p, R, P)
    OBVIOUS
  <2> QED
    BY DEF Below
<1>3. \A p \in P : \A q \in P : p < q => <<p, q>> \in R
  OBVIOUS
<1>4. s = [i \in 1..Cardinality(P) |-> CHOOSE p \in P : Rank(p) = i - 1]
  BY DEF InOrder
<1> HIDE DEF R, Rank, s
<1>5. /\ \A p \in P : Rank(p) \in 0..Cardinality(P) - 1
      /\ \A p \in P : \A q \in P : p < q => Rank(p) < Rank(q)
  <2>1. /\ \A p \in P : Cardinality(Below(p, R, P)) \in 0..Cardinality(P) - 1
        /\ \A p \in P : \A q \in P :
             <<p, q>> \in R => Cardinality(Below(p, R, P)) < Cardinality(Below(q, R, P))
    BY <1>1, RankLess
  <2> QED
    BY <2>1, <1>2, <1>3
<1>6. \A i \in 0..Cardinality(P) - 1 : \E p \in P : Rank(p) = i
  <2>1. \A i \in 0..Cardinality(P) - 1 : \E p \in P : Cardinality(Below(p, R, P)) = i
    BY <1>1, RankOnto
  <2> QED
    BY <2>1, <1>2
<1>7. \A i \in 1..Cardinality(P) : s[i] \in P /\ Rank(s[i]) = i - 1
  <2> SUFFICES ASSUME NEW i \in 1..Cardinality(P) PROVE s[i] \in P /\ Rank(s[i]) = i - 1
    OBVIOUS
  <2>1. i - 1 \in 0..Cardinality(P) - 1
    BY <1>0
  <2>2. \E p \in P : Rank(p) = i - 1
    BY <2>1, <1>6
  <2> QED
    BY <2>2, <1>4
<1>8. s \in [1..Cardinality(P) -> P]
  BY <1>4, <1>7
<1>9. ASSUME NEW x \in P, NEW y \in P, Rank(x) <= Rank(y)
      PROVE  x <= y
  <2>1. x \in Int /\ y \in Int /\ Rank(x) \in Int /\ Rank(y) \in Int
    BY <1>0, <1>5
  <2>2. ~(Rank(y) < Rank(x))
    BY <2>1, <1>9
  <2>3. ~(y < x)
    BY <2>2, <1>5
  <2> QED
    BY <2>1, <2>3
<1>10. ASSUME NEW i \in 1..Cardinality(P), NEW j \in 1..Cardinality(P), i < j
       PROVE  s[i] < s[j]
  <2>1. PICK x \in P : x = s[i] /\ Rank(x) = i - 1
    BY <1>7
  <2>2. PICK y \in P : y = s[j] /\ Rank(y) = j - 1
    BY <1>7
  <2>3. Rank(x) <= Rank(y) /\ Rank(x) # Rank(y)
    BY <2>1, <2>2, <1>0, <1>10
  <2>4. x <= y /\ x # y
    BY <2>3, <1>9
  <2> QED
    BY <2>1, <2>2, <2>4, <1>0
<1>11. ASSUME NEW p \in P PROVE \E i \in 1..Cardinality(P) : s[i] = p
  <2>1. Rank(p) \in Int /\ Rank(p) + 1 \in 1..Cardinality(P)
    BY <1>0, <1>5
  <2>2. PICK i \in 1..Cardinality(P) : i = Rank(p) + 1
    BY <2>1
  <2>3. PICK x \in P : x = s[i] /\ Rank(x) = i - 1
    BY <1>7
  <2>4. Rank(x) <= Rank(p) /\ Rank(p) <= Rank(x)
    BY <2>1, <2>2, <2>3
  <2>5. x <= p /\ p <= x
    BY <2>4, <1>9
  <2> QED
    BY <2>3, <2>5, <1>0
<1>12. DOMAIN s = 1..Cardinality(P)
  BY <1>4
<1> QED
  BY <1>8, <1>10, <1>11, <1>12 DEF InOrderIs, s

SortedFrom(t, s) ==
  /\ t \in Seq(Int) /\ DOMAIN t = DOMAIN s
  /\ \A i \in DOMAIN t : \A j \in DOMAIN t : i <= j => t[i] <= t[j]
  /\ {t[i] : i \in DOMAIN t} = {s[i] : i \in DOMAIN s}

(* Sort(s) is in ascending order and has the elements of s.                 *)
LEMMA SortSorts ==
  ASSUME NEW s \in Seq(Int)
  PROVE  SortedFrom(Sort(s), s)
<1> DEFINE D == 1..Len(s)
           R == {e \in D \X D : Before(s, e[1], e[2])}
           Rank(j) == Cardinality({k \in D : Before(s, k, j)})
           At(i) == CHOOSE j \in D : Rank(j) = i - 1
           t == Sort(s)
<1>0. Len(s) \in Nat /\ IsFiniteSet(D) /\ Cardinality(D) = Len(s) /\ DOMAIN s = D
  <2>1. Len(s) \in Nat /\ DOMAIN s = D
    OBVIOUS
  <2>2. PICK n \in Nat : n = Len(s)
    BY <2>1
  <2>3. IsFiniteSet(1..n) /\ Cardinality(1..n) = n
    BY FS_Interval
  <2> QED
    BY <2>1, <2>2, <2>3
<1>1. StrictOrder(R, D)
  <2>1. \A i \in D : s[i] \in Int
    BY <1>0
  <2> QED
    BY <2>1, <1>0 DEF StrictOrder, Before
<1>2. \A j \in D : Rank(j) = Cardinality(Below(j, R, D))
  <2> SUFFICES ASSUME NEW j \in D PROVE {k \in D : Before(s, k, j)} = Below(j, R, D)
    OBVIOUS
  <2> QED
    BY DEF Below
<1>3. \A j \in D : \A k \in D : Before(s, j, k) => <<j, k>> \in R
  OBVIOUS
<1>4. t = [i \in D |-> s[At(i)]]
  BY <1>0 DEF Sort
<1> HIDE DEF R, t, Rank, D
<1>5. /\ \A j \in D : Rank(j) \in 0..Len(s) - 1
      /\ \A j \in D : \A k \in D : Before(s, j, k) => Rank(j) < Rank(k)
  <2>1. /\ \A j \in D : Cardinality(Below(j, R, D)) \in 0..Len(s) - 1
        /\ \A j \in D : \A k \in D :
             <<j, k>> \in R => Cardinality(Below(j, R, D)) < Cardinality(Below(k, R, D))
    BY <1>0, <1>1, RankLess
  <2> QED
    BY <2>1, <1>2, <1>3
<1>6. \A i \in 0..Len(s) - 1 : \E j \in D : Rank(j) = i
  <2>1. \A i \in 0..Cardinality(D) - 1 : \E j \in D : Cardinality(Below(j, R, D)) = i
    <3>1. IsFiniteSet(D)
      BY <1>0
    <3> QED
      BY <3>1, <1>1, RankOnto, Zenon
  <2> QED
    BY <2>1, <1>0, <1>2
<1> USE DEF D
<1>7. \A i \in D : At(i) \in D /\ Rank(At(i)) = i - 1
  <2> SUFFICES ASSUME NEW i \in D PROVE At(i) \in D /\ Rank(At(i)) = i - 1
    OBVIOUS
  <2>1. i - 1 \in 0..Len(s) - 1
    BY <1>0
  <2>2. \E j \in D : Rank(j) = i - 1
    BY <2>1, <1>6
  <2> QED
    BY <2>2
<1> HIDE DEF At
<1>8. ASSUME NEW x \in D, NEW y \in D, Rank(x) <= Rank(y)
      PROVE  ~Before(s, y, x)
  <2>1. Rank(x) \in Int /\ Rank(y) \in Int
    BY <1>0, <1>5
  <2>2. ~(Rank(y) < Rank(x))
    BY <2>1, <1>8
  <2> QED
    BY <2>2, <1>5
<1>9. t \in Seq(Int) /\ DOMAIN t = D
  <2>1. t \in [1..Len(s) -> Int]
    BY <1>0, <1>4, <1>7
  <2> QED
    BY <2>1, <1>0
<1>10. ASSUME NEW i \in D, NEW j \in D, i <= j
      PROVE  t[i] <= t[j]
  <2>1. /\ At(i) \in D /\ At(j) \in D
        /\ Rank(At(i)) = i - 1 /\ Rank(At(j)) = j - 1
    BY <1>7
  <2>2. s[At(i)] \in Int /\ s[At(j)] \in Int
    BY <2>1, <1>0
  <2>3. PICK x \in D, y \in D : x = At(i) /\ y = At(j)
    BY <2>1
  <2>4. Rank(x) <= Rank(y)
    BY <2>1, <2>3, <1>0, <1>10
  <2>5. ~Before(s, At(j), At(i))
    BY <2>3, <2>4, <1>8
  <2> QED
    BY <2>2, <2>5, <1>4 DEF Before
<1>11. \A j \in D : \E i \in D : t[i] = s[j]
  <2> SUFFICES ASSUME NEW j \in D PROVE \E i \in D : t[i] = s[j]
    OBVIOUS
  <2>1. Rank(j) \in Int /\ Rank(j) + 1 \in D
    BY <1>0, <1>5
  <2>2. PICK i \in D : i = Rank(j) + 1
    BY <2>1
  <2>3. PICK x \in D : x = At(i) /\ Rank(x) = i - 1
    BY <1>7
  <2>4. Rank(x) <= Rank(j) /\ Rank(j) <= Rank(x)
    BY <2>1, <2>2, <2>3
  <2>5. ~Before(s, x, j) /\ ~Before(s, j, x)
    BY <2>4, <1>8
  <2>6. s[At(i)] = s[j]
    BY <2>3, <2>5, <1>0 DEF Before
  <2> QED
    BY <2>6, <1>4
<1>12. {t[i] : i \in D} = {s[i] : i \in D}
  BY <1>4, <1>7, <1>11
<1> QED
  BY <1>0, <1>9, <1>10, <1>12 DEF SortedFrom, t

-----------------------------------------------------------------------------
(* The two representations of the ring agree.                               *)
Ascending == \A i \in DOMAIN sorted : \A j \in DOMAIN sorted : i <= j => sorted[i] <= sorted[j]

RingInv ==
  /\ TypeOK
  /\ Ascending
  /\ {sorted[i] : i \in DOMAIN sorted} = DOMAIN nodes

LEMMA InitRingInv == Init => RingInv
<1> SUFFICES ASSUME Init PROVE RingInv
  OBVIOUS
<1>1. DOMAIN sorted = {} /\ DOMAIN nodes = {} /\ sorted \in Seq(Hashes)
  BY DEF Init
<1> QED
  BY <1>1 DEF Init, RingInv, TypeOK, Ascending, Members

LEMMA PointsAreHashes ==
  ASSUME TypeOK, NEW a \in Addrs
  PROVE  /\ Points(a) \subseteq Hashes
         /\ hash[a] \in Seq(Hashes)
         /\ DOMAIN hash[a] = 1..VirtualNodes /\ Len(hash[a]) = VirtualNodes
<1>1. hash[a] \in [1..VirtualNodes -> Hashes] /\ VirtualNodes \in Nat
  BY RingAssumption DEF TypeOK
<1>2. hash[a] \in Seq(Hashes)
  BY <1>1
<1> QED
  BY <1>1, <1>2 DEF Points

LEMMA HashesFinite == Hashes \subseteq Int /\ IsFiniteSet(Hashes)
<1>1. HashSize \in Nat
  BY RingAssumption
<1> QED
  BY <1>1, FS_Interval DEF Hashes

LEMMA AddNodeRingInv ==
  ASSUME RingInv, NEW a \in Addrs, AddNode(a)
  PROVE  RingInv'
<1> DEFINE s == sorted \o hash[a]
<1>1. /\ DOMAIN nodes' = DOMAIN nodes \cup Points(a)
      /\ \A p \in DOMAIN nodes' : nodes'[p] = IF p \in Points(a) THEN a ELSE nodes[p]
  BY DEF AddNode, Placed
<1>2. /\ Points(a) \subseteq Hashes /\ hash[a] \in Seq(Hashes)
      /\ DOMAIN hash[a] = 1..VirtualNodes /\ Len(hash[a]) = VirtualNodes
  BY PointsAreHashes DEF RingInv
<1>3. sorted \in Seq(Hashes) /\ DOMAIN nodes \subseteq Hashes /\ Members \subseteq Addrs
  BY DEF RingInv, TypeOK
<1>4. s \in Seq(Hashes) /\ s \in Seq(Int)
  <2>1. s \in Seq(Hashes)
    BY <1>2, <1>3
  <2> HIDE DEF s
  <2>2. Len(s) \in Nat /\ s \in [1..Len(s) -> Hashes]
    BY <2>1
  <2>3. s \in [1..Len(s) -> Int]
    BY <2>2, HashesFinite
  <2> QED
    BY <2>1, <2>2, <2>3
<1>5. {s[i] : i \in DOMAIN s} = {sorted[i] : i \in DOMAIN sorted} \cup Points(a)
  <2>1. Len(sorted) \in Nat /\ VirtualNodes \in Nat
    BY <1>3, RingAssumption
  <2>2. DOMAIN s = 1..Len(sorted) + VirtualNodes /\ DOMAIN sorted = 1..Len(sorted)
    BY <1>2, <1>3
  <2>3. \A i \in 1..Len(sorted) : i \in DOMAIN s /\ s[i] = sorted[i]
    BY <1>2, <1>3, <2>1, <2>2
  <2>4. \A i \in 1..VirtualNodes :
          Len(sorted) + i \in DOMAIN s /\ s[Len(sorted) + i] = hash[a][i]
    BY <1>2, <1>3, <2>1, <2>2
  <2>5. \A i \in DOMAIN s : \/ i \in 1..Len(sorted)
                            \/ \E j \in 1..VirtualNodes : i = Len(sorted) + j
    <3> SUFFICES ASSUME NEW i \in DOMAIN s, i \notin 1..Len(sorted)
                 PROVE  \E j \in 1..VirtualNodes : i = Len(sorted) + j
      OBVIOUS
    <3>1. i - Len(sorted) \in 1..VirtualNodes /\ i = Len(sorted) + (i - Len(sorted))
      BY <2>1, <2>2
    <3> QED
      BY <3>1
  <2> HIDE DEF s
  <2> QED
    BY <2>2, <2>3, <2>4, <2>5 DEF Points
<1>6. SortedFrom(sorted', s)
  BY <1>4, SortSorts DEF AddNode
<1> HIDE DEF s
<1>7. {sorted'[i] : i \in DOMAIN sorted'} = DOMAIN nodes'
  BY <1>1, <1>5, <1>6 DEF SortedFrom, RingInv
<1>8. DOMAIN nodes' \subseteq Hashes
  BY <1>1, <1>2, <1>3
<1>9. sorted' \in Seq(Hashes)
  <2>1. sorted' \in Seq(Int) /\ \A i \in DOMAIN sorted' : sorted'[i] \in Hashes
    BY <1>6, <1>7, <1>8 DEF SortedFrom
  <2> QED
    BY <2>1
<1>10. Members' \subseteq Addrs
  BY <1>1, <1>3 DEF Members
<1>11. hash' = hash
  BY DEF AddNode
<1> QED
  BY <1>6, <1>7, <1>8, <1>9, <1>10, <1>11 DEF RingInv, TypeOK, Ascending, SortedFrom, Hashes

LEMMA RemoveNodeRingInv ==
  ASSUME RingInv, NEW a \in Addrs, RemoveNode(a)
  PROVE  RingInv'
<1>1. /\ DOMAIN nodes' = DOMAIN nodes \ Points(a)
      /\ \A p \in DOMAIN nodes' : nodes'[p] = nodes[p]
  BY DEF RemoveNode
<1>2. DOMAIN nodes' \subseteq Hashes /\ Members' \subseteq Addrs
  BY <1>1 DEF RingInv, TypeOK, Members
<1>3. DOMAIN nodes' \in SUBSET Int /\ IsFiniteSet(DOMAIN nodes')
  BY <1>2, HashesFinite, FS_Subset
<1>4. InOrderIs(sorted', DOMAIN nodes')
  BY <1>3, InOrderLists DEF RemoveNode
<1>5. Cardinality(DOMAIN nodes') \in Nat
  BY <1>3, FS_CardinalityType
<1>6. sorted' \in [1..Cardinality(DOMAIN nodes') -> DOMAIN nodes']
  BY <1>4 DEF InOrderIs
<1>7. sorted' \in Seq(Hashes) /\ DOMAIN sorted' = 1..Cardinality(DOMAIN nodes')
  BY <1>2, <1>5, <1>6
<1>8. ASSUME NEW i \in DOMAIN sorted', NEW j \in DOMAIN sorted', i <= j
      PROVE  sorted'[i] <= sorted'[j]
  <2>1. sorted'[i] \in Int /\ sorted'[j] \in Int
    BY <1>3, <1>6, <1>7
  <2>2. CASE i = j
    BY <2>1, <2>2
  <2>3. CASE i # j
    <3>1. i < j
      BY <2>3, <1>7, <1>8, <1>5
    <3> QED
      BY <2>1, <3>1, <1>4 DEF InOrderIs
  <2> QED
    BY <2>2, <2>3
<1>9. {sorted'[i] : i \in DOMAIN sorted'} = DOMAIN nodes'
  BY <1>4, <1>6, <1>7 DEF InOrderIs
<1>10. hash' = hash
  BY DEF RemoveNode
<1> QED
  BY <1>2, <1>7, <1>8, <1>9, <1>10 DEF RingInv, TypeOK, Ascending, Hashes

LEMMA NextRingInv == RingInv /\ [Next]_vars => RingInv'
<1> SUFFICES ASSUME RingInv, [Next]_vars PROVE RingInv'
  OBVIOUS
<1>1. ASSUME NEW a \in Addrs, AddNode(a) PROVE RingInv'
  BY <1>1, AddNodeRingInv
<1>2. ASSUME NEW a \in Addrs, RemoveNode(a) PROVE RingInv'
  BY <1>2, RemoveNodeRingInv
<1>3. ASSUME UNCHANGED vars PROVE RingInv'
  BY <1>3 DEF vars, RingInv, TypeOK, Ascending, Members, Hashes
<1> QED
  BY <1>1, <1>2, <1>3 DEF Next

LEMMA RingInvHolds == Spec => []RingInv
  BY InitRingInv, NextRingInv, PTL DEF Spec

-----------------------------------------------------------------------------
(***************************************************************************)
(* The walk from the first point that Search finds, once round the ring.   *)
(***************************************************************************)
LEMMA LeastOf ==
  ASSUME NEW P \in SUBSET Int, IsFiniteSet(P), P # {}
  PROVE  \E m \in P : \A p \in P : m <= p
<1> DEFINE s == InOrder(P)
<1>0. Cardinality(P) \in Nat /\ Cardinality(P) # 0 /\ \A p \in P : p \in Int
  BY FS_CardinalityType, FS_EmptySet
<1>1. InOrderIs(s, P)
  BY InOrderLists
<1> HIDE DEF s
<1>2. DOMAIN s = 1..Cardinality(P) /\ 1 \in DOMAIN s /\ s[1] \in P
  BY <1>0, <1>1 DEF InOrderIs
<1> PICK m \in P : m = s[1]
  BY <1>2
<1>3. ASSUME NEW p \in P PROVE m <= p
  <2>1. PICK i \in DOMAIN s : s[i] = p
    BY <1>1 DEF InOrderIs
  <2>2. CASE i = 1
    BY <2>1, <2>2, <1>0
  <2>3. CASE i # 1
    <3>1. 1 < i
      BY <2>3, <1>0, <1>2
    <3>2. s[1] < s[i]
      BY <3>1, <1>1, <1>2 DEF InOrderIs
    <3> QED
      BY <3>2, <2>1, <1>0
  <2> QED
    BY <2>2, <2>3
<1> QED
  BY <1>3

(* The points, as the walk needs them.                                      *)
LEMMA PointTypes ==
  ASSUME RingInv, NonEmpty
  PROVE  /\ HashSize \in Nat \ {0} /\ Len(sorted) \in Nat \ {0}
         /\ DOMAIN sorted = 1..Len(sorted)
         /\ \A i \in DOMAIN sorted : sorted[i] \in 0..HashSize-1 /\ sorted[i] \in DOMAIN nodes
<1>1. sorted \in Seq(Hashes) /\ sorted # << >>
  BY DEF RingInv, TypeOK, NonEmpty
<1>2. Len(sorted) \in Nat \ {0} /\ DOMAIN sorted = 1..Len(sorted)
  BY <1>1
<1>3. \A i \in DOMAIN sorted : sorted[i] \in Hashes
  BY <1>1
<1> QED
  BY <1>2, <1>3, RingAssumption DEF RingInv, Hashes

LEMMA SearchFinds ==
  ASSUME RingInv, NonEmpty, NEW h \in Hashes
  PROVE  /\ Search(h) \in DOMAIN sorted
         /\ \/ /\ sorted[Search(h)] >= h
               /\ \A j \in 1..Search(h) - 1 : sorted[j] < h
            \/ /\ Search(h) = 1
               /\ \A j \in DOMAIN sorted : sorted[j] < h
<1> DEFINE Good(i) == sorted[i] >= h /\ \A j \in 1..i-1 : sorted[j] < h
           P == {i \in DOMAIN sorted : sorted[i] >= h}
<1>0. /\ Len(sorted) \in Nat \ {0} /\ DOMAIN sorted = 1..Len(sorted)
      /\ \A i \in DOMAIN sorted : sorted[i] \in Int
      /\ h \in Int
  BY PointTypes DEF Hashes
<1>1. CASE P = {}
  <2>1. Search(h) = 1
    BY <1>1 DEF Search
  <2>2. \A j \in DOMAIN sorted : sorted[j] < h
    BY <1>0, <1>1
  <2> QED
    BY <1>0, <2>1, <2>2
<1>2. CASE P # {}
  <2>1. P \in SUBSET Int /\ IsFiniteSet(P)
    <3>1. IsFiniteSet(1..Len(sorted))
      BY <1>0, FS_Interval
    <3> QED
      BY <3>1, <1>0, FS_Subset
  <2>2. PICK m \in P : \A p \in P : m <= p
    BY <2>1, <1>2, LeastOf
  <2>3. m \in DOMAIN sorted /\ Good(m)
    <3> SUFFICES ASSUME NEW j \in 1..m-1 PROVE sorted[j] < h
      BY <2>2
    <3>1. j \in DOMAIN sorted /\ j < m
      BY <1>0
    <3>2. j \notin P
      BY <3>1, <2>2, <1>0
    <3> QED
      BY <3>1, <3>2, <1>0
  <2>4. Search(h) = CHOOSE i \in DOMAIN sorted : Good(i)
    BY <1>2 DEF Search
  <2>5. Search(h) \in DOMAIN sorted /\ Good(Search(h))
    BY <2>3, <2>4
  <2> QED
    BY <2>5
<1> QED
  BY <1>1, <1>2

Turn(h, i) == ((Search(h) - 1 + i) % Len(sorted)) + 1

LEMMA TurnIs ==
  ASSUME RingInv, NonEmpty, NEW h \in Hashes, NEW i \in 0..Len(sorted) - 1
  PROVE  /\ Turn(h, i) \in DOMAIN sorted
         /\ Turn(h, i) = IF Search(h) + i <= Len(sorted) THEN Search(h) + i
                         ELSE Search(h) + i - Len(sorted)
<1>1. Len(sorted) \in Nat \ {0} /\ DOMAIN sorted = 1..Len(sorted)
  BY PointTypes
<1>2. Search(h) \in 1..Len(sorted)
  BY <1>1, SearchFinds
<1>3. PICK n \in Nat \ {0}, k \in 1..Len(sorted) : n = Len(sorted) /\ k = Search(h)
  BY <1>1, <1>2
<1>4. PICK x \in 0..2 * n - 1 : x = k - 1 + i
  BY <1>3
<1>5. x % n = IF x < n THEN x ELSE x - n
  BY ModOnce
<1>6. Turn(h, i) = (x % n) + 1
  BY <1>3, <1>4 DEF Turn
<1> QED
  <2>1. k \in 1..n /\ i \in 0..n-1
    BY <1>3
  <2>2. (IF x < n THEN x ELSE x - n) + 1 = IF k + i <= n THEN k + i ELSE k + i - n
    BY <2>1, <1>4
  <2>3. (IF x < n THEN x ELSE x - n) + 1 \in 1..n
    BY <1>4
  <2>4. Turn(h, i) = IF k + i <= n THEN k + i ELSE k + i - n
    BY <2>2, <1>5, <1>6
  <2>5. Turn(h, i) \in 1..n
    BY <2>3, <1>5, <1>6
  <2> QED
    BY <2>4, <2>5, <1>1, <1>3

LEMMA ClockwiseIs ==
  ASSUME NEW h \in Hashes, NEW p \in Hashes
  PROVE  /\ Clockwise(h, p) = IF p >= h THEN p - h ELSE p - h + HashSize
         /\ Clockwise(h, p) \in 0..HashSize - 1
<1>1. HashSize \in Nat \ {0} /\ h \in 0..HashSize - 1 /\ p \in 0..HashSize - 1
  BY RingAssumption DEF Hashes
<1>2. PICK x \in 0..2 * HashSize - 1 : x = p - h + HashSize
  BY <1>1
<1>3. x % HashSize = IF x < HashSize THEN x ELSE x - HashSize
  BY <1>1, ModOnce
<1>4. Clockwise(h, p) = x % HashSize
  BY <1>2 DEF Clockwise
<1> QED
  BY <1>1, <1>2, <1>3, <1>4

(* The walk meets the points in the clockwise order of the hashes.          *)
LEMMA WalkAscends ==
  ASSUME RingInv, NonEmpty, NEW h \in Hashes,
         NEW i \in 0..Len(sorted) - 1, NEW j \in 0..Len(sorted) - 1, i <= j
  PROVE  Clockwise(h, sorted[Turn(h, i)]) <= Clockwise(h, sorted[Turn(h, j)])
<1> DEFINE k == Search(h)
           n == Len(sorted)
           x == Turn(h, i)
           y == Turn(h, j)
<1>0. /\ n \in Nat \ {0} /\ HashSize \in Nat \ {0} /\ DOMAIN sorted = 1..n
      /\ \A m \in DOMAIN sorted : sorted[m] \in Hashes /\ sorted[m] \in 0..HashSize - 1
      /\ h \in 0..HashSize - 1
  BY PointTypes DEF Hashes
<1>1. /\ k \in 1..n
      /\ \/ sorted[k] >= h /\ \A m \in 1..k-1 : sorted[m] < h
         \/ k = 1 /\ \A m \in DOMAIN sorted : sorted[m] < h
  BY <1>0, SearchFinds
<1>2. /\ x \in 1..n /\ x = IF k + i <= n THEN k + i ELSE k + i - n
      /\ y \in 1..n /\ y = IF k + j <= n THEN k + j ELSE k + j - n
  BY <1>0, TurnIs
<1>3. \A l \in 1..n : \A m \in 1..n : l <= m => sorted[l] <= sorted[m]
  BY <1>0 DEF RingInv, Ascending
<1> SUFFICES Clockwise(h, sorted[x]) <= Clockwise(h, sorted[y])
  OBVIOUS
<1> HIDE DEF k, n, x, y
<1>4. \/ x <= y /\ x >= k
      \/ y < k /\ x >= k
      \/ y < k /\ x <= y
  BY <1>0, <1>1, <1>2
<1>5. PICK u \in Hashes, v \in Hashes, w \in Hashes :
        u = sorted[x] /\ v = sorted[y] /\ w = sorted[k]
  BY <1>0, <1>1, <1>2
<1>6. /\ Clockwise(h, u) = IF u >= h THEN u - h ELSE u - h + HashSize
      /\ Clockwise(h, v) = IF v >= h THEN v - h ELSE v - h + HashSize
  BY ClockwiseIs
<1>7. u \in 0..HashSize - 1 /\ v \in 0..HashSize - 1 /\ w \in 0..HashSize - 1
  BY DEF Hashes
<1>8. CASE x <= y /\ x >= k
  <2>1. u <= v /\ w <= u
    BY <1>1, <1>2, <1>3, <1>5, <1>8
  <2>2. w >= h \/ v < h
    BY <1>0, <1>1, <1>2, <1>5
  <2>3. Clockwise(h, u) <= Clockwise(h, v)
    BY <2>1, <2>2, <1>0, <1>6, <1>7
  <2> QED
    BY <2>3, <1>5
<1>9. CASE y < k /\ x >= k
  <2>1. v < h /\ w >= h /\ w <= u
    BY <1>0, <1>1, <1>2, <1>3, <1>5, <1>9
  <2>2. Clockwise(h, u) <= Clockwise(h, v)
    BY <2>1, <1>0, <1>6, <1>7
  <2> QED
    BY <2>2, <1>5
<1>10. CASE y < k /\ x <= y
  <2>1. v < h /\ u <= v
    BY <1>0, <1>1, <1>2, <1>3, <1>5, <1>10
  <2>2. Clockwise(h, u) <= Clockwise(h, v)
    BY <2>1, <1>0, <1>6, <1>7
  <2> QED
    BY <2>2, <1>5
<1> QED
  BY <1>4, <1>8, <1>9, <1>10

(* The walk meets every point.                                              *)
LEMMA WalkMeetsAll ==
  ASSUME RingInv, NonEmpty, NEW h \in Hashes, NEW p \in DOMAIN nodes
  PROVE  \E i \in 0..Len(sorted) - 1 : sorted[Turn(h, i)] = p
<1>0. Len(sorted) \in Nat \ {0} /\ DOMAIN sorted = 1..Len(sorted)
  BY PointTypes
<1>1. PICK m \in 1..Len(sorted) : sorted[m] = p
  BY <1>0 DEF RingInv
<1>2. Search(h) \in 1..Len(sorted)
  BY <1>0, SearchFinds
<1>3. PICK n \in Nat \ {0}, k \in 1..Len(sorted) : n = Len(sorted) /\ k = Search(h)
  BY <1>0, <1>2
<1>4. PICK i \in 0..n-1 : i = IF m >= k THEN m - k ELSE m - k + n
  BY <1>3
<1>5. Turn(h, i) = IF k + i <= n THEN k + i ELSE k + i - n
  BY <1>3, TurnIs
<1>6. Turn(h, i) = m
  BY <1>3, <1>4, <1>5
<1> QED
  BY <1>1, <1>3, <1>6

(* Two points are as far from h only if they are one.                       *)
LEMMA ClockwiseInjective ==
  ASSUME NEW h \in Hashes, NEW p \in Hashes, NEW q \in Hashes,
         Clockwise(h, p) <= Clockwise(h, q), Clockwise(h, q) <= Clockwise(h, p)
  PROVE  p = q
<1>1. /\ HashSize \in Nat \ {0}
      /\ h \in 0..HashSize - 1 /\ p \in 0..HashSize - 1 /\ q \in 0..HashSize - 1
  BY RingAssumption DEF Hashes
<1>2. /\ Clockwise(h, p) = IF p >= h THEN p - h ELSE p - h + HashSize
      /\ Clockwise(h, q) = IF q >= h THEN q - h ELSE q - h + HashSize
  BY ClockwiseIs
<1> QED
  BY <1>1, <1>2

(* A point that is as near as any other is the successor.                   *)
LEMMA NearestIsSuccessor ==
  ASSUME TypeOK, NEW h \in Hashes, NEW p \in DOMAIN nodes,
         \A q \in DOMAIN nodes : Clockwise(h, p) <= Clockwise(h, q)
  PROVE  p = Successor(h)
<1>1. /\ Successor(h) \in DOMAIN nodes
      /\ \A q \in DOMAIN nodes : Clockwise(h, Successor(h)) <= Clockwise(h, q)
  BY DEF Successor
<1>2. p \in Hashes /\ Successor(h) \in Hashes
  BY <1>1 DEF TypeOK
<1> QED
  BY <1>1, <1>2, ClockwiseInjective

LEMMA FirstTurn ==
  ASSUME RingInv, NonEmpty, NEW h \in Hashes
  PROVE  0 \in 0..Len(sorted) - 1 /\ Turn(h, 0) = Search(h)
<1>1. Len(sorted) \in Nat \ {0} /\ DOMAIN sorted = 1..Len(sorted)
  BY PointTypes
<1>2. Search(h) \in 1..Len(sorted)
  BY <1>1, SearchFinds
<1>3. 0 \in 0..Len(sorted) - 1
  BY <1>1
<1>4. Turn(h, 0) = IF Search(h) + 0 <= Len(sorted) THEN Search(h) + 0
                   ELSE Search(h) + 0 - Len(sorted)
  BY <1>3, TurnIs
<1> QED
  BY <1>1, <1>2, <1>3, <1>4

(* The point that Search finds is the nearest one.                          *)
LEMMA SearchIsNearest ==
  ASSUME RingInv, NonEmpty, NEW h \in Hashes
  PROVE  /\ sorted[Search(h)] \in DOMAIN nodes
         /\ \A q \in DOMAIN nodes : Clockwise(h, sorted[Search(h)]) <= Clockwise(h, q)
         /\ sorted[Search(h)] = Successor(h)
<1>1. sorted[Search(h)] \in DOMAIN nodes
  BY PointTypes, SearchFinds
<1>2. ASSUME NEW q \in DOMAIN nodes
      PROVE  Clockwise(h, sorted[Search(h)]) <= Clockwise(h, q)
  <2>1. PICK i \in 0..Len(sorted) - 1 : sorted[Turn(h, i)] = q
    BY WalkMeetsAll
  <2>2. 0 <= i
    BY PointTypes
  <2>3. Clockwise(h, sorted[Turn(h, 0)]) <= Clockwise(h, sorted[Turn(h, i)])
    BY <2>2, FirstTurn, WalkAscends
  <2> QED
    BY <2>1, <2>3, FirstTurn
<1>3. sorted[Search(h)] = Successor(h)
  BY <1>1, <1>2, NearestIsSuccessor DEF RingInv
<1> QED
  BY <1>1, <1>2, <1>3

LEMMA LookupFinds == RingInv => LookupIsSuccessor
  BY SearchIsNearest DEF LookupIsSuccessor, Lookup

-----------------------------------------------------------------------------
(***************************************************************************)
(* Replicas: the positions of the walk at which an owner is met first.     *)
(***************************************************************************)
Firsts(h) == {i \in 0..Len(sorted) - 1 : \A j \in 0..i-1 : OwnerAt(h, j) # OwnerAt(h, i)}

LEMMA OwnerAtTurn ==
  ASSUME RingInv, NonEmpty, NEW h \in Hashes
  PROVE  /\ \A i \in 0..Len(sorted) - 1 : OwnerAt(h, i) = nodes[sorted[Turn(h, i)]]
         /\ \A i \in 0..Len(sorted) - 1 : OwnerAt(h, i) \in Members
         /\ \A a \in Members : \E i \in 0..Len(sorted) - 1 : OwnerAt(h, i) = a
         /\ OwnerAt(h, 0) = Lookup(h)
<1>1. \A i \in 0..Len(sorted) - 1 : OwnerAt(h, i) = nodes[sorted[Turn(h, i)]]
  BY DEF OwnerAt, Turn
<1>2. \A i \in 0..Len(sorted) - 1 : sorted[Turn(h, i)] \in DOMAIN nodes
  BY TurnIs, PointTypes
<1>3. \A i \in 0..Len(sorted) - 1 : OwnerAt(h, i) \in Members
  BY <1>1, <1>2 DEF Members
<1>4. ASSUME NEW a \in Members
      PROVE  \E i \in 0..Len(sorted) - 1 : OwnerAt(h, i) = a
  <2>1. PICK p \in DOMAIN nodes : nodes[p] = a
    BY DEF Members
  <2> QED
    BY <2>1, <1>1, WalkMeetsAll
<1>5. OwnerAt(h, 0) = Lookup(h)
  BY <1>1, FirstTurn DEF Lookup
<1> QED
  BY <1>1, <1>3, <1>4, <1>5

(* An owner is met first at one of these positions.                         *)
LEMMA FirstMeeting ==
  ASSUME RingInv, NonEmpty, NEW h \in Hashes, NEW i \in 0..Len(sorted) - 1
  PROVE  \E m \in Firsts(h) : m <= i /\ OwnerAt(h, m) = OwnerAt(h, i)
<1> DEFINE D == 0..Len(sorted) - 1
           P == {j \in D : OwnerAt(h, j) = OwnerAt(h, i)}
<1>1. IsFiniteSet(D) /\ Len(sorted) \in Nat \ {0}
  BY PointTypes, FS_Interval
<1>2. i \in P /\ P \in SUBSET Int /\ IsFiniteSet(P)
  BY <1>1, FS_Subset
<1>3. PICK m \in P : \A p \in P : m <= p
  BY <1>2, LeastOf
<1>4. ASSUME NEW j \in 0..m-1 PROVE OwnerAt(h, j) # OwnerAt(h, m)
  <2>1. j \in D /\ j < m /\ j \in Int /\ m \in Int
    BY <1>1
  <2>2. j \notin P
    BY <2>1, <1>3
  <2> QED
    BY <2>1, <2>2, <1>3
<1> QED
  BY <1>2, <1>3, <1>4 DEF Firsts

LEMMA FirstsCover ==
  ASSUME RingInv, NonEmpty, NEW h \in Hashes
  PROVE  /\ Firsts(h) \in SUBSET Int /\ IsFiniteSet(Firsts(h))
         /\ 0 \in Firsts(h) /\ \A i \in Firsts(h) : 0 <= i
         /\ \A i \in Firsts(h) : \A j \in Firsts(h) : OwnerAt(h, i) = OwnerAt(h, j) => i = j
         /\ Cardinality(Firsts(h)) = Cardinality(Members)
<1> DEFINE D == 0..Len(sorted) - 1
<1>0. Len(sorted) \in Nat \ {0}
  BY PointTypes
<1>1. Firsts(h) \subseteq D /\ D \subseteq Int /\ IsFiniteSet(D) /\ 0 \in D
  BY <1>0, FS_Interval DEF Firsts
<1>2. Firsts(h) \in SUBSET Int /\ IsFiniteSet(Firsts(h))
  BY <1>1, FS_Subset
<1>3. 0 \in Firsts(h)
  BY <1>1 DEF Firsts
<1>4. \A i \in Firsts(h) : 0 <= i
  BY <1>0 DEF Firsts
<1>5. ASSUME NEW i \in Firsts(h), NEW j \in Firsts(h), OwnerAt(h, i) = OwnerAt(h, j)
      PROVE  i = j
  <2>1. i \in Nat /\ j \in Nat
    BY <1>0 DEF Firsts
  <2>2. ~(i < j)
    <3>1. i < j => i \in 0..j-1
      BY <2>1
    <3> QED
      BY <3>1, <1>5 DEF Firsts
  <2>3. ~(j < i)
    <3>1. j < i => j \in 0..i-1
      BY <2>1
    <3> QED
      BY <3>1, <1>5 DEF Firsts
  <2> QED
    BY <2>1, <2>2, <2>3
<1>6. \A a \in Members : \E i \in Firsts(h) : OwnerAt(h, i) = a
  BY OwnerAtTurn, FirstMeeting
<1> DEFINE f == [i \in Firsts(h) |-> OwnerAt(h, i)]
<1>7. f \in [Firsts(h) -> Members]
  BY <1>1, OwnerAtTurn
<1>8. f \in Injection(Firsts(h), Members) /\ f \in Surjection(Firsts(h), Members)
  BY <1>5, <1>6, <1>7 DEF Injection, IsInjective, Surjection
<1>9. ExistsBijection(Firsts(h), Members)
  BY <1>8 DEF ExistsBijection, Bijection
<1>10. Cardinality(Firsts(h)) = Cardinality(Members)
  BY <1>2, <1>9, FS_Bijection
<1> QED
  BY <1>2, <1>3, <1>4, <1>5, <1>10

LEMMA ReplicasAre ==
  ASSUME RingInv, NonEmpty, NEW h \in Hashes, NEW n \in Nat \ {0}
  PROVE  LET first == InOrder(Firsts(h))
             size  == Cardinality(Members)
         IN  /\ size \in Nat \ {0}
             /\ InOrderIs(first, Firsts(h)) /\ DOMAIN first = 1..size
             /\ first[1] = 0
             /\ Replicas(h, n) = [i \in 1..(IF n < size THEN n ELSE size) |->
                                    OwnerAt(h, first[i])]
<1> DEFINE first == InOrder(Firsts(h))
           size  == Cardinality(Members)
<1>1. /\ Firsts(h) \in SUBSET Int /\ IsFiniteSet(Firsts(h)) /\ 0 \in Firsts(h)
      /\ \A i \in Firsts(h) : 0 <= i
      /\ Cardinality(Firsts(h)) = size
  BY FirstsCover
<1>2. InOrderIs(first, Firsts(h))
  BY <1>1, InOrderLists
<1>3. size \in Nat \ {0}
  BY <1>1, FS_CardinalityType, FS_EmptySet
<1>4. Replicas(h, n) = [i \in 1..(IF n < Len(first) THEN n ELSE Len(first)) |->
                          OwnerAt(h, first[i])]
  BY DEF Replicas, Firsts
<1> HIDE DEF first, size
<1>5. first \in [1..size -> Firsts(h)] /\ DOMAIN first = 1..size
  BY <1>1, <1>2 DEF InOrderIs
<1>6. Len(first) = size
  BY <1>3, <1>5
<1>7. first[1] = 0
  <2>1. PICK i \in 1..size : first[i] = 0
    BY <1>1, <1>2, <1>5 DEF InOrderIs
  <2>2. 1 \in 1..size
    BY <1>3
  <2>3. PICK m \in Firsts(h) : m = first[1]
    BY <2>2, <1>5
  <2>4. m \in Int /\ 0 <= m
    BY <1>1
  <2>5. 1 < i => m < 0
    BY <2>1, <2>2, <2>3, <1>2, <1>5 DEF InOrderIs
  <2>6. i = 1
    BY <2>4, <2>5, <1>3
  <2> QED
    BY <2>1, <2>6
<1> QED
  BY <1>2, <1>3, <1>4, <1>5, <1>6, <1>7 DEF first, size

LEMMA ReplicasFound == RingInv => ReplicasDistinct
<1> SUFFICES ASSUME RingInv, NonEmpty, NEW h \in Hashes, NEW n \in 1..Cardinality(Addrs)
             PROVE  LET r == Replicas(h, n) IN
                      /\ r[1] = Lookup(h)
                      /\ \A i, j \in DOMAIN r : r[i] = r[j] => i = j
                      /\ Len(r) = IF n < Cardinality(Members) THEN n ELSE Cardinality(Members)
  BY DEF ReplicasDistinct
<1> DEFINE r     == Replicas(h, n)
           first == InOrder(Firsts(h))
           size  == Cardinality(Members)
           count == IF n < size THEN n ELSE size
<1>1. n \in Nat \ {0}
  BY RingAssumption, FS_CardinalityType
<1>2. /\ size \in Nat \ {0}
      /\ InOrderIs(first, Firsts(h)) /\ DOMAIN first = 1..size
      /\ first[1] = 0
      /\ r = [i \in 1..count |-> OwnerAt(h, first[i])]
  BY <1>1, ReplicasAre
<1>3. count \in Nat \ {0} /\ count <= size
  BY <1>1, <1>2
<1> HIDE DEF r, first, size, count
<1>4. DOMAIN r = 1..count /\ Len(r) = count
  BY <1>2, <1>3
<1>5. r[1] = Lookup(h)
  BY <1>2, <1>3, OwnerAtTurn
<1>6. ASSUME NEW i \in 1..count, NEW j \in 1..count, r[i] = r[j]
      PROVE  i = j
  <2>1. i \in 1..size /\ j \in 1..size /\ i \in Int /\ j \in Int
    BY <1>2, <1>3
  <2>2. PICK x \in Firsts(h), y \in Firsts(h) : x = first[i] /\ y = first[j]
    BY <2>1, <1>2 DEF InOrderIs
  <2>3. x = y
    BY <2>2, <1>2, <1>6, FirstsCover
  <2>4. x \in Int
    BY FirstsCover
  <2>5. (i < j => x < y) /\ (j < i => y < x)
    BY <2>1, <2>2, <1>2 DEF InOrderIs
  <2> QED
    BY <2>1, <2>3, <2>4, <2>5
<1> QED
  BY <1>4, <1>5, <1>6 DEF r, size, count

-----------------------------------------------------------------------------
(***************************************************************************)
(* Without collisions every node of the ring owns its points, and no other.*)
(***************************************************************************)
OwnInv ==
  Collided = 0 =>
    \A p \in DOMAIN nodes : p \in Points(nodes[p]) /\ Points(nodes[p]) \subseteq DOMAIN nodes

LEMMA PointsApart ==
  ASSUME TypeOK, Collided = 0, NEW a \in Addrs, NEW b \in Addrs, a # b
  PROVE  Points(a) \cap Points(b) = {}
<1> DEFINE V == Addrs \X (1..VirtualNodes)
           f == [e \in V |-> hash[e[1]][e[2]]]
<1>1. IsFiniteSet(1..VirtualNodes) /\ Cardinality(1..VirtualNodes) = VirtualNodes
  BY RingAssumption, FS_Interval
<1>2. IsFiniteSet(Addrs) /\ Cardinality(Addrs) \in Nat /\ VirtualNodes \in Nat
  BY RingAssumption, FS_CardinalityType
<1>3. IsFiniteSet(V) /\ Cardinality(V) = Cardinality(Addrs) * VirtualNodes
  BY <1>1, <1>2, FS_Product
<1>4. f \in Surjection(V, AllPoints)
  <2>1. \A e \in V : f[e] \in AllPoints
    BY DEF AllPoints, Points
  <2>2. \A p \in AllPoints : \E e \in V : f[e] = p
    <3> SUFFICES ASSUME NEW p \in AllPoints PROVE \E e \in V : f[e] = p
      OBVIOUS
    <3>1. PICK c \in Addrs, i \in 1..VirtualNodes : p = hash[c][i]
      BY DEF AllPoints, Points
    <3>2. <<c, i>> \in V /\ f[<<c, i>>] = p
      BY <3>1
    <3> QED
      BY <3>2
  <2>3. f \in [V -> AllPoints]
    BY <2>1
  <2> QED
    BY <2>2, <2>3 DEF Surjection
<1>5. Cardinality(AllPoints) \in Nat
  BY <1>3, <1>4, FS_Surjection, FS_CardinalityType
<1>6. VirtualNodes * Cardinality(Addrs) = Cardinality(Addrs) * VirtualNodes
  BY <1>2
<1>7. Cardinality(AllPoints) = Cardinality(V)
  <2>1. VirtualNodes * Cardinality(Addrs) \in Nat
    BY <1>2
  <2>2. VirtualNodes * Cardinality(Addrs) - Cardinality(AllPoints) = 0
    BY DEF Collided
  <2> QED
    BY <2>1, <2>2, <1>3, <1>5, <1>6
<1>8. f \in Injection(V, AllPoints)
  BY <1>3, <1>4, <1>7, FS_Surjection
<1>9. ASSUME NEW p \in Points(a), p \in Points(b)
      PROVE  FALSE
  <2>1. PICK i \in 1..VirtualNodes, j \in 1..VirtualNodes : p = hash[a][i] /\ p = hash[b][j]
    BY <1>9 DEF Points
  <2>2. f[<<a, i>>] = f[<<b, j>>] /\ <<a, i>> \in V /\ <<b, j>> \in V
    BY <2>1
  <2>3. <<a, i>> = <<b, j>>
    BY <2>2, <1>8 DEF Injection, IsInjective
  <2> QED
    BY <2>3
<1> QED
  BY <1>9

LEMMA InitOwnInv == Init => OwnInv
<1> SUFFICES ASSUME Init PROVE DOMAIN nodes = {}
  BY DEF OwnInv
<1> QED
  BY DEF Init

LEMMA NextOwnInv == RingInv /\ OwnInv /\ [Next]_vars => OwnInv'
<1> SUFFICES ASSUME RingInv, OwnInv, [Next]_vars PROVE OwnInv'
  OBVIOUS
<1>1. hash' = hash
  BY DEF Next, AddNode, RemoveNode, vars
<1>2. Collided' = Collided
  BY <1>1 DEF Collided, AllPoints, Points
<1> SUFFICES ASSUME Collided = 0, NEW p \in DOMAIN nodes'
             PROVE  p \in Points(nodes'[p]) /\ Points(nodes'[p]) \subseteq DOMAIN nodes'
  BY <1>1, <1>2 DEF OwnInv, Points
<1>3. TypeOK /\ \A q \in DOMAIN nodes : nodes[q] \in Addrs
  BY DEF RingInv, TypeOK, Members
<1>4. \A q \in DOMAIN nodes : q \in Points(nodes[q]) /\ Points(nodes[q]) \subseteq DOMAIN nodes
  BY DEF OwnInv
<1>5. ASSUME NEW a \in Addrs, AddNode(a)
      PROVE  p \in Points(nodes'[p]) /\ Points(nodes'[p]) \subseteq DOMAIN nodes'
  <2>1. /\ DOMAIN nodes' = DOMAIN nodes \cup Points(a)
        /\ nodes'[p] = IF p \in Points(a) THEN a ELSE nodes[p]
    BY <1>5 DEF AddNode, Placed
  <2> QED
    BY <2>1, <1>4
<1>6. ASSUME NEW a \in Addrs, RemoveNode(a)
      PROVE  p \in Points(nodes'[p]) /\ Points(nodes'[p]) \subseteq DOMAIN nodes'
  <2>1. DOMAIN nodes' = DOMAIN nodes \ Points(a) /\ nodes'[p] = nodes[p]
    BY <1>6 DEF RemoveNode
  <2>2. nodes[p] # a
    BY <2>1, <1>4
  <2>3. Points(nodes[p]) \cap Points(a) = {}
    BY <2>1, <2>2, <1>3, PointsApart
  <2> QED
    BY <2>1, <2>3, <1>4
<1>7. ASSUME UNCHANGED vars
      PROVE  p \in Points(nodes'[p]) /\ Points(nodes'[p]) \subseteq DOMAIN nodes'
  BY <1>7, <1>4 DEF vars
<1> QED
  BY <1>5, <1>6, <1>7 DEF Next

(* What a step does to the points and their owners, when none collide.      *)
Joins(a) ==
  /\ a \notin Members
  /\ DOMAIN nodes' = DOMAIN nodes \cup Points(a) /\ DOMAIN nodes \cap Points(a) = {}
  /\ \A p \in DOMAIN nodes : nodes'[p] = nodes[p]
  /\ \A p \in Points(a) : nodes'[p] = a

Leaves(a) ==
  /\ a \notin Members'
  /\ DOMAIN nodes' = {p \in DOMAIN nodes : nodes[p] # a}
  /\ \A p \in DOMAIN nodes' : nodes'[p] = nodes[p]

Stays ==
  /\ DOMAIN nodes' = DOMAIN nodes
  /\ \A p \in DOMAIN nodes : nodes'[p] = nodes[p]

LEMMA StepEffects ==
  ASSUME RingInv, OwnInv, Collided = 0, [Next]_vars
  PROVE  Stays \/ \E a \in Addrs : Joins(a) \/ Leaves(a)
<1>1. TypeOK /\ \A q \in DOMAIN nodes : nodes[q] \in Addrs
  BY DEF RingInv, TypeOK, Members
<1>2. \A q \in DOMAIN nodes : q \in Points(nodes[q]) /\ Points(nodes[q]) \subseteq DOMAIN nodes
  BY DEF OwnInv
<1>3. \A q \in DOMAIN nodes : \A a \in Addrs : q \in Points(a) <=> nodes[q] = a
  BY <1>1, <1>2, PointsApart
<1>4. ASSUME NEW a \in Addrs, AddNode(a) PROVE Stays \/ Joins(a)
  <2>1. /\ DOMAIN nodes' = DOMAIN nodes \cup Points(a)
        /\ \A p \in DOMAIN nodes' : nodes'[p] = IF p \in Points(a) THEN a ELSE nodes[p]
    BY <1>4 DEF AddNode, Placed
  <2>2. CASE a \in Members
    <3>1. Points(a) \subseteq DOMAIN nodes
      BY <2>2, <1>2 DEF Members
    <3> QED
      BY <3>1, <2>1, <1>3 DEF Stays
  <2>3. CASE a \notin Members
    <3>1. DOMAIN nodes \cap Points(a) = {}
      BY <2>3, <1>3 DEF Members
    <3> QED
      BY <3>1, <2>1, <2>3 DEF Joins
  <2> QED
    BY <2>2, <2>3
<1>5. ASSUME NEW a \in Addrs, RemoveNode(a) PROVE Leaves(a)
  <2>1. /\ DOMAIN nodes' = DOMAIN nodes \ Points(a)
        /\ \A p \in DOMAIN nodes' : nodes'[p] = nodes[p]
    BY <1>5 DEF RemoveNode
  <2>2. DOMAIN nodes' = {p \in DOMAIN nodes : nodes[p] # a}
    BY <2>1, <1>3
  <2>3. a \notin Members'
    BY <2>1, <2>2 DEF Members
  <2> QED
    BY <2>1, <2>2, <2>3 DEF Leaves
<1>6. ASSUME UNCHANGED vars PROVE Stays
  BY <1>6 DEF vars, Stays
<1> QED
  BY <1>4, <1>5, <1>6 DEF Next

-----------------------------------------------------------------------------
(* The point of a key, and that it is the nearest one.                      *)
First(h) == sorted[Search(h)]

Nearest ==
  NonEmpty => \A h \in Hashes :
    /\ First(h) \in DOMAIN nodes
    /\ \A q \in DOMAIN nodes : Clockwise(h, First(h)) <= Clockwise(h, q)

LEMMA NearestHolds == RingInv => Nearest
  BY SearchIsNearest DEF Nearest, First

(* A point that is nearest in two sets that both have it is one point.      *)
LEMMA SameNearest ==
  ASSUME NEW h \in Hashes, NEW P \in SUBSET Hashes, NEW Q \in SUBSET Hashes,
         NEW p \in P, \A x \in P : Clockwise(h, p) <= Clockwise(h, x),
         NEW q \in Q, \A x \in Q : Clockwise(h, q) <= Clockwise(h, x),
         p \in Q, q \in P
  PROVE  p = q
  BY ClockwiseInjective

(* A key keeps its point unless the point goes or a nearer one comes.       *)
LEMMA PointKept ==
  ASSUME RingInv, RingInv', Nearest, Nearest', NonEmpty, NonEmpty', NEW h \in Hashes
  PROVE  /\ First(h) \in DOMAIN nodes /\ Lookup(h) = nodes[First(h)]
         /\ First(h)' \in DOMAIN nodes' /\ Lookup(h)' = nodes'[First(h)']
         /\ \A q \in DOMAIN nodes' : Clockwise(h, First(h)') <= Clockwise(h, q)
         /\ First(h) \in DOMAIN nodes' /\ First(h)' \in DOMAIN nodes => First(h)' = First(h)
<1>1. PICK p \in DOMAIN nodes : p = First(h) /\ \A x \in DOMAIN nodes : Clockwise(h, p) <= Clockwise(h, x)
  BY DEF Nearest
<1>2. PICK q \in DOMAIN nodes' : q = First(h)' /\ \A x \in DOMAIN nodes' : Clockwise(h, q) <= Clockwise(h, x)
  BY DEF Nearest, Hashes
<1>3. DOMAIN nodes \subseteq Hashes /\ DOMAIN nodes' \subseteq Hashes
  BY DEF RingInv, TypeOK, Hashes
<1>4. p \in DOMAIN nodes' /\ q \in DOMAIN nodes => q = p
  BY <1>1, <1>2, <1>3, SameNearest
<1>5. Lookup(h) = nodes[First(h)] /\ Lookup(h)' = nodes'[First(h)']
  BY DEF Lookup, First
<1> QED
  BY <1>1, <1>2, <1>4, <1>5

LEMMA MovesStep ==
  ASSUME RingInv, RingInv', OwnInv, Nearest, Nearest', [Next]_vars,
         Collided = 0, NonEmpty, NonEmpty', NEW h \in Hashes
  PROVE  Lookup(h)' # Lookup(h) => Lookup(h)' \notin Members \/ Lookup(h) \notin Members'
<1>1. PICK p \in DOMAIN nodes, q \in DOMAIN nodes' :
        /\ Lookup(h) = nodes[p] /\ Lookup(h)' = nodes'[q]
        /\ p \in DOMAIN nodes' /\ q \in DOMAIN nodes => q = p
  BY PointKept
<1>2. CASE Stays
  BY <1>1, <1>2 DEF Stays
<1>3. ASSUME NEW a \in Addrs, Joins(a) PROVE Lookup(h)' = Lookup(h) \/ Lookup(h)' \notin Members
  BY <1>1, <1>3 DEF Joins
<1>4. ASSUME NEW a \in Addrs, Leaves(a) PROVE Lookup(h)' = Lookup(h) \/ Lookup(h) \notin Members'
  BY <1>1, <1>4 DEF Leaves
<1> QED
  BY <1>2, <1>3, <1>4, StepEffects

LEMMA TakesOverStep ==
  ASSUME RingInv, RingInv', OwnInv, Nearest, Nearest', [Next]_vars,
         Collided = 0, NonEmpty, NonEmpty', NEW h \in Hashes, Lookup(h) \notin Members'
  PROVE  Lookup(h)' = Replicas(h, 2)[2]
<1>1. PICK p \in DOMAIN nodes, q \in DOMAIN nodes' :
        /\ Lookup(h) = nodes[p] /\ Lookup(h)' = nodes'[q]
        /\ \A x \in DOMAIN nodes' : Clockwise(h, q) <= Clockwise(h, x)
  BY PointKept
<1>2. ~(p \in DOMAIN nodes' /\ nodes'[p] = nodes[p])
  BY <1>1 DEF Members
<1>3. PICK a \in Addrs : Leaves(a)
  BY <1>2, StepEffects DEF Stays, Joins
<1>4. /\ nodes[p] = a
      /\ q \in DOMAIN nodes /\ nodes[q] # a /\ nodes'[q] = nodes[q]
      /\ \A x \in DOMAIN nodes : nodes[x] # a => x \in DOMAIN nodes'
  BY <1>2, <1>3 DEF Leaves
<1>5. PICK i \in 0..Len(sorted) - 1 : sorted[Turn(h, i)] = q
  BY <1>4, WalkMeetsAll
<1>6. PICK m \in Firsts(h) : m <= i /\ OwnerAt(h, m) = OwnerAt(h, i)
  BY FirstMeeting
<1>7. OwnerAt(h, 0) = a /\ OwnerAt(h, m) = nodes[q]
  BY <1>1, <1>4, <1>5, <1>6, OwnerAtTurn
<1> DEFINE first == InOrder(Firsts(h))
           size  == Cardinality(Members)
<1>8. /\ size \in Nat \ {0}
      /\ InOrderIs(first, Firsts(h)) /\ DOMAIN first = 1..size
      /\ first[1] = 0
      /\ Replicas(h, 2) = [k \in 1..(IF 2 < size THEN 2 ELSE size) |-> OwnerAt(h, first[k])]
  BY ReplicasAre
<1> HIDE DEF first, size
<1>9. PICK k \in 1..size : first[k] = m
  BY <1>8 DEF InOrderIs
<1>10. k # 1
  BY <1>4, <1>7, <1>8, <1>9
<1>11. 1 \in 1..size /\ 2 \in 1..size /\ 2 <= k
  BY <1>8, <1>9, <1>10
<1>12. PICK z \in Firsts(h) : z = first[2]
  BY <1>8, <1>11 DEF InOrderIs
<1>13. z \in 0..Len(sorted) - 1 /\ z \in Int /\ m \in Int /\ i \in Int
  BY PointTypes DEF Firsts
<1>14. z <= i
  <2>1. 2 < k => z < m
    BY <1>8, <1>9, <1>11, <1>12 DEF InOrderIs
  <2>2. k = 2 => z = m
    BY <1>9, <1>12
  <2>3. k \in Int
    BY <1>8
  <2> QED
    BY <2>1, <2>2, <2>3, <1>6, <1>11, <1>13
<1>15. OwnerAt(h, z) # a
  <2>1. 0 < z
    BY <1>8, <1>11, <1>12 DEF InOrderIs
  <2>2. 0 \in 0..z-1
    BY <2>1, <1>13
  <2> QED
    BY <2>2, <1>7 DEF Firsts
<1>16. sorted[Turn(h, z)] = q
  <2>1. PICK x \in DOMAIN nodes : x = sorted[Turn(h, z)]
    BY <1>13, TurnIs, PointTypes
  <2>2. x \in DOMAIN nodes'
    BY <2>1, <1>4, <1>13, <1>15, OwnerAtTurn
  <2>3. Clockwise(h, q) <= Clockwise(h, x)
    BY <2>2, <1>1
  <2>4. Clockwise(h, x) <= Clockwise(h, q)
    BY <2>1, <1>5, <1>13, <1>14, WalkAscends
  <2>5. x \in Hashes /\ q \in Hashes
    BY <1>4 DEF RingInv, TypeOK
  <2> QED
    BY <2>1, <2>3, <2>4, <2>5, ClockwiseInjective
<1>17. OwnerAt(h, z) = nodes[q]
  BY <1>13, <1>16, OwnerAtTurn
<1>18. Replicas(h, 2)[2] = OwnerAt(h, first[2])
  <2>1. 2 \in 1..(IF 2 < size THEN 2 ELSE size)
    BY <1>8, <1>11
  <2> QED
    BY <2>1, <1>8
<1> QED
  BY <1>1, <1>4, <1>12, <1>17, <1>18

-----------------------------------------------------------------------------
(* The ring is well-formed whatever is added and removed: its points are    *)
(* hashes and its owners nodes (partition.go:16-52).                        *)
THEOREM RTypeCorrect == Spec => []TypeOK
<1>1. RingInv => TypeOK
  BY DEF RingInv
<1> QED
  BY <1>1, RingInvHolds, PTL

(* Lookup's binary search with its wrap-around (partition.go:61-68) finds   *)
(* the owner of the nearest point clockwise, after any adding and removing, *)
(* although virtual nodes may collide.                                      *)
THEOREM LookupIsSuccessorHolds == Spec => []LookupIsSuccessor
  BY RingInvHolds, LookupFinds, PTL

(* Replicas (partition.go:71-92) returns distinct nodes, the primary first, *)
(* and as many as asked for if the ring has them.                           *)
THEOREM ReplicasDistinctHolds == Spec => []ReplicasDistinct
  BY RingInvHolds, ReplicasFound, PTL

LEMMA OwnInvHolds == Spec => []OwnInv
  BY RingInvHolds, InitOwnInv, NextOwnInv, PTL DEF Spec

(* Without collisions a key changes its primary only for a node that joins  *)
(* or from a node that leaves (partition.go:27-52).                         *)
THEOREM OnlyOwnKeysMoveHolds == Spec => OnlyOwnKeysMove
<1> DEFINE Keys == \A h \in Hashes : Lookup(h)' # Lookup(h) =>
                     Lookup(h)' \notin Members \/ Lookup(h) \notin Members'
           A == Collided = 0 /\ NonEmpty /\ NonEmpty' => Keys
<1>1. RingInv /\ RingInv' /\ OwnInv /\ Nearest /\ Nearest' /\ [Next]_vars => A
  BY MovesStep
<1>2. RingInv /\ RingInv' /\ OwnInv /\ Nearest /\ Nearest' /\ [Next]_vars => [A]_vars
  BY <1>1
<1> HIDE DEF A
<1>3. Spec => [][A]_vars
  BY <1>2, RingInvHolds, OwnInvHolds, NearestHolds, PTL DEF Spec
<1> QED
  BY <1>3 DEF OnlyOwnKeysMove, A

(* The keys of a node that leaves go to their second replica, which has     *)
(* their facts (partition.go:27-92).                                        *)
THEOREM SuccessorTakesOverHolds == Spec => SuccessorTakesOver
<1> DEFINE Keys == \A h \in Hashes :
                     Lookup(h) \notin Members' => Lookup(h)' = Replicas(h, 2)[2]
           A == Collided = 0 /\ NonEmpty /\ NonEmpty' => Keys
<1>1. RingInv /\ RingInv' /\ OwnInv /\ Nearest /\ Nearest' /\ [Next]_vars => A
  BY TakesOverStep
<1>2. RingInv /\ RingInv' /\ OwnInv /\ Nearest /\ Nearest' /\ [Next]_vars => [A]_vars
  BY <1>1
<1> HIDE DEF A
<1>3. Spec => [][A]_vars
  BY <1>2, RingInvHolds, OwnInvHolds, NearestHolds, PTL DEF Spec
<1> QED
  BY <1>3 DEF SuccessorTakesOver, A
=============================================================================
