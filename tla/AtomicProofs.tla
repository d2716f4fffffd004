---------------------------- MODULE AtomicProofs ----------------------------
(***************************************************************************)
(* Proof that ReplicatedStore implements KVStore until a request fails, for *)
(* any nodes, keys and clients, if every key has one writer and the clocks  *)
(* of the nodes are less than Gap apart.                                    *)
(***************************************************************************)
EXTENDS AtomicStore, StoreProofs

-----------------------------------------------------------------------------
(***************************************************************************)
(* The steps of KVStore, in terms of what the store maps to.               *)
(***************************************************************************)
Data     == [k \in Keys |-> Holds(k)]
AbsCalls == [c \in Clients |-> AbstractCall(op[c])]

LEMMA KVStutter ==
  ASSUME Data' = Data, AbsCalls' = AbsCalls, held' = held
  PROVE  UNCHANGED KV!vars
BY DEF KV!vars, Data, AbsCalls

LEMMA KVBegin ==
  ASSUME NEW c \in Clients, NEW k \in Keys, NEW kind, NEW v,
         \/ kind = "set" /\ v \in 1..MaxWrites
         \/ kind \in {"delete", "get", "list"} /\ v = 0,
         AbsCalls[c] = Idle, AbsCalls' = [AbsCalls EXCEPT ![c] = KV!Call(kind, k, v)],
         Data' = Data, KV!Witness
  PROVE  KV!Next
<1>1. KV!Begins(c, KV!Call(kind, k, v))
  BY DEF KV!Begins, KV!Idle, Idle, Data, AbsCalls
<1>2. KV!Begin(c)
  BY <1>1 DEF KV!Begin, KV!NoVal
<1> QED
  BY <1>2 DEF KV!Next

(* The call that is done, field by field.                                   *)
LEMMA KVWrite ==
  ASSUME NEW c \in Clients, NEW kind \in {"set", "delete"}, NEW k, NEW v, NEW R,
         AbsCalls[c] = [kind |-> kind, key |-> k, val |-> v, done |-> FALSE, result |-> R],
         AbsCalls' = [AbsCalls EXCEPT ![c] =
                        [kind |-> kind, key |-> k, val |-> v, done |-> TRUE, result |-> R]],
         Data' = [Data EXCEPT ![k] = v], KV!Witness
  PROVE  KV!Next
<1>1. PICK call : call = AbsCalls[c]
  OBVIOUS
<1>2. [call EXCEPT !.done = TRUE] =
        [kind |-> kind, key |-> k, val |-> v, done |-> TRUE, result |-> R]
  <2>1. ASSUME NEW t
        PROVE  [call EXCEPT !.done = t] =
               [kind |-> kind, key |-> k, val |-> v, done |-> t, result |-> R]
    BY <1>1
  <2>2. \A t : [call EXCEPT !.done = t] =
               [kind |-> kind, key |-> k, val |-> v, done |-> t, result |-> R]
    BY <2>1, Zenon
  <2> QED
    BY <2>2, Zenon
<1>3. AbsCalls' = [AbsCalls EXCEPT ![c].done = TRUE]
  BY <1>1, <1>2, Zenon
<1>4. /\ AbsCalls[c].kind = kind /\ AbsCalls[c].key = k /\ AbsCalls[c].val = v
      /\ ~AbsCalls[c].done /\ AbsCalls[c] # Idle
  BY DEF Idle
<1>5. KV!Write(c)
  BY <1>3, <1>4 DEF KV!Write, KV!Pending, KV!Idle, Idle, Data, AbsCalls
<1> QED
  BY <1>5 DEF KV!Next

LEMMA KVGet ==
  ASSUME NEW c \in Clients, NEW k, NEW v0, NEW R, NEW v \in held[c][k],
         AbsCalls[c] = [kind |-> "get", key |-> k, val |-> v0, done |-> FALSE, result |-> R],
         AbsCalls' = [AbsCalls EXCEPT ![c] =
                        [kind |-> "get", key |-> k, val |-> v0, done |-> TRUE,
                         result |-> [R EXCEPT ![k] = v]]],
         Data' = Data, KV!Witness
  PROVE  KV!Next
<1>1. PICK call, r : call = AbsCalls[c] /\ r = [R EXCEPT ![k] = v]
  OBVIOUS
<1>2. [call EXCEPT !.done = TRUE, !.result[k] = v] =
        [kind |-> "get", key |-> k, val |-> v0, done |-> TRUE, result |-> r]
  <2>1. ASSUME NEW t
        PROVE  [call EXCEPT !.done = t, !.result[k] = v] =
               [kind |-> "get", key |-> k, val |-> v0, done |-> t, result |-> r]
    <3>1. PICK d : d = [call EXCEPT !.done = t]
      OBVIOUS
    <3>2. d = [kind |-> "get", key |-> k, val |-> v0, done |-> t, result |-> R]
      BY <1>1, <3>1
    <3>3. [call EXCEPT !.done = t, !.result[k] = v] =
            [d EXCEPT !.result = [d.result EXCEPT ![k] = v]]
      BY <3>1, Zenon
    <3>4. d.result = R
      BY <3>2
    <3>5. [d EXCEPT !.result = r] =
            [kind |-> "get", key |-> k, val |-> v0, done |-> t, result |-> r]
      BY <3>2
    <3> QED
      BY <1>1, <3>3, <3>4, <3>5, Zenon
  <2>2. \A t : [call EXCEPT !.done = t, !.result[k] = v] =
               [kind |-> "get", key |-> k, val |-> v0, done |-> t, result |-> r]
    BY <2>1, Zenon
  <2> QED
    BY <2>2, Zenon
<1>3. AbsCalls' = [AbsCalls EXCEPT ![c].done = TRUE, ![c].result[k] = v]
  BY <1>1, <1>2
<1>4. /\ AbsCalls[c].kind = "get" /\ AbsCalls[c].key = k
      /\ ~AbsCalls[c].done /\ AbsCalls[c] # Idle
  BY DEF Idle
<1>5. KV!Get(c)
  BY <1>3, <1>4 DEF KV!Get, KV!Pending, KV!Idle, Idle, Data, AbsCalls
<1> QED
  BY <1>5 DEF KV!Next

LEMMA KVList ==
  ASSUME NEW c \in Clients, NEW k, NEW v0, NEW R, NEW r \in [Keys -> 0..MaxWrites],
         \A j \in Keys : r[j] \in held[c][j],
         AbsCalls[c] = [kind |-> "list", key |-> k, val |-> v0, done |-> FALSE, result |-> R],
         AbsCalls' = [AbsCalls EXCEPT ![c] =
                        [kind |-> "list", key |-> k, val |-> v0, done |-> TRUE, result |-> r]],
         Data' = Data, KV!Witness
  PROVE  KV!Next
<1>1. PICK call : call = AbsCalls[c]
  OBVIOUS
<1>2. [call EXCEPT !.done = TRUE, !.result = r] =
        [kind |-> "list", key |-> k, val |-> v0, done |-> TRUE, result |-> r]
  <2>1. ASSUME NEW t
        PROVE  [call EXCEPT !.done = t, !.result = r] =
               [kind |-> "list", key |-> k, val |-> v0, done |-> t, result |-> r]
    <3>1. PICK d : d = [call EXCEPT !.done = t]
      OBVIOUS
    <3>2. d = [kind |-> "list", key |-> k, val |-> v0, done |-> t, result |-> R]
      BY <1>1, <3>1
    <3>3. [call EXCEPT !.done = t, !.result = r] = [d EXCEPT !.result = r]
      BY <3>1, Zenon
    <3>4. [d EXCEPT !.result = r] =
            [kind |-> "list", key |-> k, val |-> v0, done |-> t, result |-> r]
      BY <3>2
    <3> QED
      BY <3>3, <3>4, Zenon
  <2>2. \A t : [call EXCEPT !.done = t, !.result = r] =
               [kind |-> "list", key |-> k, val |-> v0, done |-> t, result |-> r]
    BY <2>1, Zenon
  <2> QED
    BY <2>2, Zenon
<1>3. AbsCalls' = [AbsCalls EXCEPT ![c].done = TRUE, ![c].result = r]
  BY <1>1, <1>2
<1>4. AbsCalls[c].kind = "list" /\ ~AbsCalls[c].done /\ AbsCalls[c] # Idle
  BY DEF Idle
<1>5. 0..MaxWrites = 1..MaxWrites \cup {0}
  BY StoreAssumption
<1>6. r \in [Keys -> 1..MaxWrites \cup {0}]
  BY <1>5
<1>7. KV!List(c)
  BY <1>3, <1>4, <1>6
  DEF KV!List, KV!Pending, KV!Idle, Idle, Data, AbsCalls, KV!NoVal
<1> QED
  BY <1>7 DEF KV!Next

LEMMA KVReturn ==
  ASSUME NEW c \in Clients, AbsCalls[c] # Idle, AbsCalls[c].done,
         AbsCalls' = [AbsCalls EXCEPT ![c] = Idle],
         Data' = Data, KV!Witness
  PROVE  KV!Next
<1>1. KV!Return(c)
  BY DEF KV!Return, KV!Idle, Idle, Data, AbsCalls
<1> QED
  BY <1>1 DEF KV!Next

-----------------------------------------------------------------------------
(* What calls and databases map to *)

Value(k, d) ==
  IF d[Primary[k]][k] # NoFact THEN d[Primary[k]][k].val ELSE d[Replica[k]][k].val

IsRead(call) == call.kind \in {"get", "list"}

LEMMA AbstractIs ==
  ASSUME NEW call \in Calls
  PROVE  /\ AbstractCall(call) = [kind |-> call.kind, key |-> call.key, val |-> call.val,
                                  done |-> Done(call), result |-> Result(call)]
         /\ AbstractCall(call) # Idle /\ AbstractCall(call).kind = call.kind
<1>1. call # Idle
  BY DEF Calls, Idle
<1>2. AbstractCall(call) = [kind |-> call.kind, key |-> call.key, val |-> call.val,
                            done |-> Done(call), result |-> Result(call)]
  BY <1>1 DEF AbstractCall
<1>3. call.kind # "idle"
  BY DEF Calls
<1> QED
  BY <1>2, <1>3 DEF Idle

LEMMA AbstractIdle == AbstractCall(Idle) = Idle
BY DEF AbstractCall

(* What an abstract call is made of.                                        *)
LEMMA AbstractSame ==
  ASSUME NEW call \in Calls, NEW old \in Calls,
         call.kind = old.kind, call.key = old.key, call.val = old.val,
         call.todo = old.todo, call.found = old.found
  PROVE  AbstractCall(call) = AbstractCall(old)
<1>1. Done(call) = Done(old)
  BY DEF Done
<1>2. Result(call) = Result(old)
  BY <1>1 DEF Result
<1> QED
  BY <1>1, <1>2, AbstractIs

LEMMA AbsChanges ==
  ASSUME NEW c \in Clients, NEW call, op'[c] = call,
         \A d \in Clients \ {c} : AbstractCall(op'[d]) = AbstractCall(op[d])
  PROVE  AbsCalls' = [AbsCalls EXCEPT ![c] = AbstractCall(call)]
<1>1. AbsCalls' = [d \in Clients |-> AbstractCall(op'[d])]
  BY DEF AbsCalls, AbstractCall, Done, Result
<1>2. [AbsCalls EXCEPT ![c] = AbstractCall(call)] =
        [d \in Clients |-> IF d = c THEN AbstractCall(call) ELSE AbstractCall(op[d])]
  BY DEF AbsCalls
<1>3. \A d \in Clients :
        AbstractCall(op'[d]) = IF d = c THEN AbstractCall(call) ELSE AbstractCall(op[d])
  OBVIOUS
<1> QED
  BY <1>1, <1>2, <1>3

LEMMA AbsChange ==
  ASSUME TypeOK, NEW c \in Clients, NEW call, op' = [op EXCEPT ![c] = call]
  PROVE  AbsCalls' = [AbsCalls EXCEPT ![c] = AbstractCall(call)]
<1>1. op'[c] = call /\ \A d \in Clients \ {c} : op'[d] = op[d]
  BY DEF TypeOK
<1>2. \A d \in Clients \ {c} : AbstractCall(op'[d]) = AbstractCall(op[d])
  BY <1>1
<1> QED
  BY <1>1, <1>2, AbsChanges

LEMMA AbsSame ==
  ASSUME \A d \in Clients : AbstractCall(op'[d]) = AbstractCall(op[d])
  PROVE  AbsCalls' = AbsCalls
<1>1. AbsCalls' = [d \in Clients |-> AbstractCall(op'[d])]
  BY DEF AbsCalls, AbstractCall, Done, Result
<1> QED
  BY <1>1 DEF AbsCalls

LEMMA DataIs ==
  /\ Data = [k \in Keys |-> Value(k, disk)]
  /\ Data' = [k \in Keys |-> Value(k, disk')]
BY DEF Data, Holds, Value

LEMMA WitnessIs ==
  ASSUME TypeOK', KV!Witness
  PROVE  held' = [c \in Clients |-> [k \in Keys |->
                    IF IsRead(op'[c]) THEN held[c][k] \cup {Value(k, disk')} ELSE {}]]
<1>1. \A c \in Clients : AbsCalls'[c].kind = op'[c].kind
  <2> SUFFICES ASSUME NEW c \in Clients PROVE AbsCalls'[c].kind = op'[c].kind
    OBVIOUS
  <2>1. AbsCalls' = [d \in Clients |-> AbstractCall(op'[d])]
    BY DEF AbsCalls, AbstractCall, Done, Result
  <2>2. op'[c] \in Calls \/ op'[c] = Idle
    BY DEF TypeOK, Calls, Fact, Idle
  <2> QED
    BY <2>1, <2>2, AbstractIs, AbstractIdle
<1>2. held' = [c \in Clients |-> [k \in Keys |->
                 IF AbsCalls'[c].kind \in {"get", "list"}
                   THEN held[c][k] \cup {Data'[k]} ELSE {}]]
  BY DEF KV!Witness, KV!Reading, AbsCalls, Data
<1>3. \A k \in Keys : Data'[k] = Value(k, disk')
  BY DataIs
<1> QED
  BY <1>1, <1>2, <1>3 DEF IsRead

-----------------------------------------------------------------------------
(* The inductive invariant, while every request is answered *)

(* No database holds a fact of the future, nor one of another node's keys.  *)
Sound(d, clk) ==
  \A n \in Nodes : \A k \in Keys :
    /\ d[n][k].ver <= clk + Skew[n]
    /\ d[n][k] = NoFact \/ (d[n][k].val # 0 /\ d[n][k].ver > 0)
    /\ n \notin Targets(k) => d[n][k] = NoFact

(* A Set or Delete has changed the primary and not yet the replica.         *)
Halfway(call, k) ==
  call.kind \in {"set", "delete"} /\ call.key = k /\ call.todo = {Replica[k]}

(* The two nodes of a key differ by the call that is halfway.               *)
Agree(k, d, ops) ==
  /\ (\A c \in Clients : ~Halfway(ops[c], k)) =>
       d[Primary[k]][k].val = d[Replica[k]][k].val
  /\ \A c \in Clients : Halfway(ops[c], k) =>
       IF ops[c].kind = "set"
         THEN /\ d[Primary[k]][k].val = ops[c].val
              /\ d[Primary[k]][k].ver > d[Replica[k]][k].ver
         ELSE d[Primary[k]][k] = NoFact

(* What a Get has found; h is what the keys held since it began.            *)
Gets(call, h, d) ==
  /\ call.todo \in {Targets(call.key), {Replica[call.key]}, {}}
  /\ call.todo # {} => \A k \in Keys : call.found[k] = NoFact
  /\ call.todo = {} => \A k \in Keys : k # call.key => call.found[k] = NoFact
  /\ call.todo = {Replica[call.key]} => d[Replica[call.key]][call.key].val \in h[call.key]

(* What a List has found of a key, or can still find at the nodes it did    *)
(* not ask: f is its fact so far, p what the primary P has and r the        *)
(* replica R.                                                               *)
ListsKey(f, p, r, h, P, R, todo) ==
  /\ P \in todo /\ R \in todo => f = NoFact
  /\ P \notin todo /\ R \in todo => f.val \in h /\ (r.ver > f.ver => r.val \in h)
  /\ P \in todo /\ R \notin todo => f.val \in h \/ p.ver > f.ver
  /\ P \notin todo /\ R \notin todo => f.val \in h

Lists(call, h, d) ==
  /\ call.prefix = Keys
  /\ \A k \in Keys :
       ListsKey(call.found[k], d[Primary[k]][k], d[Replica[k]][k], h[k],
                Primary[k], Replica[k], call.todo)

Reads(call, h, d) ==
  /\ \A k \in Keys : IF IsRead(call) THEN Value(k, d) \in h[k] ELSE h[k] = {}
  /\ call.kind = "get" => Gets(call, h, d)
  /\ call.kind = "list" => Lists(call, h, d)

Whole ==
  /\ late = {}
  /\ \A c \in Clients : ~Unanswered(op[c])
  /\ ~ListMeetsDelete(op)

HeldShape(h) == h = [c \in Clients |-> [k \in Keys |-> h[c][k]]]

Good ==
  /\ TypeInv
  /\ Whole
  /\ HeldShape(held)
  /\ Sound(disk, clock)
  /\ \A k \in Keys : Agree(k, disk, op)
  /\ \A c \in Clients : Reads(op[c], held[c], disk)

HInv == TypeInv /\ HeldShape(held) /\ (intact => Good)

(* What the readers have seen after a step.                                 *)
Sees(call, h1, h2, d) ==
  \A k \in Keys : h2[k] = IF IsRead(call) THEN h1[k] \cup {Value(k, d)} ELSE {}

(* Reads go on as before when the writers change the databases: a replica   *)
(* gets what its key holds, a primary gets something newer, or no List runs. *)
LEMMA ReadsKept ==
  ASSUME NEW d1 \in [Nodes -> [Keys -> Fact]], NEW d2 \in [Nodes -> [Keys -> Fact]],
         NEW h1, NEW h2, NEW call \in Calls \cup {Idle}, NEW old \in Calls \cup {Idle},
         call.kind = old.kind,
         old # Idle => /\ call.key = old.key /\ call.todo = old.todo
                       /\ call.found = old.found /\ call.prefix = old.prefix,
         Reads(old, h1, d1), Sees(call, h1, h2, d2),
         \A k \in Keys : \/ d2[Replica[k]][k] = d1[Replica[k]][k]
                         \/ d2[Replica[k]][k].val = Value(k, d2),
         call.kind = "list" =>
           \A k \in Keys : \/ d2[Primary[k]][k] = d1[Primary[k]][k]
                           \/ d2[Primary[k]][k].ver > d1[Primary[k]][k].ver
  PROVE  Reads(call, h2, d2)
<1>1. \A k \in Keys : IF IsRead(call) THEN Value(k, d2) \in h2[k] ELSE h2[k] = {}
  BY DEF Sees
<1>2. ASSUME IsRead(call) PROVE \A k \in Keys : h1[k] \subseteq h2[k]
  BY <1>2 DEF Sees
<1>3. call = Idle <=> old = Idle
  BY DEF Calls, Idle
<1>4. ASSUME call.kind = "get" PROVE Gets(call, h2, d2)
  <2>1. call \in Calls /\ old \in Calls /\ IsRead(call) /\ Gets(old, h1, d1)
    BY <1>3, <1>4 DEF Idle, IsRead, Reads
  <2>2. call.key \in Keys /\ call.key = old.key /\ call.todo = old.todo /\ call.found = old.found
    BY <1>4, <2>1 DEF Calls, Idle
  <2>3. ASSUME call.todo = {Replica[call.key]}
        PROVE  d2[Replica[call.key]][call.key].val \in h2[call.key]
    <3>1. d1[Replica[call.key]][call.key].val \in h1[call.key]
      BY <2>1, <2>2, <2>3 DEF Gets
    <3>2. Value(call.key, d2) \in h2[call.key]
      BY <1>1, <2>1, <2>2
    <3> QED
      BY <1>2, <2>1, <2>2, <3>1, <3>2
  <2> QED
    BY <2>1, <2>2, <2>3 DEF Gets
<1>5. ASSUME call.kind = "list" PROVE Lists(call, h2, d2)
  <2>1. call \in Calls /\ old \in Calls /\ IsRead(call) /\ Lists(old, h1, d1)
    BY <1>3, <1>5 DEF Idle, IsRead, Reads
  <2>2. call.todo = old.todo /\ call.found = old.found /\ call.prefix = old.prefix
    BY <1>5, <2>1 DEF Calls, Idle
  <2>3. ASSUME NEW k \in Keys
        PROVE  ListsKey(call.found[k], d2[Primary[k]][k], d2[Replica[k]][k], h2[k],
                        Primary[k], Replica[k], call.todo)
    <3> DEFINE f == call.found[k]
               p1 == d1[Primary[k]][k]
               p2 == d2[Primary[k]][k]
               r1 == d1[Replica[k]][k]
               r2 == d2[Replica[k]][k]
    <3>1. f.ver \in Int /\ p1.ver \in Int /\ p2.ver \in Int
      BY <2>1, StoreAssumption DEF Calls, Fact
    <3>2. ListsKey(f, p1, r1, h1[k], Primary[k], Replica[k], call.todo)
      BY <2>1, <2>2 DEF Lists
    <3>3. /\ h1[k] \subseteq h2[k] /\ Value(k, d2) \in h2[k]
          /\ r2 = r1 \/ r2.val = Value(k, d2)
          /\ p2 = p1 \/ p2.ver > p1.ver
      BY <1>1, <1>2, <1>5, <2>1
    <3> HIDE DEF f, p1, p2, r1, r2
    <3>4. ListsKey(f, p2, r2, h2[k], Primary[k], Replica[k], call.todo)
      BY <3>1, <3>2, <3>3 DEF ListsKey
    <3> QED
      BY <3>4 DEF f, p2, r2
  <2> QED
    BY <2>1, <2>2, <2>3 DEF Lists
<1> QED
  BY <1>1, <1>4, <1>5 DEF Reads

-----------------------------------------------------------------------------
(* What every step shares *)

LEMMA HeldIs ==
  ASSUME TypeOK', KV!Witness
  PROVE  /\ HeldShape(held')
         /\ \A c \in Clients : Sees(op'[c], held[c], held'[c], disk')
<1>1. held' = [c \in Clients |-> [k \in Keys |->
                 IF IsRead(op'[c]) THEN held[c][k] \cup {Value(k, disk')} ELSE {}]]
  BY WitnessIs
<1> QED
  BY <1>1 DEF HeldShape, Sees

LEMMA GoodNext ==
  ASSUME TypeInv', Whole', KV!Witness, Sound(disk', clock'),
         \A k \in Keys : Agree(k, disk', op'),
         \A c \in Clients : Reads(op'[c], held'[c], disk')
  PROVE  Good'
<1>1. HeldShape(held')
  BY HeldIs DEF TypeInv
<1>2. HeldShape(held)'
  BY <1>1 DEF HeldShape
<1>3. Sound(disk, clock)'
  BY DEF Sound
<1>4. (\A k \in Keys : Agree(k, disk, op))'
  BY DEF Agree, Halfway
<1>5. (\A c \in Clients : Reads(op[c], held[c], disk))'
  BY DEF Reads, Gets, Lists, IsRead, Value
<1> QED
  BY <1>2, <1>3, <1>4, <1>5 DEF Good

LEMMA SameKind ==
  ASSUME NEW call \in Calls \cup {Idle}, NEW old \in Calls \cup {Idle},
         AbstractCall(call) = AbstractCall(old)
  PROVE  IsRead(call) = IsRead(old)
<1>1. AbstractCall(call).kind = call.kind
  BY AbstractIs, AbstractIdle
<1>2. AbstractCall(old).kind = old.kind
  BY AbstractIs, AbstractIdle
<1> QED
  BY <1>1, <1>2 DEF IsRead

(* A step that changes no key and no call of KVStore changes nothing there:  *)
(* what the keys hold has been seen before.                                 *)
LEMMA Stutters ==
  ASSUME Good, TypeOK', KV!Witness,
         \A k \in Keys : Value(k, disk') = Value(k, disk),
         \A c \in Clients : AbstractCall(op'[c]) = AbstractCall(op[c])
  PROVE  UNCHANGED KV!vars
<1>1. Data' = Data
  BY DataIs
<1>2. AbsCalls' = AbsCalls
  BY AbsSame
<1>3. \A c \in Clients : op[c] \in Calls \cup {Idle} /\ op'[c] \in Calls \cup {Idle}
  BY DEF Good, TypeInv, TypeOK, Calls, Fact, Idle
<1>4. \A c \in Clients : IsRead(op'[c]) = IsRead(op[c])
  BY <1>3, SameKind
<1>5. \A c \in Clients : \A k \in Keys :
        IF IsRead(op[c]) THEN Value(k, disk) \in held[c][k] ELSE held[c][k] = {}
  BY DEF Good, Reads
<1>6. \A c \in Clients : \A k \in Keys :
        held'[c][k] = IF IsRead(op'[c]) THEN held[c][k] \cup {Value(k, disk')} ELSE {}
  BY HeldIs DEF Sees
<1>7. ASSUME NEW c \in Clients, NEW k \in Keys PROVE held'[c][k] = held[c][k]
  <2>1. CASE IsRead(op[c])
    <3>1. IsRead(op'[c]) /\ Value(k, disk') \in held[c][k]
      BY <1>4, <1>5, <2>1
    <3>2. held'[c][k] = held[c][k] \cup {Value(k, disk')}
      BY <1>6, <3>1
    <3> QED
      BY <3>1, <3>2
  <2>2. CASE ~IsRead(op[c])
    <3>1. ~IsRead(op'[c]) /\ held[c][k] = {}
      BY <1>4, <1>5, <2>2
    <3> QED
      BY <1>6, <3>1
  <2> QED
    BY <2>1, <2>2
<1>8. HeldShape(held) /\ HeldShape(held')
  BY HeldIs DEF Good
<1>9. held' = held
  BY <1>7, <1>8 DEF HeldShape
<1> QED
  BY <1>1, <1>2, <1>9, KVStutter

LEMMA AgreeKept ==
  ASSUME NEW k \in Keys, NEW d1, NEW d2, NEW o1, NEW o2,
         d2[Primary[k]][k] = d1[Primary[k]][k], d2[Replica[k]][k] = d1[Replica[k]][k],
         \A c \in Clients :
           /\ Halfway(o1[c], k) <=> Halfway(o2[c], k)
           /\ Halfway(o2[c], k) => o1[c].kind = o2[c].kind /\ o1[c].val = o2[c].val,
         Agree(k, d1, o1)
  PROVE  Agree(k, d2, o2)
BY Zenon DEF Agree

(* While a List runs, the primary of a key has what the key holds.          *)
LEMMA PrimaryHolds ==
  ASSUME Good, NEW c \in Clients, op[c].kind = "list", NEW k \in Keys
  PROVE  /\ disk[Primary[k]][k].val = Value(k, disk)
         /\ \/ disk[Replica[k]][k].val = Value(k, disk)
            \/ disk[Primary[k]][k].ver > disk[Replica[k]][k].ver
<1>1. \A d \in Clients : op[d].kind # "delete"
  BY DEF Good, Whole, ListMeetsDelete
<1>2. Agree(k, disk, op)
  BY DEF Good
<1>3. CASE \A d \in Clients : ~Halfway(op[d], k)
  BY <1>2, <1>3 DEF Agree, Value
<1>4. CASE \E d \in Clients : Halfway(op[d], k)
  <2>1. PICK d \in Clients : Halfway(op[d], k)
    BY <1>4
  <2>2. op[d].kind = "set"
    BY <1>1, <2>1 DEF Halfway
  <2>3. /\ disk[Primary[k]][k].val = op[d].val
        /\ disk[Primary[k]][k].ver > disk[Replica[k]][k].ver
    BY <1>2, <2>1, <2>2 DEF Agree
  <2>4. op[d].val # 0
    BY <2>2 DEF Good, TypeInv, LoopInv, Loop
  <2>5. disk[Primary[k]][k] # NoFact
    BY <2>3, <2>4 DEF NoFact
  <2> QED
    BY <2>3, <2>5 DEF Value
<1> QED
  BY <1>3, <1>4

(* What a call asks for and has found.                                      *)
Same(call, old) ==
  /\ call.kind = old.kind
  /\ old # Idle => /\ call.key = old.key /\ call.val = old.val
                   /\ call.todo = old.todo /\ call.found = old.found
                   /\ call.prefix = old.prefix

LEMMA SameAbstract ==
  ASSUME NEW call \in Calls \cup {Idle}, NEW old \in Calls \cup {Idle}, Same(call, old)
  PROVE  AbstractCall(call) = AbstractCall(old)
<1>1. CASE old = Idle
  BY <1>1 DEF Same, Calls, Idle
<1>2. CASE old # Idle
  <2>1. old \in Calls /\ call \in Calls
    BY <1>2 DEF Same, Calls, Idle
  <2> QED
    BY <1>2, <2>1, AbstractSame DEF Same
<1> QED
  BY <1>1, <1>2

LEMMA CallTypes ==
  /\ TypeOK => /\ \A c \in Clients : op[c] \in Calls \cup {Idle}
               /\ disk \in [Nodes -> [Keys -> Fact]]
  /\ TypeOK' => /\ \A c \in Clients : op'[c] \in Calls \cup {Idle}
                /\ disk' \in [Nodes -> [Keys -> Fact]]
BY DEF TypeOK, Calls, Fact, Idle

(* A client's step that leaves the databases alone.                         *)
LEMMA CalmStep ==
  ASSUME Good, TypeInv', Whole', KV!Witness, disk' = disk, clock' = clock,
         NEW c \in Clients,
         \A d \in Clients \ {c} : Same(op'[d], op[d]),
         \A k \in Keys : ~Halfway(op'[c], k) /\ ~Halfway(op[c], k),
         Reads(op'[c], held'[c], disk)
  PROVE  Good' /\ Data' = Data
<1>1. Sound(disk', clock')
  BY DEF Good
<1>2. ASSUME NEW d \in Clients PROVE Reads(op'[d], held'[d], disk')
  <2>1. CASE d = c
    BY <2>1
  <2>2. CASE d # c
    <3>1. Same(op'[d], op[d]) /\ Reads(op[d], held[d], disk)
      BY <2>2 DEF Good
    <3>2. Sees(op'[d], held[d], held'[d], disk')
      BY HeldIs DEF TypeInv
    <3>3. /\ op[d] \in Calls \cup {Idle} /\ op'[d] \in Calls \cup {Idle}
          /\ disk \in [Nodes -> [Keys -> Fact]]
      BY CallTypes DEF Good, TypeInv
    <3>4. /\ op'[d].kind = op[d].kind
          /\ op[d] # Idle => /\ op'[d].key = op[d].key /\ op'[d].todo = op[d].todo
                             /\ op'[d].found = op[d].found /\ op'[d].prefix = op[d].prefix
      BY <3>1 DEF Same
    <3> QED
      BY <3>1, <3>2, <3>3, <3>4, ReadsKept
  <2> QED
    BY <2>1, <2>2
<1>3. ASSUME NEW k \in Keys PROVE Agree(k, disk', op')
  <2>1. ASSUME NEW d \in Clients
        PROVE  /\ Halfway(op[d], k) <=> Halfway(op'[d], k)
               /\ Halfway(op'[d], k) => op[d].kind = op'[d].kind /\ op[d].val = op'[d].val
    <3>1. CASE d = c
      BY <3>1
    <3>2. CASE d # c
      <4>1. Same(op'[d], op[d])
        BY <3>2
      <4>2. op[d] = Idle => ~Halfway(op[d], k) /\ ~Halfway(op'[d], k)
        BY <4>1 DEF Halfway, Same, Idle
      <4> QED
        BY <4>1, <4>2 DEF Halfway, Same
    <3> QED
      BY <3>1, <3>2
  <2>2. Agree(k, disk, op)
    BY DEF Good
  <2> QED
    BY <2>1, <2>2, AgreeKept
<1>4. Data' = Data
  BY DataIs
<1> QED
  BY <1>1, <1>2, <1>3, <1>4, GoodNext

(* No call changes but the client's own.                                    *)
LEMMA OnlyOwn ==
  ASSUME TypeOK, NEW c \in Clients, NEW call, op' = [op EXCEPT ![c] = call]
  PROVE  op'[c] = call /\ \A d \in Clients \ {c} : op'[d] = op[d] /\ Same(op'[d], op[d])
BY DEF TypeOK, Same

(* The nodes crash and restart.                                             *)
LEMMA QuietGood ==
  ASSUME Good, TypeInv', Whole', KV!Witness, UNCHANGED <<disk, clock, op>>
  PROVE  Good' /\ UNCHANGED KV!vars
<1>1. UNCHANGED KV!vars
  BY Stutters DEF TypeInv
<1>2. held' = held
  BY <1>1 DEF KV!vars
<1> QED
  BY <1>1, <1>2, GoodNext DEF Good

-----------------------------------------------------------------------------
(* Calls begin and return *)

(* A call has asked no node when it begins.                                 *)
Fresh(call) ==
  /\ call.key \in Keys
  /\ \/ call.kind = "set" /\ call.val \in 1..MaxWrites
     \/ call.kind \in {"delete", "get", "list"} /\ call.val = 0
  /\ call.todo = IF call.kind = "list" THEN Nodes ELSE Targets(call.key)
  /\ call.kind = "list" => call.prefix = Keys
  /\ \A k \in Keys : call.found[k] = NoFact

LEMMA BeginGood ==
  ASSUME Good, TypeInv', Whole', KV!Witness, disk' = disk, clock' = clock,
         NEW c \in Clients, NEW call \in Calls, Fresh(call),
         op[c] = Idle, op'[c] = call, \A d \in Clients \ {c} : Same(op'[d], op[d])
  PROVE  Good' /\ KV!Next
<1>1. /\ Primary[call.key] \in call.todo /\ Replica[call.key] \in call.todo
      /\ Primary[call.key] # Replica[call.key] /\ call.todo # {}
  BY StoreAssumption DEF Fresh, Targets
<1>2. \A k \in Keys : ~Halfway(op'[c], k) /\ ~Halfway(op[c], k)
  BY <1>1 DEF Halfway, Idle
<1>3. Reads(call, held'[c], disk)
  <2>1. Sees(call, held[c], held'[c], disk)
    BY HeldIs DEF TypeInv
  <2>2. \A k \in Keys : IF IsRead(call) THEN Value(k, disk) \in held'[c][k]
                                        ELSE held'[c][k] = {}
    BY <2>1 DEF Sees
  <2>3. call.kind = "get" => Gets(call, held'[c], disk)
    BY <1>1 DEF Fresh, Gets
  <2>4. call.kind = "list" => Lists(call, held'[c], disk)
    BY StoreAssumption DEF Fresh, Lists, ListsKey
  <2> QED
    BY <2>2, <2>3, <2>4 DEF Reads
<1>4. Good' /\ Data' = Data
  BY <1>2, <1>3, CalmStep
<1>5. AbstractCall(call) = KV!Call(call.kind, call.key, call.val)
  <2>1. Done(call) = FALSE
    BY <1>1 DEF Done
  <2>2. Result(call) = [k \in Keys |-> 0]
    BY <2>1 DEF Result
  <2> QED
    BY <2>1, <2>2, AbstractIs DEF KV!Call, KV!Nothing, KV!NoVal
<1>6. AbsCalls' = [AbsCalls EXCEPT ![c] = AbstractCall(call)]
  <2>1. \A d \in Clients \ {c} : AbstractCall(op'[d]) = AbstractCall(op[d])
    BY SameAbstract, CallTypes DEF Good, TypeInv
  <2> QED
    BY <2>1, AbsChanges
<1>7. AbsCalls[c] = Idle
  BY AbstractIdle DEF AbsCalls
<1>8. /\ call.key \in Keys
      /\ \/ call.kind = "set" /\ call.val \in 1..MaxWrites
         \/ call.kind \in {"delete", "get", "list"} /\ call.val = 0
  BY DEF Fresh
<1>9. AbsCalls' = [AbsCalls EXCEPT ![c] = KV!Call(call.kind, call.key, call.val)]
  BY <1>5, <1>6
<1>10. KV!Next
  BY <1>4, <1>7, <1>8, <1>9, KVBegin, Zenon
<1> QED
  BY <1>4, <1>10

LEMMA SetBeginGood ==
  ASSUME Good, TypeInv', Whole', KV!Witness, NEW c \in Clients, SetBegin(c)
  PROVE  Good' /\ KV!Next
<1>1. TypeOK /\ LoopInv
  BY DEF Good, TypeInv
<1>2. PICK k \in WritesTo[c] :
        /\ writes < MaxWrites /\ UNCHANGED <<disk, clock>> /\ op[c] = Idle
        /\ op' = [op EXCEPT ![c] = Call("set", k, writes + 1, Targets(k))]
  BY DEF SetBegin, Begin
<1> DEFINE call == Call("set", k, writes + 1, Targets(k))
<1>3. k \in Keys /\ writes + 1 \in 1..MaxWrites /\ call \in Calls
  BY <1>1, <1>2, SetBeginCall
<1>4. Fresh(call)
  BY <1>3 DEF Call, Fresh
<1>5. op'[c] = call /\ \A d \in Clients \ {c} : Same(op'[d], op[d])
  BY <1>1, <1>2, OnlyOwn
<1> QED
  BY <1>2, <1>3, <1>4, <1>5, BeginGood

LEMMA GetBeginGood ==
  ASSUME Good, TypeInv', Whole', KV!Witness, NEW c \in Clients, GetBegin(c)
  PROVE  Good' /\ KV!Next
<1>1. TypeOK /\ LoopInv
  BY DEF Good, TypeInv
<1>2. PICK k \in Keys :
        /\ UNCHANGED <<disk, clock>> /\ op[c] = Idle
        /\ op' = [op EXCEPT ![c] = Call("get", k, 0, Targets(k))]
  BY DEF GetBegin, Begin, ReadOnly
<1> DEFINE call == Call("get", k, 0, Targets(k))
<1>3. call \in Calls
  BY <1>1, ReadBeginCall
<1>4. Fresh(call)
  BY DEF Call, Fresh
<1>5. op'[c] = call /\ \A d \in Clients \ {c} : Same(op'[d], op[d])
  BY <1>1, <1>2, OnlyOwn
<1> QED
  BY <1>2, <1>3, <1>4, <1>5, BeginGood

LEMMA ListBeginGood ==
  ASSUME Good, TypeInv', Whole', KV!Witness, NEW c \in Clients, ListBegin(c)
  PROVE  Good' /\ KV!Next
<1>1. TypeOK /\ LoopInv
  BY DEF Good, TypeInv
<1>2. /\ UNCHANGED <<disk, clock>> /\ op[c] = Idle
      /\ op' = [op EXCEPT ![c] = ListCall(Keys)]
  BY DEF ListBegin, Begin, ReadOnly
<1>3. /\ ListCall(Keys) \in Calls /\ ListCall(Keys).kind = "list"
      /\ ListCall(Keys).todo = Nodes /\ ListCall(Keys).prefix = Keys
      /\ ListCall(Keys).found = [j \in Keys |-> NoFact]
  BY <1>1, NewListCall
<1>4. ListCall(Keys).val = 0
  BY DEF ListCall, Call
<1>5. Fresh(ListCall(Keys))
  BY <1>3, <1>4 DEF Fresh, Calls
<1>6. op'[c] = ListCall(Keys) /\ \A d \in Clients \ {c} : Same(op'[d], op[d])
  BY <1>1, <1>2, OnlyOwn
<1> QED
  BY <1>2, <1>3, <1>5, <1>6, BeginGood

(* A Delete that begins changes what other calls should find, not what they  *)
(* ask for or have found.                                                   *)
LEMMA DeleteBeginGood ==
  ASSUME Good, TypeInv', Whole', KV!Witness, NEW c \in Clients, DeleteBegin(c)
  PROVE  Good' /\ KV!Next
<1>1. TypeOK /\ LoopInv
  BY DEF Good, TypeInv
<1>2. PICK k \in WritesTo[c] :
        /\ writes < MaxWrites /\ UNCHANGED <<disk, clock>> /\ op[c] = Idle
        /\ op' = [Forget(k) EXCEPT ![c] = Call("delete", k, 0, Targets(k))]
  BY DEF DeleteBegin
<1> DEFINE call == Call("delete", k, 0, Targets(k))
<1>3. k \in Keys /\ call \in Calls
  BY <1>1, <1>2, SetBeginCall DEF DeleteBegin
<1>4. Fresh(call)
  BY <1>3 DEF Call, Fresh
<1>5. op'[c] = call /\ \A d \in Clients \ {c} : op'[d] = Forget(k)[d]
  BY <1>2 DEF Forget
<1>6. ASSUME NEW d \in Clients \ {c} PROVE Same(op'[d], op[d])
  <2>1. CASE op[d] = Idle
    BY <1>5, <2>1 DEF Same, Forget
  <2>2. CASE op[d] # Idle
    <3>1. op'[d] = Forget(k)[d]
      BY <1>5
    <3>2. /\ Forget(k)[d].kind = op[d].kind /\ Forget(k)[d].key = op[d].key
          /\ Forget(k)[d].todo = op[d].todo /\ Forget(k)[d].val = op[d].val
          /\ Forget(k)[d].found = op[d].found /\ Forget(k)[d].prefix = op[d].prefix
      BY <1>1, <1>3, <2>2, ForgottenCall, Zenon
    <3> QED
      BY <3>1, <3>2 DEF Same
  <2> QED
    BY <2>1, <2>2
<1> QED
  BY <1>2, <1>3, <1>4, <1>5, <1>6, BeginGood

LEMMA ReturnGood ==
  ASSUME Good, TypeInv', Whole', KV!Witness, disk' = disk, clock' = clock,
         NEW c \in Clients, op[c] \in Calls, op[c].todo = {}, Return(c)
  PROVE  Good' /\ KV!Next
<1>1. op'[c] = Idle /\ \A d \in Clients \ {c} : op'[d] = op[d] /\ Same(op'[d], op[d])
  BY OnlyOwn DEF Good, TypeInv, Return
<1>2. \A k \in Keys : ~Halfway(op'[c], k) /\ ~Halfway(op[c], k)
  BY <1>1 DEF Halfway, Idle
<1>3. Reads(op'[c], held'[c], disk)
  <2>1. Sees(op'[c], held[c], held'[c], disk)
    BY HeldIs DEF TypeInv
  <2> QED
    BY <1>1, <2>1 DEF Sees, Reads, IsRead, Idle
<1>4. Good' /\ Data' = Data
  BY <1>1, <1>2, <1>3, CalmStep
<1>5. AbsCalls' = [AbsCalls EXCEPT ![c] = Idle]
  BY AbsChange, AbstractIdle DEF Return, Good, TypeInv
<1>6. Done(op[c]) = TRUE
  BY DEF Done
<1>7. AbsCalls[c] # Idle /\ AbsCalls[c].done
  BY <1>6, AbstractIs DEF AbsCalls
<1>8. KV!Next
  BY <1>4, <1>5, <1>7, KVReturn
<1> QED
  BY <1>4, <1>8

-----------------------------------------------------------------------------
(* Reads *)

LEMMA Answers ==
  ASSUME NEW c \in Clients, op'[c] \in Calls, ~Unanswered(op'[c])
  PROVE  op'[c].errs = 0 /\ ~op'[c].missed
<1>1. ~(op'[c] # Idle /\ (op'[c].errs > 0 \/ op'[c].missed))
  BY DEF Unanswered
<1>2. op'[c] # Idle /\ op'[c].errs \in 0..2
  BY DEF Calls, Idle
<1> QED
  BY <1>1, <1>2

LEMMA AnsweredNow ==
  ASSUME Whole', NEW c \in Clients
  PROVE  ~Unanswered(op'[c])
BY DEF Whole, Unanswered

(* What a Get that goes on maps to.                                         *)
LEMMA GetMaps ==
  ASSUME NEW call \in Calls, NEW old \in Calls, NEW k \in Keys, NEW f \in Fact,
         old.kind = "get", old.key = k, old.todo # {}, \A j \in Keys : old.found[j] = NoFact,
         SameCall(call, old), call.found = [old.found EXCEPT ![k] = f]
  PROVE  /\ AbstractCall(old) = [kind |-> "get", key |-> k, val |-> old.val,
                                 done |-> FALSE, result |-> Result(old)]
         /\ call.todo = {} =>
              AbstractCall(call) = [kind |-> "get", key |-> k, val |-> old.val, done |-> TRUE,
                                    result |-> [Result(old) EXCEPT ![k] = f.val]]
         /\ call.todo # {} => AbstractCall(call) = AbstractCall(old)
<1>1. /\ AbstractCall(call) = [kind |-> "get", key |-> k, val |-> old.val,
                               done |-> Done(call), result |-> Result(call)]
      /\ AbstractCall(old) = [kind |-> "get", key |-> k, val |-> old.val,
                              done |-> Done(old), result |-> Result(old)]
  BY AbstractIs DEF SameCall
<1>2. Done(old) = FALSE /\ Result(old) = [j \in Keys |-> 0]
  BY DEF Done, Result
<1>3. CASE call.todo = {}
  <2>1. Done(call) = TRUE
    BY <1>3 DEF Done, SameCall
  <2>2. Result(call) = [j \in Keys |-> call.found[j].val]
    BY <2>1 DEF Result, SameCall
  <2>3. \A j \in Keys : call.found[j] = IF j = k THEN f ELSE NoFact
    BY DEF Calls
  <2>4. Result(call) = [j \in Keys |-> IF j = k THEN f.val ELSE 0]
    BY <2>2, <2>3 DEF NoFact
  <2>5. Result(call) = [Result(old) EXCEPT ![k] = f.val]
    BY <1>2, <2>4
  <2>6. AbstractCall(call) = [kind |-> "get", key |-> k, val |-> old.val, done |-> TRUE,
                              result |-> [Result(old) EXCEPT ![k] = f.val]]
    BY <1>1, <2>1, <2>5
  <2> QED
    BY <1>1, <1>2, <1>3, <2>6
<1>4. CASE call.todo # {}
  <2>1. Done(call) = FALSE
    BY <1>4 DEF Done, SameCall
  <2>2. Result(call) = [j \in Keys |-> 0]
    BY <2>1 DEF Result
  <2> QED
    BY <1>1, <1>2, <1>4, <2>1, <2>2
<1> QED
  BY <1>3, <1>4

LEMMA GetAsksGood ==
  ASSUME Good, TypeInv', Whole', KV!Witness, NEW c \in Clients, GetAsks(c)
  PROVE  Good' /\ (KV!Next \/ UNCHANGED KV!vars)
<1>1. TypeOK /\ LoopInv /\ TypeOK'
  BY DEF Good, TypeInv
<1> DEFINE n == NextTarget(c)
           k == op[c].key
<1>2. /\ op[c] \in Calls /\ k \in Keys /\ n \in Nodes /\ op[c].kind = "get"
      /\ op[c].todo # {} /\ disk' = disk /\ clock' = clock
  BY <1>1, NextTargetInTodo DEF GetAsks, ReadOnly, Calls
<1>3. PICK call \in Calls :
        /\ op' = [op EXCEPT ![c] = call] /\ SameCall(call, op[c])
        /\ \/ /\ call.found = [op[c].found EXCEPT ![k] = disk[n][k]]
              /\ call.todo = IF disk[n][k] # NoFact THEN {} ELSE Asked(c, n)
           \/ call.missed
  BY <1>1, GetAsksCall, Zenon
<1>4. op'[c] = call /\ \A d \in Clients \ {c} : op'[d] = op[d] /\ Same(op'[d], op[d])
  BY <1>1, <1>3, OnlyOwn
<1>5. /\ call.found = [op[c].found EXCEPT ![k] = disk[n][k]]
      /\ call.todo = IF disk[n][k] # NoFact THEN {} ELSE Asked(c, n)
      /\ call.kind = "get" /\ call.key = k
  <2>1. ~Unanswered(op'[c])
    BY AnsweredNow
  <2> QED
    BY <1>2, <1>3, <1>4, <2>1, Answers DEF SameCall
<1>6. /\ Gets(op[c], held[c], disk) /\ Value(k, disk) \in held[c][k]
      /\ \A j \in Keys : op[c].found[j] = NoFact
  <2>1. Reads(op[c], held[c], disk)
    BY DEF Good
  <2>2. Gets(op[c], held[c], disk) /\ Value(k, disk) \in held[c][k]
    BY <1>2, <2>1 DEF Reads, IsRead
  <2> QED
    BY <1>2, <2>2 DEF Gets
<1>7. /\ Primary[k] \in Nodes /\ Replica[k] \in Nodes /\ Primary[k] # Replica[k]
      /\ Targets(k) = {Primary[k], Replica[k]}
  BY <1>2, StoreAssumption DEF Targets
<1>8. \/ op[c].todo = {Primary[k], Replica[k]} /\ n = Primary[k] /\ Asked(c, n) = {Replica[k]}
      \/ op[c].todo = {Replica[k]} /\ n = Replica[k] /\ Asked(c, n) = {}
  BY <1>2, <1>6, <1>7 DEF Gets, NextTarget, Asked
<1>9. disk[n][k] \in Fact
  BY <1>1, <1>2 DEF TypeOK
<1>10. call.todo = {} => disk[n][k].val \in held[c][k]
  <2>1. CASE n = Primary[k]
    <3>1. call.todo = {} => disk[n][k] # NoFact
      BY <1>5, <1>7, <1>8, <2>1
    <3>2. disk[n][k] # NoFact => Value(k, disk) = disk[n][k].val
      BY <2>1 DEF Value
    <3> QED
      BY <1>6, <3>1, <3>2
  <2>2. CASE n = Replica[k]
    BY <1>6, <1>7, <1>8, <2>2 DEF Gets
  <2> QED
    BY <1>8, <2>1, <2>2
<1>11. /\ call.todo \in {{Replica[k]}, {}}
       /\ call.todo # {} =>
            disk[n][k] = NoFact /\ n = Primary[k] /\ disk[Replica[k]][k].val = Value(k, disk)
  BY <1>5, <1>7, <1>8 DEF Value
<1>12. \A j \in Keys : call.found[j] = IF j = k THEN disk[n][k] ELSE NoFact
  BY <1>2, <1>5, <1>6, <1>9 DEF Calls
<1>13. Reads(op'[c], held'[c], disk)
  <2>1. Sees(call, held[c], held'[c], disk)
    BY <1>2, <1>4, HeldIs DEF TypeInv
  <2>2. IsRead(call) /\ \A j \in Keys : Value(j, disk) \in held'[c][j]
    BY <1>5, <2>1 DEF Sees, IsRead
  <2>3. Gets(call, held'[c], disk)
    BY <1>2, <1>5, <1>11, <1>12, <2>2 DEF Gets
  <2> QED
    BY <1>4, <1>5, <2>2, <2>3 DEF Reads
<1>14. Good' /\ Data' = Data
  <2>1. \A j \in Keys : ~Halfway(op'[c], j) /\ ~Halfway(op[c], j)
    BY <1>2, <1>4, <1>5 DEF Halfway
  <2> QED
    BY <1>2, <1>4, <1>13, <2>1, CalmStep
<1> DEFINE R == Result(op[c])
           v == disk[n][k].val
<1>15. /\ AbstractCall(op[c]) = [kind |-> "get", key |-> k, val |-> op[c].val,
                                 done |-> FALSE, result |-> R]
       /\ call.todo = {} =>
            AbstractCall(call) = [kind |-> "get", key |-> k, val |-> op[c].val,
                                  done |-> TRUE, result |-> [R EXCEPT ![k] = v]]
       /\ call.todo # {} => AbstractCall(call) = AbstractCall(op[c])
  BY <1>2, <1>3, <1>5, <1>6, <1>9, GetMaps
<1>16. CASE call.todo = {}
  <2>1. AbsCalls' = [AbsCalls EXCEPT ![c] = AbstractCall(call)]
    BY <1>1, <1>3, AbsChange
  <2>2. AbsCalls[c] = AbstractCall(op[c])
    BY DEF AbsCalls
  <2>3. v \in held[c][k]
    BY <1>10, <1>16
  <2> HIDE DEF R, v, k
  <2>4. KV!Next
    BY <1>14, <1>15, <1>16, <2>1, <2>2, <2>3, KVGet
  <2> QED
    BY <1>14, <2>4
<1>17. CASE call.todo # {}
  <2>1. \A d \in Clients : AbstractCall(op'[d]) = AbstractCall(op[d])
    BY <1>4, <1>15, <1>17
  <2>2. \A j \in Keys : Value(j, disk') = Value(j, disk)
    BY <1>2
  <2> QED
    BY <1>1, <1>14, <2>1, <2>2, Stutters
<1> QED
  BY <1>16, <1>17

(* What one more node's facts make of what a List has found of a key: p at  *)
(* its primary and r at its replica, f before and g after.                  *)
LEMMA ListStep ==
  ASSUME NEW f \in Fact, NEW p \in Fact, NEW r \in Fact, NEW h, NEW x, NEW g \in Fact,
         NEW P, NEW R, NEW todo1, NEW todo2,
         p = NoFact \/ p.ver > 0, r = NoFact \/ r.ver > 0,
         x \in h, p.val = x, r.val = x \/ p.ver > r.ver,
         ListsKey(f, p, r, h, P, R, todo1),
         \/ P \in todo1 /\ P \notin todo2 /\ (R \in todo2 <=> R \in todo1)
            /\ g = (IF p.ver > f.ver THEN p ELSE f)
         \/ R \in todo1 /\ R \notin todo2 /\ (P \in todo2 <=> P \in todo1)
            /\ g = (IF r.ver > f.ver THEN r ELSE f)
         \/ (P \in todo2 <=> P \in todo1) /\ (R \in todo2 <=> R \in todo1) /\ g = f
  PROVE  ListsKey(g, p, r, h, P, R, todo2)
<1>1. /\ NoFact.ver = 0 /\ NoFact.val = 0
      /\ f.ver \in Nat /\ p.ver \in Nat /\ r.ver \in Nat
  BY DEF NoFact, Fact
<1>2. CASE /\ P \in todo1 /\ P \notin todo2 /\ (R \in todo2 <=> R \in todo1)
           /\ g = (IF p.ver > f.ver THEN p ELSE f)
  <2>1. CASE R \in todo1
    <3>1. f = NoFact /\ g = p
      BY <1>1, <1>2, <2>1 DEF ListsKey
    <3> QED
      BY <1>1, <1>2, <2>1, <3>1 DEF ListsKey
  <2>2. CASE R \notin todo1
    BY <1>1, <1>2, <2>2 DEF ListsKey
  <2> QED
    BY <2>1, <2>2
<1>3. CASE /\ R \in todo1 /\ R \notin todo2 /\ (P \in todo2 <=> P \in todo1)
           /\ g = (IF r.ver > f.ver THEN r ELSE f)
  <2>1. CASE P \in todo1
    <3>1. f = NoFact /\ g = r
      BY <1>1, <1>3, <2>1 DEF ListsKey
    <3> QED
      BY <1>1, <1>3, <2>1, <3>1 DEF ListsKey
  <2>2. CASE P \notin todo1
    BY <1>1, <1>3, <2>2 DEF ListsKey
  <2> QED
    BY <2>1, <2>2
<1>4. CASE (P \in todo2 <=> P \in todo1) /\ (R \in todo2 <=> R \in todo1) /\ g = f
  BY <1>4 DEF ListsKey
<1> QED
  BY <1>2, <1>3, <1>4

LEMMA ListsStep ==
  ASSUME Good, NEW c \in Clients, op[c].kind = "list", NEW n \in op[c].todo,
         NEW call \in Calls, SameCall(call, op[c]), call.todo = Asked(c, n),
         call.found = Merge(op[c].found, disk[n], op[c].prefix)
  PROVE  /\ Lists(call, held[c], disk)
         /\ \A k \in Keys : Value(k, disk) \in held[c][k]
<1>1. op[c] \in Calls /\ disk \in [Nodes -> [Keys -> Fact]] /\ n \in Nodes
  <2>1. op[c] \in Calls
    BY CallFields DEF Good, TypeInv
  <2> QED
    BY <2>1, CallTypes DEF Good, TypeInv, Calls
<1>2. Reads(op[c], held[c], disk)
  BY DEF Good
<1>3. Lists(op[c], held[c], disk) /\ \A k \in Keys : Value(k, disk) \in held[c][k]
  BY <1>2 DEF Reads, IsRead
<1>4. op[c].prefix = Keys /\ call.prefix = Keys
  BY <1>3 DEF Lists, SameCall
<1> SUFFICES ASSUME NEW k \in Keys
    PROVE ListsKey(call.found[k], disk[Primary[k]][k], disk[Replica[k]][k], held[c][k],
                   Primary[k], Replica[k], call.todo)
  BY <1>3, <1>4 DEF Lists
<1> DEFINE f == op[c].found[k]
           g == call.found[k]
           p == disk[Primary[k]][k]
           r == disk[Replica[k]][k]
           x == Value(k, disk)
           h == held[c][k]
           P == Primary[k]
           R == Replica[k]
           t1 == op[c].todo
           t2 == call.todo
<1>5. Primary[k] \in Nodes /\ Replica[k] \in Nodes /\ Primary[k] # Replica[k]
  BY StoreAssumption
<1>6. f \in Fact /\ g \in Fact /\ p \in Fact /\ r \in Fact /\ disk[n][k] \in Fact
  BY <1>1, <1>5 DEF Calls
<1>7. g = IF disk[n][k].ver > f.ver THEN disk[n][k] ELSE f
  BY <1>4 DEF Merge
<1>8. /\ p = NoFact \/ p.ver > 0
      /\ r = NoFact \/ r.ver > 0
      /\ n \notin Targets(k) => disk[n][k] = NoFact
  BY <1>1, <1>5 DEF Good, Sound
<1>9. x \in h /\ p.val = x /\ (r.val = x \/ p.ver > r.ver)
  BY <1>3, PrimaryHolds
<1>10. ListsKey(f, p, r, h, P, R, t1)
  BY <1>3 DEF Lists
<1>11. \/ P \in t1 /\ P \notin t2 /\ (R \in t2 <=> R \in t1) /\ g = (IF p.ver > f.ver THEN p ELSE f)
       \/ R \in t1 /\ R \notin t2 /\ (P \in t2 <=> P \in t1) /\ g = (IF r.ver > f.ver THEN r ELSE f)
       \/ (P \in t2 <=> P \in t1) /\ (R \in t2 <=> R \in t1) /\ g = f
  <2>1. call.todo = op[c].todo \ {n}
    BY DEF Asked
  <2>2. CASE n = Primary[k]
    BY <1>5, <1>7, <2>1, <2>2
  <2>3. CASE n = Replica[k]
    BY <1>5, <1>7, <2>1, <2>3
  <2>4. CASE n # Primary[k] /\ n # Replica[k]
    <3>1. disk[n][k] = NoFact
      BY <1>8, <2>4 DEF Targets
    <3>2. f.ver \in Nat /\ disk[n][k].ver = 0
      BY <1>6, <3>1 DEF NoFact, Fact
    <3>3. g = f
      BY <1>7, <3>2
    <3> QED
      BY <2>1, <2>4, <3>3
  <2> QED
    BY <2>2, <2>3, <2>4
<1> HIDE DEF f, g, p, r, x, h, P, R, t1, t2
<1>13. ListsKey(g, p, r, h, P, R, t2)
  BY <1>6, <1>8, <1>9, <1>10, <1>11, ListStep
<1> QED
  BY <1>13 DEF g, p, r, h, P, R, t2

LEMMA ListAsksGood ==
  ASSUME Good, TypeInv', Whole', KV!Witness, NEW c \in Clients, ListAsks(c)
  PROVE  Good' /\ (KV!Next \/ UNCHANGED KV!vars)
<1>1. TypeOK /\ LoopInv /\ TypeOK'
  BY DEF Good, TypeInv
<1>2. /\ op[c] \in Calls /\ op[c].kind = "list" /\ disk' = disk /\ clock' = clock
      /\ disk \in [Nodes -> [Keys -> Fact]]
  BY <1>1, CallFields, CallTypes DEF ListAsks, ReadOnly
<1>3. PICK call \in Calls, n \in Nodes :
        /\ op' = [op EXCEPT ![c] = call] /\ SameCall(call, op[c]) /\ n \in op[c].todo
        /\ \/ /\ call.todo = Asked(c, n)
              /\ call.found = Merge(op[c].found, disk[n], op[c].prefix)
           \/ call.missed
  BY <1>1, ListAsksCall, Zenon
<1>4. op'[c] = call /\ \A d \in Clients \ {c} : op'[d] = op[d] /\ Same(op'[d], op[d])
  BY <1>1, <1>3, OnlyOwn
<1>5. /\ call.todo = Asked(c, n)
      /\ call.found = Merge(op[c].found, disk[n], op[c].prefix)
      /\ call.kind = "list"
  <2>1. ~Unanswered(op'[c])
    BY AnsweredNow
  <2> QED
    BY <1>2, <1>3, <1>4, <2>1, Answers DEF SameCall
<1>6. /\ Lists(call, held[c], disk)
      /\ \A k \in Keys : Value(k, disk) \in held[c][k]
  BY <1>2, <1>3, <1>5, ListsStep
<1>7. Reads(op'[c], held'[c], disk)
  <2>1. Reads(call, held[c], disk)
    BY <1>5, <1>6 DEF Reads, IsRead
  <2>2. Sees(call, held[c], held'[c], disk)
    BY <1>2, <1>4, HeldIs DEF TypeInv
  <2>3. Reads(call, held'[c], disk)
    BY <1>2, <2>1, <2>2, ReadsKept
  <2> QED
    BY <1>4, <2>3
<1>8. Good' /\ Data' = Data
  <2>1. \A j \in Keys : ~Halfway(op'[c], j) /\ ~Halfway(op[c], j)
    BY <1>2, <1>4, <1>5 DEF Halfway
  <2> QED
    BY <1>2, <1>4, <1>7, <2>1, CalmStep
<1> DEFINE k == op[c].key
           v == op[c].val
           R == Result(op[c])
           r == [j \in Keys |-> call.found[j].val]
<1>9. AbstractCall(op[c]) = [kind |-> "list", key |-> k, val |-> v,
                             done |-> FALSE, result |-> R]
  <2>1. Done(op[c]) = FALSE
    BY <1>2, <1>3 DEF Done
  <2> QED
    BY <1>2, <2>1, AbstractIs
<1>10. AbstractCall(call) = [kind |-> "list", key |-> k, val |-> v,
                             done |-> Done(call), result |-> Result(call)]
  BY <1>3, <1>5, AbstractIs DEF SameCall
<1>11. CASE call.todo = {}
  <2>1. Done(call) = TRUE
    BY <1>5, <1>11 DEF Done
  <2>2. Result(call) = r
    BY <1>5, <2>1 DEF Result
  <2>3. AbsCalls' = [AbsCalls EXCEPT ![c] = [kind |-> "list", key |-> k, val |-> v,
                                             done |-> TRUE, result |-> r]]
    BY <1>1, <1>3, <1>10, <2>1, <2>2, AbsChange
  <2>4. AbsCalls[c] = AbstractCall(op[c])
    BY DEF AbsCalls
  <2>5. r \in [Keys -> 0..MaxWrites]
    BY DEF Calls, Fact
  <2>6. \A j \in Keys : r[j] \in held[c][j]
    BY <1>6, <1>11 DEF Lists, ListsKey
  <2> HIDE DEF k, v, R, r
  <2>7. KV!Next
    BY <1>8, <1>9, <2>3, <2>4, <2>5, <2>6, KVList
  <2> QED
    BY <1>8, <2>7
<1>12. CASE call.todo # {}
  <2>1. Done(call) = FALSE
    BY <1>5, <1>12 DEF Done
  <2>2. Result(call) = [j \in Keys |-> 0] /\ R = [j \in Keys |-> 0]
    BY <1>2, <1>3, <2>1 DEF Result, Done
  <2>3. AbstractCall(call) = AbstractCall(op[c])
    BY <1>9, <1>10, <2>1, <2>2
  <2>4. \A d \in Clients : AbstractCall(op'[d]) = AbstractCall(op[d])
    BY <1>4, <2>3
  <2>5. \A j \in Keys : Value(j, disk') = Value(j, disk)
    BY <1>2
  <2> QED
    BY <1>1, <1>8, <2>4, <2>5, Stutters
<1> QED
  BY <1>11, <1>12

-----------------------------------------------------------------------------
(* Set and Delete *)

(* The next node of a Set or Delete stores the fact f, or NoFact.           *)
WritesFact(c, call, n, f) ==
  /\ op[c].kind \in {"set", "delete"} /\ op[c].key \in Keys /\ op[c].val \in 0..MaxWrites
  /\ op'[c] = call /\ \A d \in Clients \ {c} : op'[d] = op[d]
  /\ call.kind = op[c].kind /\ call.key = op[c].key /\ call.val = op[c].val
  /\ \/ /\ op[c].todo = Targets(op[c].key) /\ n = Primary[op[c].key]
        /\ call.todo = {Replica[op[c].key]}
     \/ op[c].todo = {Replica[op[c].key]} /\ n = Replica[op[c].key] /\ call.todo = {}
  /\ \A m \in Nodes, j \in Keys :
       disk'[m][j] = IF m = n /\ j = op[c].key THEN f ELSE disk[m][j]
  /\ \/ /\ op[c].kind = "delete" /\ op[c].val = 0
        /\ f = NoFact /\ clock' = clock
     \/ /\ op[c].kind = "set" /\ op[c].val # 0
        /\ f.val = op[c].val /\ f.ver = clock + Gap + Skew[n] /\ clock' = clock + Gap

LEMMA SetAsksWrites ==
  ASSUME Good, TypeInv', Whole', NEW c \in Clients, SetAsks(c)
  PROVE  \E call \in Calls, n \in Nodes : \E f : WritesFact(c, call, n, f)
<1> DEFINE n == NextTarget(c)
           k == op[c].key
           v == op[c].val
<1>1. TypeOK /\ LoopInv /\ TypeOK'
  BY DEF Good, TypeInv
<1>2. /\ op[c] \in Calls /\ n \in op[c].todo /\ n \in Nodes
      /\ op[c].kind \in {"set", "delete"} /\ op[c].todo # {} /\ Loop(c, op[c])
  BY <1>1, NextTargetInTodo DEF SetAsks, LoopInv
<1>3. PICK call \in Calls :
        /\ op' = [op EXCEPT ![c] = call] /\ SameCall(call, op[c])
        /\ call.todo = Asked(c, n)
        /\ \/ Answered(n, k, v) /\ call.errs = op[c].errs
           \/ Errs(n, k, v) /\ call.errs = op[c].errs + 1
  BY <1>1, SetAsksCall, Zenon
<1>4. op'[c] = call /\ \A d \in Clients \ {c} : op'[d] = op[d]
  BY <1>1, <1>3, OnlyOwn
<1>5. k \in Keys /\ v \in 0..MaxWrites /\ op[c].errs \in Nat
  BY <1>2 DEF Calls
<1>6. Apply(n, k, v)
  <2>1. call.errs = 0
    BY <1>4, AnsweredNow, Answers
  <2> QED
    BY <1>3, <1>5, <2>1 DEF Answered
<1>7. /\ call.kind = op[c].kind /\ call.key = k /\ call.val = v
      /\ \/ op[c].todo = Targets(k) /\ n = Primary[k] /\ call.todo = {Replica[k]}
         \/ op[c].todo = {Replica[k]} /\ n = Replica[k] /\ call.todo = {}
  <2>1. Primary[k] # Replica[k]
    BY <1>5, StoreAssumption
  <2> QED
    BY <1>2, <1>3, <2>1 DEF SameCall, Loop, NextTarget, Asked, Targets
<1>8. CASE v = 0
  <2>1. op[c].kind = "delete"
    BY <1>2, <1>8 DEF Loop
  <2>2. disk' = [disk EXCEPT ![n][k] = NoFact] /\ clock' = clock
    BY <1>6, <1>8 DEF Apply
  <2>3. \A m \in Nodes, j \in Keys :
          disk'[m][j] = IF m = n /\ j = k THEN NoFact ELSE disk[m][j]
    BY <1>1, <2>2 DEF TypeOK
  <2>4. WritesFact(c, call, n, NoFact)
    BY <1>2, <1>4, <1>5, <1>7, <1>8, <2>1, <2>2, <2>3 DEF WritesFact
  <2> QED
    BY <1>2, <2>4
<1>9. CASE v # 0
  <2>1. op[c].kind = "set"
    BY <1>2, <1>9 DEF Loop
  <2> DEFINE f == [val |-> v, ver |-> clock + Gap + Skew[n]]
  <2>2. clock' = clock + Gap /\ disk' = [disk EXCEPT ![n][k] = f]
    BY <1>1, <1>2, <1>5, <1>6, <1>9, RequestFacts DEF Apply
  <2>3. f.val = v /\ f.ver = clock + Gap + Skew[n]
    OBVIOUS
  <2> HIDE DEF f
  <2>4. \A m \in Nodes, j \in Keys :
          disk'[m][j] = IF m = n /\ j = k THEN f ELSE disk[m][j]
    BY <1>1, <2>2 DEF TypeOK
  <2>5. WritesFact(c, call, n, f)
    BY <1>2, <1>4, <1>5, <1>7, <1>9, <2>1, <2>2, <2>3, <2>4 DEF WritesFact
  <2> QED
    BY <1>2, <2>5
<1> QED
  BY <1>8, <1>9

LEMMA WriteSound ==
  ASSUME Good, TypeOK', NEW c \in Clients, NEW call \in Calls, NEW n \in Nodes, NEW f,
         WritesFact(c, call, n, f)
  PROVE  Sound(disk', clock')
<1>1. Sound(disk, clock) /\ TypeOK
  BY DEF Good, TypeInv
<1> SUFFICES ASSUME NEW m \in Nodes, NEW j \in Keys
    PROVE  /\ disk'[m][j].ver <= clock' + Skew[m]
           /\ disk'[m][j] = NoFact \/ (disk'[m][j].val # 0 /\ disk'[m][j].ver > 0)
           /\ m \notin Targets(j) => disk'[m][j] = NoFact
  BY DEF Sound
<1>2. /\ clock \in Nat /\ Gap \in Nat /\ Gap > 0 /\ Skew[m] \in Nat /\ clock' >= clock
      /\ clock' \in Nat /\ disk[m][j].ver \in Nat
  BY <1>1, StoreAssumption DEF TypeOK, WritesFact, Fact
<1>3. CASE m = n /\ j = op[c].key
  <2>1. disk'[m][j] = f /\ m \in Targets(j)
    BY <1>3 DEF WritesFact, Targets
  <2>2. CASE f = NoFact
    BY <1>2, <2>1, <2>2 DEF NoFact
  <2>3. CASE f # NoFact
    <3>1. /\ f.val # 0 /\ f.ver = clock + Gap + Skew[m] /\ clock' = clock + Gap
      BY <1>3, <2>3 DEF WritesFact
    <3> QED
      BY <1>2, <2>1, <3>1
  <2> QED
    BY <2>2, <2>3
<1>4. CASE ~(m = n /\ j = op[c].key)
  <2>1. disk'[m][j] = disk[m][j]
    BY <1>4 DEF WritesFact
  <2> QED
    BY <1>1, <1>2, <2>1 DEF Sound
<1> QED
  BY <1>3, <1>4

(* What a Set stores at the primary is newer than what the replica has, and  *)
(* what either does at the replica ends with both nodes having the same.    *)
LEMMA WriteKey ==
  ASSUME Good, TypeInv', SoleWriter, ClocksClose, NEW c \in Clients,
         NEW call \in Calls, NEW n \in Nodes, NEW f,
         WritesFact(c, call, n, f), NEW k \in Keys, k = op[c].key
  PROVE  /\ \/ disk'[Replica[k]][k] = disk[Replica[k]][k]
            \/ disk'[Replica[k]][k].val = Value(k, disk')
         /\ op[c].kind = "set" =>
              \/ disk'[Primary[k]][k] = disk[Primary[k]][k]
              \/ disk'[Primary[k]][k].ver > disk[Primary[k]][k].ver
         /\ Agree(k, disk', op')
         /\ Value(k, disk') = IF (op[c].kind = "set") = (n = Primary[k])
                                THEN op[c].val ELSE Value(k, disk)
<1> DEFINE p1 == disk[Primary[k]][k]
           r1 == disk[Replica[k]][k]
           p2 == disk'[Primary[k]][k]
           r2 == disk'[Replica[k]][k]
           v == op[c].val
<1>1. TypeOK /\ LoopInv /\ Agree(k, disk, op) /\ Sound(disk, clock)
  BY DEF Good, TypeInv
<1>2. Primary[k] \in Nodes /\ Replica[k] \in Nodes /\ Primary[k] # Replica[k]
  BY StoreAssumption
<1>3. p1 \in Fact /\ r1 \in Fact
  BY <1>1, <1>2 DEF TypeOK, Fact
<1>4. /\ Value(k, disk) = IF p1 # NoFact THEN p1.val ELSE r1.val
      /\ Value(k, disk') = IF p2 # NoFact THEN p2.val ELSE r2.val
  BY DEF Value
<1>5. ASSUME NEW d \in Clients, d # c
      PROVE  ~Halfway(op[d], k) /\ ~Halfway(op'[d], k)
  <2>1. op'[d] = op[d]
    BY <1>5 DEF WritesFact
  <2>2. ASSUME Halfway(op[d], k) PROVE FALSE
    <3>1. op[d].key \in WritesTo[d] /\ op[c].key \in WritesTo[c]
      BY <1>1, <2>2 DEF LoopInv, Loop, Halfway, WritesFact
    <3> QED
      BY <1>5, <2>2, <3>1 DEF SoleWriter, Halfway
  <2> QED
    BY <2>1, <2>2
<1>6. /\ Halfway(op[c], k) <=> n = Replica[k]
      /\ Halfway(op'[c], k) <=> n = Primary[k]
      /\ n = Primary[k] \/ n = Replica[k]
  BY <1>2 DEF WritesFact, Halfway, Targets
<1>7. /\ op'[c].kind = op[c].kind /\ op'[c].val = v
      /\ op[c].kind \in {"set", "delete"}
      /\ op[c].kind = "delete" => v = 0 /\ f = NoFact
      /\ op[c].kind = "set" => v # 0 /\ f.val = v /\ f.ver = clock + Gap + Skew[n]
  BY DEF WritesFact
<1>8. NoFact.val = 0
  BY DEF NoFact
<1>9. CASE n = Primary[k]
  <2>1. p2 = f /\ r2 = r1
    BY <1>2, <1>9 DEF WritesFact
  <2>2. p1.val = r1.val
    BY <1>1, <1>2, <1>5, <1>6, <1>9 DEF Agree
  <2>3. CASE op[c].kind = "set"
    <3>1. /\ p1.ver <= clock + Skew[Primary[k]] /\ r1.ver <= clock + Skew[Replica[k]]
          /\ Skew[Replica[k]] < Skew[Primary[k]] + Gap
      BY <1>1, <1>2 DEF Sound, ClocksClose
    <3>2. PICK sp, sr \in Nat : sp = Skew[Primary[k]] /\ sr = Skew[Replica[k]]
      BY <1>2, StoreAssumption
    <3>3. PICK pv, rv \in Nat : pv = p1.ver /\ rv = r1.ver
      BY <1>3 DEF Fact
    <3>4. clock \in Nat /\ Gap \in Nat /\ Gap > 0 /\ p2.ver = clock + Gap + sp
      BY <1>1, <1>7, <1>9, <2>1, <2>3, <3>2, StoreAssumption DEF TypeOK
    <3>5. p2.ver > p1.ver /\ p2.ver > r2.ver
      <4>1. pv <= clock + sp /\ rv <= clock + sr /\ sr < sp + Gap
        BY <3>1, <3>2, <3>3
      <4>2. clock + Gap + sp > pv /\ clock + Gap + sp > rv
        BY <3>4, <4>1
      <4>3. p2.ver = clock + Gap + sp /\ p1.ver = pv /\ r2.ver = rv
        BY <2>1, <3>3, <3>4
      <4> HIDE DEF p1, p2, r2
      <4> QED
        BY <4>2, <4>3
    <3>6. p2.val = v /\ p2 # NoFact
      BY <1>7, <1>8, <2>1, <2>3
    <3>7. Agree(k, disk', op')
      BY <1>5, <1>6, <1>7, <1>9, <2>3, <3>5, <3>6 DEF Agree
    <3> QED
      BY <1>4, <1>9, <2>1, <2>3, <3>5, <3>6, <3>7
  <2>4. CASE op[c].kind = "delete"
    <3>1. p2 = NoFact
      BY <1>7, <2>1, <2>4
    <3>2. Agree(k, disk', op')
      BY <1>5, <1>6, <1>7, <1>9, <2>4, <3>1 DEF Agree
    <3>3. Value(k, disk') = Value(k, disk)
      BY <1>4, <2>1, <2>2, <3>1
    <3> QED
      BY <1>9, <2>1, <2>4, <3>2, <3>3
  <2> QED
    BY <1>7, <2>3, <2>4
<1>10. CASE n = Replica[k]
  <2>1. r2 = f /\ p2 = p1
    BY <1>2, <1>10 DEF WritesFact
  <2>2. \A d \in Clients : ~Halfway(op'[d], k)
    BY <1>2, <1>5, <1>6, <1>10
  <2>3. CASE op[c].kind = "set"
    <3>1. p1.val = v /\ v # 0
      BY <1>1, <1>6, <1>7, <1>10, <2>3 DEF Agree
    <3>2. p1 # NoFact /\ r2.val = v
      BY <1>7, <1>8, <2>1, <2>3, <3>1
    <3>3. Agree(k, disk', op')
      BY <2>1, <2>2, <3>1, <3>2 DEF Agree
    <3> QED
      BY <1>2, <1>4, <1>10, <2>1, <2>3, <3>1, <3>2, <3>3
  <2>4. CASE op[c].kind = "delete"
    <3>1. p1 = NoFact /\ r2 = NoFact /\ v = 0
      BY <1>1, <1>6, <1>7, <1>10, <2>1, <2>4 DEF Agree
    <3>2. Agree(k, disk', op')
      BY <2>1, <2>2, <3>1 DEF Agree
    <3>3. Value(k, disk') = 0
      BY <1>4, <1>8, <2>1, <3>1
    <3> QED
      BY <1>2, <1>8, <1>10, <2>4, <3>1, <3>2, <3>3
  <2> QED
    BY <1>7, <2>3, <2>4
<1> QED
  BY <1>6, <1>9, <1>10

LEMMA WriteOthers ==
  ASSUME Good, TypeInv', Whole', KV!Witness, SoleWriter, ClocksClose, NEW c \in Clients,
         NEW call \in Calls, NEW n \in Nodes, NEW f, WritesFact(c, call, n, f)
  PROVE  /\ \A j \in Keys : j # op[c].key => Value(j, disk') = Value(j, disk)
         /\ Good'
<1>1. ASSUME NEW j \in Keys, j # op[c].key
      PROVE  /\ disk'[Primary[j]][j] = disk[Primary[j]][j]
             /\ disk'[Replica[j]][j] = disk[Replica[j]][j]
  BY <1>1, StoreAssumption DEF WritesFact
<1>2. ASSUME NEW j \in Keys, j # op[c].key PROVE Value(j, disk') = Value(j, disk)
  BY <1>1, <1>2 DEF Value
<1>3. TypeOK' /\ TypeOK
  BY DEF TypeInv, Good
<1>4. ASSUME NEW j \in Keys PROVE Agree(j, disk', op')
  <2>1. CASE j = op[c].key
    BY <2>1, WriteKey
  <2>2. CASE j # op[c].key
    <3>1. ~Halfway(op[c], j) /\ ~Halfway(op'[c], j)
      BY <2>2 DEF Halfway, WritesFact
    <3>2. \A d \in Clients : d # c => op'[d] = op[d]
      BY DEF WritesFact
    <3>3. \A d \in Clients : /\ Halfway(op[d], j) <=> Halfway(op'[d], j)
                             /\ Halfway(op'[d], j) => /\ op[d].kind = op'[d].kind
                                                      /\ op[d].val = op'[d].val
      BY <3>1, <3>2
    <3>4. Agree(j, disk, op)
      BY DEF Good
    <3> QED
      BY <1>1, <2>2, <3>3, <3>4, AgreeKept
  <2> QED
    BY <2>1, <2>2
<1>5. ASSUME NEW d \in Clients PROVE Reads(op'[d], held'[d], disk')
  <2>1. Sees(op'[d], held[d], held'[d], disk')
    BY <1>3, HeldIs
  <2>2. CASE d = c
    <3>1. op'[d].kind \in {"set", "delete"}
      BY <2>2 DEF WritesFact
    <3> QED
      BY <2>1, <3>1 DEF Sees, Reads, IsRead
  <2>3. CASE d # c
    <3>1. op'[d] = op[d]
      BY <2>3 DEF WritesFact
    <3>2. \A j \in Keys : \/ disk'[Replica[j]][j] = disk[Replica[j]][j]
                          \/ disk'[Replica[j]][j].val = Value(j, disk')
      BY <1>1, WriteKey
    <3>3. op'[d].kind = "list" =>
            \A j \in Keys : \/ disk'[Primary[j]][j] = disk[Primary[j]][j]
                            \/ disk'[Primary[j]][j].ver > disk[Primary[j]][j].ver
      <4>1. op[d].kind = "list" => op[c].kind # "delete"
        BY DEF Good, Whole, ListMeetsDelete
      <4>2. op[c].kind \in {"set", "delete"}
        BY DEF WritesFact
      <4> QED
        BY <1>1, <3>1, <4>1, <4>2, WriteKey
    <3>4. /\ op[d] \in Calls \cup {Idle} /\ op'[d] \in Calls \cup {Idle}
          /\ disk \in [Nodes -> [Keys -> Fact]] /\ disk' \in [Nodes -> [Keys -> Fact]]
      BY <1>3, CallTypes
    <3>5. Reads(op[d], held[d], disk)
      BY DEF Good
    <3> QED
      BY <2>1, <3>1, <3>2, <3>3, <3>4, <3>5, ReadsKept
  <2> QED
    BY <2>2, <2>3
<1>6. Sound(disk', clock')
  BY <1>3, WriteSound
<1> QED
  BY <1>2, <1>4, <1>5, <1>6, GoodNext

LEMMA SetAsksGood ==
  ASSUME Good, TypeInv', Whole', KV!Witness, SoleWriter, ClocksClose,
         NEW c \in Clients, SetAsks(c)
  PROVE  Good' /\ (KV!Next \/ UNCHANGED KV!vars)
<1>1. PICK call \in Calls, n \in Nodes : \E f : WritesFact(c, call, n, f)
  BY SetAsksWrites
<1>2. PICK f : WritesFact(c, call, n, f)
  BY <1>1
<1> DEFINE k == op[c].key
           v == op[c].val
           kind == op[c].kind
           R == [j \in Keys |-> 0]
<1>3. /\ kind \in {"set", "delete"} /\ k \in Keys /\ op[c] \in Calls
      /\ op'[c] = call /\ \A d \in Clients \ {c} : op'[d] = op[d]
      /\ call.kind = kind /\ call.key = k /\ call.val = v
  BY <1>2, CallFields DEF WritesFact, Good, TypeInv
<1>4. /\ Good'
      /\ \A j \in Keys : j # k => Value(j, disk') = Value(j, disk)
      /\ Value(k, disk') = IF (kind = "set") = (n = Primary[k]) THEN v ELSE Value(k, disk)
  BY <1>2, <1>3, WriteOthers, WriteKey
<1>5. Primary[k] # Replica[k]
  BY <1>3, StoreAssumption
<1>6. /\ AbstractCall(op[c]) = [kind |-> kind, key |-> k, val |-> v,
                                done |-> Done(op[c]), result |-> R]
      /\ AbstractCall(call) = [kind |-> kind, key |-> k, val |-> v,
                               done |-> Done(call), result |-> R]
  BY <1>3, AbstractIs DEF Result
<1>7. /\ (kind = "set") = (n = Primary[k]) => Done(op[c]) = FALSE /\ Done(call) = TRUE
      /\ ~((kind = "set") = (n = Primary[k])) => Done(op[c]) = Done(call)
  BY <1>2, <1>3, <1>5 DEF WritesFact, Done, Targets
<1>8. CASE (kind = "set") = (n = Primary[k])
  <2>1. AbsCalls' = [AbsCalls EXCEPT ![c] = AbstractCall(call)]
    BY <1>3, AbsChanges
  <2>2. AbsCalls[c] = AbstractCall(op[c])
    BY DEF AbsCalls
  <2>3. Data' = [Data EXCEPT ![k] = v]
    <3>1. \A j \in Keys : Value(j, disk') = IF j = k THEN v ELSE Value(j, disk)
      BY <1>4, <1>8
    <3> QED
      BY <3>1, DataIs
  <2> HIDE DEF k, v, kind, R
  <2>4. AbsCalls[c] = [kind |-> kind, key |-> k, val |-> v, done |-> FALSE, result |-> R]
    BY <1>6, <1>7, <1>8, <2>2
  <2>5. AbsCalls' = [AbsCalls EXCEPT ![c] = [kind |-> kind, key |-> k, val |-> v,
                                             done |-> TRUE, result |-> R]]
    BY <1>6, <1>7, <1>8, <2>1
  <2>6. kind \in {"set", "delete"}
    BY <1>3
  <2>7. KV!Next
    BY <2>3, <2>4, <2>5, <2>6, KVWrite
  <2> QED
    BY <1>4, <2>7
<1>9. CASE ~((kind = "set") = (n = Primary[k]))
  <2>1. \A d \in Clients : AbstractCall(op'[d]) = AbstractCall(op[d])
    BY <1>3, <1>6, <1>7, <1>9
  <2>2. \A j \in Keys : Value(j, disk') = Value(j, disk)
    BY <1>4, <1>9
  <2>3. TypeOK'
    BY DEF TypeInv
  <2> QED
    BY <1>4, <2>1, <2>2, <2>3, Stutters
<1> QED
  BY <1>8, <1>9

-----------------------------------------------------------------------------
(* Every step *)

(* No request is left behind as long as every request is answered.          *)
LEMMA NothingLate ==
  ASSUME Good, TypeInv', Next, \A c \in Clients : ~Unanswered(op'[c])
  PROVE  late' = {}
<1>1. TypeOK /\ LoopInv /\ late = {} /\ TypeOK'
  BY DEF Good, TypeInv, Whole
<1>2. ASSUME NEW c \in Clients, SetAsks(c) PROVE late' = {}
  <2>1. PICK call \in Calls :
          /\ op' = [op EXCEPT ![c] = call]
          /\ \/ Answered(NextTarget(c), op[c].key, op[c].val)
             \/ call.errs = op[c].errs + 1
    BY <1>1, <1>2, SetAsksCall, Zenon
  <2>2. op'[c] = call
    BY <1>1, <2>1, OnlyOwn
  <2>3. call.errs = 0
    BY <2>2, Answers
  <2>4. op[c].errs \in Nat
    <3>1. op[c] \in Calls
      BY <1>1, <1>2, CallFields DEF SetAsks
    <3> QED
      BY <3>1 DEF Calls
  <2>5. Answered(NextTarget(c), op[c].key, op[c].val)
    BY <2>1, <2>3, <2>4
  <2> QED
    BY <1>1, <2>5 DEF Answered
<1>3. ASSUME NEW c \in Clients,
             \/ SetBegin(c) \/ DeleteBegin(c) \/ GetBegin(c) \/ ListBegin(c)
             \/ SetReturns(c) \/ GetAsks(c) \/ ListAsks(c) \/ ReadReturns(c)
      PROVE  late' = {}
  BY <1>1, <1>3
  DEF SetBegin, DeleteBegin, GetBegin, ListBegin, SetReturns, GetAsks, ListAsks,
      ReadReturns, ReadOnly
<1>4. ASSUME ArriveLate PROVE late' = {}
  BY <1>1, <1>4 DEF ArriveLate
<1>5. ASSUME NEW n \in Nodes, NodeCrash(n) \/ NodeRestart(n) PROVE late' = {}
  BY <1>1, <1>5 DEF NodeCrash, NodeRestart
<1> QED
  BY <1>2, <1>3, <1>4, <1>5, Zenon DEF Next, ClientStep

(* A step that leaves the history intact is a step of KVStore, or changes    *)
(* nothing there.                                                           *)
LEMMA NextGood ==
  ASSUME Good, TypeInv', Whole', KV!Witness, SoleWriter, ClocksClose, Next
  PROVE  Good' /\ (KV!Next \/ UNCHANGED KV!vars)
<1>1. ASSUME NEW c \in Clients, SetBegin(c) PROVE Good' /\ KV!Next
  BY <1>1, SetBeginGood
<1>2. ASSUME NEW c \in Clients, DeleteBegin(c) PROVE Good' /\ KV!Next
  BY <1>2, DeleteBeginGood
<1>3. ASSUME NEW c \in Clients, GetBegin(c) PROVE Good' /\ KV!Next
  BY <1>3, GetBeginGood
<1>4. ASSUME NEW c \in Clients, ListBegin(c) PROVE Good' /\ KV!Next
  BY <1>4, ListBeginGood
<1>5. ASSUME NEW c \in Clients, SetAsks(c)
      PROVE  Good' /\ (KV!Next \/ UNCHANGED KV!vars)
  BY <1>5, SetAsksGood
<1>6. ASSUME NEW c \in Clients, SetReturns(c) PROVE Good' /\ KV!Next
  <2>1. /\ op[c].kind \in {"set", "delete"} /\ op[c].todo = {} /\ Return(c)
        /\ disk' = disk /\ clock' = clock
    BY <1>6 DEF SetReturns
  <2>2. op[c] \in Calls
    BY <2>1, CallFields DEF Good, TypeInv
  <2> QED
    BY <2>1, <2>2, ReturnGood
<1>7. ASSUME NEW c \in Clients, ReadReturns(c) PROVE Good' /\ KV!Next
  <2>1. /\ op[c].kind \in {"get", "list"} /\ op[c].todo = {} /\ Return(c)
        /\ disk' = disk /\ clock' = clock
    BY <1>7 DEF ReadReturns, ReadOnly
  <2>2. op[c] \in Calls
    BY <2>1, CallFields DEF Good, TypeInv
  <2> QED
    BY <2>1, <2>2, ReturnGood
<1>8. ASSUME NEW c \in Clients, GetAsks(c)
      PROVE  Good' /\ (KV!Next \/ UNCHANGED KV!vars)
  BY <1>8, GetAsksGood
<1>9. ASSUME NEW c \in Clients, ListAsks(c)
      PROVE  Good' /\ (KV!Next \/ UNCHANGED KV!vars)
  BY <1>9, ListAsksGood
<1>10. ~ArriveLate
  BY DEF Good, Whole, ArriveLate
<1>11. ASSUME NEW n \in Nodes, NodeCrash(n) \/ NodeRestart(n)
       PROVE  Good' /\ UNCHANGED KV!vars
  <2>1. UNCHANGED <<disk, clock, op>>
    BY <1>11 DEF NodeCrash, NodeRestart
  <2> QED
    BY <2>1, QuietGood
<1>12. CASE \E c \in Clients :
              \/ SetBegin(c) \/ DeleteBegin(c) \/ GetBegin(c) \/ ListBegin(c)
              \/ ClientStep(c)
  <2>1. PICK c \in Clients :
          \/ SetBegin(c) \/ DeleteBegin(c) \/ GetBegin(c) \/ ListBegin(c)
          \/ ClientStep(c)
    BY <1>12
  <2>2. CASE SetBegin(c) \/ DeleteBegin(c) \/ GetBegin(c) \/ ListBegin(c)
    BY <2>2, <1>1, <1>2, <1>3, <1>4, Zenon
  <2>3. CASE ClientStep(c)
    BY <2>3, <1>5, <1>6, <1>7, <1>8, <1>9, Zenon DEF ClientStep
  <2> QED
    BY <2>1, <2>2, <2>3
<1>13. CASE \E n \in Nodes : NodeCrash(n) \/ NodeRestart(n)
  BY <1>11, <1>13, Zenon
<1> QED
  BY <1>10, <1>12, <1>13, Zenon DEF Next

LEMMA HInitInv ==
  ASSUME HInit
  PROVE  HInv /\ KV!Init
<1>1. TypeInv
  BY InitTypeInv DEF HInit
<1>2. /\ disk = [n \in Nodes |-> [k \in Keys |-> NoFact]] /\ clock = 0 /\ late = {}
      /\ op = [c \in Clients |-> Idle] /\ held = [c \in Clients |-> [k \in Keys |-> {}]]
  BY DEF HInit, Init
<1>3. HeldShape(held)
  BY <1>2 DEF HeldShape
<1>4. Whole
  BY <1>2 DEF Whole, Unanswered, ListMeetsDelete, Idle
<1>5. Sound(disk, clock)
  BY <1>2, StoreAssumption DEF Sound, NoFact
<1>6. \A k \in Keys : Agree(k, disk, op)
  BY <1>2, StoreAssumption DEF Agree, Halfway, Idle
<1>7. \A c \in Clients : Reads(op[c], held[c], disk)
  BY <1>2 DEF Reads, IsRead, Idle
<1>8. HInv
  BY <1>1, <1>3, <1>4, <1>5, <1>6, <1>7 DEF HInv, Good
<1>9. Data = [k \in Keys |-> 0]
  <2>1. \A k \in Keys : Value(k, disk) = 0
    BY <1>2, StoreAssumption DEF Value, NoFact
  <2> QED
    BY <2>1, DataIs
<1>10. AbsCalls = [c \in Clients |-> Idle]
  BY <1>2, AbstractIdle DEF AbsCalls
<1>11. KV!Init
  BY <1>2, <1>9, <1>10 DEF KV!Init, KV!Nothing, KV!NoVal, KV!Idle, Idle, Data, AbsCalls
<1> QED
  BY <1>8, <1>11

LEMMA HNextInv ==
  ASSUME SoleWriter, ClocksClose, HInv, [HNext]_hvars
  PROVE  HInv' /\ (intact' => [KV!Next]_(KV!vars))
<1>1. CASE UNCHANGED hvars
  <2>1. /\ disk' = disk /\ clock' = clock /\ up' = up /\ op' = op /\ writes' = writes
        /\ acked' = acked /\ late' = late /\ faults' = faults /\ lates' = lates
        /\ crashes' = crashes /\ intact' = intact /\ held' = held
    BY <1>1 DEF hvars, vars, counters
  <2>2. TypeInv'
    BY <2>1, NextTypeInv DEF HInv, vars, counters
  <2>3. HeldShape(held)' <=> HeldShape(held)
    BY <2>1 DEF HeldShape
  <2>4. ASSUME Good PROVE Good'
    <3>1. Whole'
      BY <2>1, <2>4 DEF Good, Whole, Unanswered, ListMeetsDelete
    <3>2. Sound(disk, clock)'
      BY <2>1, <2>4 DEF Good, Sound
    <3>3. (\A k \in Keys : Agree(k, disk, op))'
      BY <2>1, <2>4 DEF Good, Agree, Halfway
    <3>4. (\A c \in Clients : Reads(op[c], held[c], disk))'
      BY <2>1, <2>4 DEF Good, Reads, Gets, Lists, ListsKey, IsRead, Value
    <3> QED
      BY <2>2, <2>3, <2>4, <3>1, <3>2, <3>3, <3>4 DEF Good
  <2>5. UNCHANGED KV!vars
    BY <2>1 DEF KV!vars, Holds, AbstractCall, Done, Result
  <2> QED
    BY <2>1, <2>2, <2>3, <2>4, <2>5 DEF HInv
<1>2. CASE HNext
  <2>1. TypeInv'
    BY <1>2, NextTypeInv DEF HInv, HNext
  <2>2. CASE ~intact'
    <3>1. held' = [c \in Clients |-> [k \in Keys |-> {}]]
      BY <1>2, <2>2 DEF HNext
    <3>2. HeldShape(held)'
      BY <3>1 DEF HeldShape
    <3> QED
      BY <2>1, <2>2, <3>2 DEF HInv
  <2>3. CASE intact'
    <3>1. /\ intact /\ KV!Witness /\ Next
          /\ \A c \in Clients : ~Unanswered(op'[c])
          /\ ~ListMeetsDelete(op')
      <4> DEFINE AllAnswered ==
                   /\ intact
                   /\ \A c \in Clients : ~Unanswered(op'[c])
                   /\ ~ListMeetsDelete(op')
      <4>1. intact' = AllAnswered /\ Next
        BY <1>2, Zenon DEF HNext
      <4>2. KV!Witness
        BY <1>2, <2>3 DEF HNext
      <4> HIDE DEF AllAnswered
      <4>3. AllAnswered
        BY <2>3, <4>1, Zenon
      <4> QED
        BY <4>1, <4>2, <4>3, Zenon DEF AllAnswered
    <3>2. Good
      BY <3>1 DEF HInv
    <3>3. late' = {}
      BY <2>1, <3>1, <3>2, NothingLate
    <3>4. Whole'
      BY <3>1, <3>3 DEF Whole, Unanswered, ListMeetsDelete
    <3>5. Good' /\ (KV!Next \/ UNCHANGED KV!vars)
      BY <2>1, <3>1, <3>2, <3>4, NextGood
    <3> QED
      BY <2>1, <3>5 DEF HInv, Good
  <2> QED
    BY <2>2, <2>3
<1> QED
  BY <1>1, <1>2

(* "ReplicatedStore implements Store" (replication.go:14), for any nodes and  *)
(* keys and any number of clients and calls: until a request fails or is     *)
(* given up, or a List meets a Delete, every step of the replicated store is *)
(* a step of the store that does each call at one moment (MemoryStore, with  *)
(* all under its lock) or changes nothing there, however the requests of the *)
(* clients to the two nodes of a key interleave and wherever nodes crash and *)
(* restart in between, if a key has one writer and the clocks of the nodes   *)
(* are less than Gap apart.                                                 *)
THEOREM AtomicImplements ==
  ASSUME SoleWriter, ClocksClose
  PROVE  HSpec => ImplementsKVStore
<1>1. HInit => HInv /\ KV!Init
  BY HInitInv
<1>2. HInv /\ [HNext]_hvars => HInv' /\ (intact' => [KV!Next]_(KV!vars))
  BY HNextInv
<1> QED
  BY <1>1, <1>2, PTL DEF HSpec, ImplementsKVStore
=============================================================================
