-------------------------- MODULE EventQueueProofs --------------------------
(***************************************************************************)
(* Proofs about EventQueue for any numbers of keys, entries, failures,     *)
(* late PUTs, crashes and Redis restarts, and any batch size, with facts   *)
(* in memory or on one or two nodes.                                       *)
(***************************************************************************)
EXTENDS EventQueue, FiniteSetTheorems, TLAPS

(* The fields of a Redis state, and the updates that commands make to it.  *)
LEMMA ImageFields ==
  ASSUME NEW r \in Image
  PROVE  /\ r.live \subseteq Ids /\ r.pending \subseteq Ids
         /\ r.group \in {NoGroup} \cup 0..MaxEntries
BY DEF Image

(* Delivering and acknowledging entries keeps a Redis state well-formed.   *)
LEMMA ImageUpdates ==
  ASSUME NEW r \in Image, NEW D \in SUBSET Ids,
         NEW g \in {NoGroup} \cup 0..MaxEntries
  PROVE  /\ [r EXCEPT !.live = @ \cup D] \in Image
         /\ [r EXCEPT !.group = g] \in Image
         /\ [r EXCEPT !.group = g, !.pending = @ \cup D] \in Image
         /\ [r EXCEPT !.pending = @ \ D] \in Image
<1>1. r.live \cup D \in SUBSET Ids /\ r.pending \cup D \in SUBSET Ids
      /\ r.pending \ D \in SUBSET Ids
  BY ImageFields
<1> QED
  BY <1>1 DEF Image

(* XACK keeps it well-formed (streams.go:90, 97).                          *)
LEMMA AckKeepsImage ==
  ASSUME redis \in Image, NEW i \in Ids, Acked(i)
  PROVE  redis' \in Image
BY ImageUpdates, {i} \in SUBSET Ids, NoGroup \in {NoGroup} DEF Acked

(* The store that a handler writes to is one of the stores.                *)
LEMMA TargetIsStore ==
  ASSUME TypeOK, NEW c \in Consumers, asked[c] < Targets
  PROVE  Target(c) \in Stores
BY QueueAssumption DEF TypeOK, Target, Targets, Stores, InMemory

(* Storing an entry keeps the facts well-formed.                           *)
LEMMA StoreKeepsFacts ==
  ASSUME TypeOK, NEW s \in Stores, NEW i \in Ids, Store(s, i)
  PROVE  /\ facts' \in [Stores -> [Keys -> {0} \cup Ids]]
         /\ \A t \in Stores, k \in Keys :
              facts'[t][k] = IF t = s /\ k = log[i] THEN i ELSE facts[t][k]
<1> DEFINE F == [facts[s] EXCEPT ![log[i]] = i]
<1>1. facts \in [Stores -> [Keys -> {0} \cup Ids]]
  BY DEF TypeOK
<1>2. facts' = [facts EXCEPT ![s] = F]
  BY DEF Store
<1>3. F \in [Keys -> {0} \cup Ids] /\ \A k \in Keys : F[k] = IF k = log[i] THEN i ELSE facts[s][k]
  BY <1>1
<1> HIDE DEF F
<1> QED
  BY <1>1, <1>2, <1>3

(* An answer, or its absence, is counted.                                  *)
LEMMA AskKeepsTypes ==
  ASSUME TypeOK, NEW c \in Consumers, asked[c] < Targets, NEW answer \in BOOLEAN,
         Ask(c, answer)
  PROVE  /\ asked' \in [Consumers -> 0..Targets] /\ heard' \in [Consumers -> BOOLEAN]
         /\ asked'[c] = asked[c] + 1 /\ heard'[c] = (heard[c] \/ answer)
         /\ \A d \in Consumers : d # c => asked'[d] = asked[d] /\ heard'[d] = heard[d]
<1>1. Targets \in Nat /\ asked \in [Consumers -> 0..Targets] /\ heard \in [Consumers -> BOOLEAN]
  BY QueueAssumption DEF TypeOK, Targets
<1>2. asked[c] + 1 \in 0..Targets
  BY <1>1
<1> QED
  BY <1>1, <1>2 DEF Ask

(* The next message is handled from its first target on.                   *)
LEMMA NextMessageTypes ==
  ASSUME TypeOK, NEW c \in Consumers, NEW i \in Ids, NextMessage(c, i)
  PROVE  /\ pc' \in [Consumers -> Locations] /\ batch' \in [Consumers -> SUBSET Ids]
         /\ asked' \in [Consumers -> 0..Targets] /\ heard' \in [Consumers -> BOOLEAN]
         /\ batch'[c] = batch[c] \ {i} /\ asked'[c] = 0 /\ ~heard'[c]
         /\ pc'[c] = IF batch[c] = {i} THEN "reading" ELSE "handling"
         /\ \A d \in Consumers : d # c =>
              /\ batch'[d] = batch[d] /\ pc'[d] = pc[d]
              /\ asked'[d] = asked[d] /\ heard'[d] = heard[d]
BY QueueAssumption DEF NextMessage, NewSet, GoTo, TypeOK, Locations, Targets

(* Every reachable state of the pipeline has the types of TypeOK: IDs stay  *)
(* within the stream, Consume within its loop (streams.go:50-101) and a     *)
(* handler within its targets (replication.go:37-44), for any number of API *)
(* processes.                                                               *)
THEOREM QueueTypeCorrect == Spec => []TypeOK
<1> USE QueueAssumption
<1>1. Init => TypeOK
  BY DEF Init, TypeOK, Locations, Image, NewRedis, Empty, Ids, NoGroup, Targets
<1>2. TypeOK /\ [Next]_vars => TypeOK'
  <2> SUFFICES ASSUME TypeOK, [Next]_vars PROVE TypeOK'
    OBVIOUS
  <2>0. redis \in Image /\ saved \in Image
    BY DEF TypeOK
  <2> USE DEF TypeOK, loopVars, storeVars, counters
  <2>1. ASSUME NEW e \in Keys \cup {Malformed}, Publish(e) PROVE TypeOK'
    <3>1. log' \in Seq(Keys \cup {Malformed}) /\ Len(log') = Len(log) + 1
      BY <2>1 DEF Publish
    <3>2. Len(log) + 1 \in Ids
      BY <2>1 DEF Publish, Ids
    <3>3. redis' \in Image
      BY <2>0, <2>1, <3>2, ImageUpdates DEF Publish
    <3> QED
      BY <2>1, <3>1, <3>2, <3>3 DEF Publish
  <2>2. ASSUME NEW c \in Consumers, ConsumeStep(c) PROVE TypeOK'
    <3> USE DEF Fault
    <3>1. CASE CreateGroup(c)
      <4>1. redis' \in Image
        <5>1. {} \in SUBSET Ids /\ 0 \in 0..MaxEntries
          OBVIOUS
        <5>2. [redis EXCEPT !.group = 0] \in Image
          BY <2>0, <5>1, ImageUpdates
        <5> QED
          BY <2>0, <3>1, <5>2 DEF CreateGroup
      <4> QED
        BY <3>1, <4>1 DEF CreateGroup, GoTo, Locations
    <3>2. CASE CreateGroupFails(c)
      BY <3>2 DEF CreateGroupFails, GoTo, Locations
    <3>3. CASE Read(c)
      <4>1. PICK D \in SUBSET Undelivered : Deliver(D) /\ batch' = [batch EXCEPT ![c] = D]
        BY <3>3 DEF Read
      <4>2. D \in SUBSET Ids
        BY <2>0, ImageFields DEF Undelivered
      <4>3. PICK last \in D :
              redis' = [redis EXCEPT !.group = last, !.pending = @ \cup D]
        BY <4>1 DEF Deliver
      <4>4. last \in 0..MaxEntries
        BY <4>2 DEF Ids
      <4>5. redis' \in Image
        BY <2>0, <4>2, <4>3, <4>4, ImageUpdates
      <4>6. batch' \in [Consumers -> SUBSET Ids]
        BY <4>1, <4>2
      <4> QED
        BY <3>3, <4>5, <4>6 DEF Read, GoTo, Locations
    <3>4. CASE ReadReplyLost(c)
      <4>1. PICK D \in SUBSET Undelivered : Deliver(D)
        BY <3>4 DEF ReadReplyLost
      <4>2. D \in SUBSET Ids
        BY <2>0, ImageFields DEF Undelivered
      <4>3. PICK last \in D :
              redis' = [redis EXCEPT !.group = last, !.pending = @ \cup D]
        BY <4>1 DEF Deliver
      <4>4. last \in 0..MaxEntries
        BY <4>2 DEF Ids
      <4>5. redis' \in Image
        BY <2>0, <4>2, <4>3, <4>4, ImageUpdates
      <4> QED
        BY <3>4, <4>5 DEF ReadReplyLost
    <3>5. CASE Put(c)
      <4>1. PICK i \in Ids : Writing(c, i) /\ Store(Target(c), i)
        BY <3>5 DEF Put
      <4>2. facts' \in [Stores -> [Keys -> {0} \cup Ids]]
        BY <4>1, TargetIsStore, StoreKeepsFacts DEF Writing
      <4>3. asked' \in [Consumers -> 0..Targets] /\ heard' \in [Consumers -> BOOLEAN]
        BY <3>5, <4>1, AskKeepsTypes DEF Put, Writing
      <4> QED
        BY <3>5, <4>2, <4>3 DEF Put
    <3>6. CASE PutFails(c)
      <4>1. PICK i \in Ids :
              /\ Writing(c, i)
              /\ \/ Store(Target(c), i) /\ UNCHANGED late
                 \/ UNCHANGED storeVars
                 \/ late' = late \cup {[store |-> Target(c), id |-> i]} /\ UNCHANGED facts
        BY <3>6 DEF PutFails
      <4>2. Target(c) \in Stores
        BY <4>1, TargetIsStore DEF Writing
      <4>3. facts' \in [Stores -> [Keys -> {0} \cup Ids]]
        BY <4>1, <4>2, StoreKeepsFacts
      <4>4. late' \subseteq [store : Stores, id : Ids]
        BY <4>1, <4>2
      <4>5. asked' \in [Consumers -> 0..Targets] /\ heard' \in [Consumers -> BOOLEAN]
        BY <3>6, <4>1, AskKeepsTypes DEF PutFails, Writing
      <4> QED
        BY <3>6, <4>3, <4>4, <4>5 DEF PutFails
    <3>7. CASE HandleFails(c)
      BY <3>7, NextMessageTypes DEF HandleFails
    <3>8. CASE DropMalformed(c) \/ Ack(c)
      <4>1. PICK i \in Ids : Acknowledge(i) /\ NextMessage(c, i)
        BY <3>8 DEF DropMalformed, Ack
      <4>2. redis' \in Image
        BY <2>0, <4>1, AckKeepsImage DEF Acknowledge
      <4>3. faults' \in 0..MaxFaults /\ crashes' = crashes /\ restarts' = restarts /\ lates' = lates
        BY <4>1 DEF Acknowledge
      <4> QED
        BY <3>8, <4>1, <4>2, <4>3, NextMessageTypes DEF DropMalformed, Ack
    <3> QED
      BY <2>2, <3>1, <3>2, <3>3, <3>4, <3>5, <3>6, <3>7, <3>8 DEF ConsumeStep
  <2>3. ASSUME NEW c \in Consumers, Crash(c) PROVE TypeOK'
    <3>1. late' \subseteq [store : Stores, id : Ids]
      BY <2>3, TargetIsStore DEF Crash, Writing
    <3>2. facts' \in [Stores -> [Keys -> {0} \cup Ids]]
      <4>1. Empty \in [Keys -> {0} \cup Ids]
        BY DEF Empty
      <4> QED
        BY <2>3, <4>1 DEF Crash
    <3>3. asked' \in [Consumers -> 0..Targets] /\ heard' \in [Consumers -> BOOLEAN]
      BY <2>3 DEF Crash, NewSet, Targets
    <3>4. pc' \in [Consumers -> Locations] /\ batch' \in [Consumers -> SUBSET Ids]
      BY <2>3 DEF Crash, GoTo, Locations
    <3> QED
      BY <2>3, <3>1, <3>2, <3>3, <3>4 DEF Crash
  <2>4. ASSUME NEW c \in Consumers, Restart(c) PROVE TypeOK'
    BY <2>4 DEF Restart, GoTo, Locations
  <2>5. CASE RedisSaves
    BY <2>5 DEF RedisSaves
  <2>6. CASE RedisRestarts
    BY <2>6 DEF RedisRestarts
  <2>7. CASE ArriveLate
    <3>1. PICK r \in late : Store(r.store, r.id) /\ late' = late \ {r}
      BY <2>7 DEF ArriveLate
    <3>2. facts' \in [Stores -> [Keys -> {0} \cup Ids]]
      BY <3>1, StoreKeepsFacts
    <3> QED
      BY <2>7, <3>1, <3>2 DEF ArriveLate
  <2>8. CASE UNCHANGED vars
    BY <2>8 DEF vars
  <2> QED
    BY <2>1, <2>2, <2>3, <2>4, <2>5, <2>6, <2>7, <2>8 DEF Next
<1> QED
  BY <1>1, <1>2, PTL DEF Spec

(* Between two messages no write is under way, and outside the loop over   *)
(* the messages there is no batch (streams.go:84-99).                      *)
LoopInv ==
  \A c \in Consumers :
    pc[c] # "handling" => batch[c] = {} /\ asked[c] = 0 /\ ~heard[c]

LEMMA LoopInvInit == Init => LoopInv
BY DEF Init, LoopInv

LEMMA LoopInvStep ==
  ASSUME TypeOK, LoopInv, [Next]_vars
  PROVE  LoopInv'
<1> USE DEF LoopInv, loopVars
<1>1. ASSUME NEW c \in Consumers, ConsumeStep(c) PROVE LoopInv'
  <2>1. CASE CreateGroup(c) \/ CreateGroupFails(c) \/ Read(c) \/ ReadReplyLost(c)
    BY <2>1 DEF CreateGroup, CreateGroupFails, Read, ReadReplyLost, GoTo, TypeOK
  <2>2. ASSUME pc' = pc, batch' = batch, NEW i \in Ids, Writing(c, i),
               NEW answer \in BOOLEAN, Ask(c, answer)
        PROVE  LoopInv'
    BY <2>2, AskKeepsTypes DEF Writing, Handling
  <2>3. CASE Put(c) \/ PutFails(c)
    BY <2>2, <2>3 DEF Put, PutFails
  <2>4. ASSUME NEW i \in Ids, First(c, i), NextMessage(c, i) PROVE LoopInv'
    BY <2>4, NextMessageTypes DEF First
  <2>5. CASE HandleFails(c) \/ DropMalformed(c) \/ Ack(c)
    BY <2>4, <2>5 DEF HandleFails, DropMalformed, Ack, Written, Handling
  <2> QED
    BY <1>1, <2>1, <2>3, <2>5 DEF ConsumeStep
<1>2. ASSUME NEW c \in Consumers, Crash(c) \/ Restart(c) PROVE LoopInv'
  BY <1>2 DEF Crash, Restart, NewSet, GoTo, TypeOK
<1>3. CASE (\E e \in Keys \cup {Malformed} : Publish(e)) \/ ArriveLate \/ RedisSaves \/ RedisRestarts
  BY <1>3 DEF Publish, ArriveLate, RedisSaves, RedisRestarts
<1>4. CASE UNCHANGED vars
  BY <1>4 DEF vars
<1> QED
  BY <1>1, <1>2, <1>3, <1>4 DEF Next

LEMMA QueueInvariant == Spec => [](TypeOK /\ LoopInv)
<1>1. TypeOK /\ LoopInv /\ [Next]_vars => LoopInv'
  BY LoopInvStep
<1> QED
  BY <1>1, LoopInvInit, QueueTypeCorrect, PTL DEF Spec

-----------------------------------------------------------------------------
(* The rest is about one API process, as docker-compose.yml runs.          *)

(* XREADGROUP makes entries pending: none becomes settled, and those it    *)
(* delivers come after all settled ones (streams.go:66-72).                *)
LEMMA DeliverSettlesNothing ==
  ASSUME TypeOK, NEW D \in SUBSET Undelivered, Deliver(D)
  PROVE  /\ Settled(redis)' = Settled(redis)
         /\ redis.group < redis.group'
         /\ redis.group' \in D
         /\ redis.live' = redis.live
<1>1. redis \in Image /\ redis.live \subseteq Ids /\ redis.group \in {NoGroup} \cup 0..MaxEntries
  BY ImageFields DEF TypeOK
<1>2. PICK last \in D :
        /\ \A d \in D : d <= last
        /\ redis' = [redis EXCEPT !.group = last, !.pending = @ \cup D]
  BY DEF Deliver
<1>3. redis'.live = redis.live /\ redis'.group = last /\ redis'.pending = redis.pending \cup D
  BY <1>1, <1>2 DEF Image
<1>4. \A i \in redis.live : i \in Int
  BY <1>1 DEF Ids
<1>5. \A i \in redis.live : i <= last /\ i \notin D => i <= redis.group
  BY <1>1, <1>2, <1>4 DEF Deliver, Undelivered, NoGroup
<1>6. \A i \in D : redis.group < i /\ i \in redis.live
  BY <1>1, <1>4 DEF Undelivered
<1>7. redis.group < last
  BY <1>6
<1>8. \A i \in redis.live : i <= redis.group => i <= last /\ i \notin D
  BY <1>1, <1>4, <1>6, <1>7 DEF NoGroup
<1> QED
  BY <1>3, <1>5, <1>7, <1>8, QueueAssumption DEF Settled

(* XACK settles its entry and no other (streams.go:90, 97).                *)
LEMMA AckSettlesOne ==
  ASSUME redis \in Image, NEW i \in Ids, Acked(i)
  PROVE  /\ Settled(redis)' \subseteq Settled(redis) \cup {i}
         /\ redis.group' = redis.group
         /\ redis.live' = redis.live
<1>1. redis'.live = redis.live /\ redis'.group = redis.group /\ redis'.pending = redis.pending \ {i}
  BY DEF Acked, Image
<1> QED
  BY <1>1 DEF Settled

(* The first entry of the batch comes after all settled ones: storing it,  *)
(* in whichever store, overwrites only older payloads.                     *)
LEMMA StoreFirst ==
  ASSUME NEW a, Consumers = {a}, TypeOK, SettledBeforeBatch, Reliable, log' = log,
         NEW s \in Stores, NEW i \in Ids, First(a, i), log[i] # Malformed, Store(s, i)
  PROVE  /\ \A j \in Settled(redis) \cup Settled(saved) : Reflected(j)'
         /\ Reflected(i)'
<1>1. i \in 1..Len(log) /\ log[i] \in Keys
  BY DEF SettledBeforeBatch, First, TypeOK
<1>2. \A t \in Stores, k \in Keys :
        facts'[t][k] = IF t = s /\ k = log[i] THEN i ELSE facts[t][k]
  BY StoreKeepsFacts
<1>3. ASSUME NEW j \in Settled(redis) \cup Settled(saved) PROVE Reflected(j)'
  <2>1. j \in 1..Len(log) /\ j < i /\ Reflected(j)
    BY DEF SettledBeforeBatch, Settled, First
  <2>2. CASE log[j] = Malformed
    BY <2>2 DEF Reflected
  <2>3. CASE log[j] \in Keys
    <3>1. PICK t \in Stores : facts[t][log[j]] >= j
      BY <2>1, <2>3, QueueAssumption DEF Reflected
    <3>2. facts'[t][log[j]] >= j
      BY <1>2, <2>1, <2>3, <3>1 DEF Ids
    <3> QED
      BY <3>2 DEF Reflected
  <2> QED
    BY <2>1, <2>2, <2>3 DEF TypeOK
<1>4. facts'[s][log[i]] >= i
  BY <1>1, <1>2 DEF Ids
<1> QED
  BY <1>3, <1>4 DEF Reflected, Stores

(* An empty stream has nothing settled and nothing delivered.              *)
LEMMA SettledBeforeBatchInit == Init => SettledBeforeBatch
BY QueueAssumption DEF Init, SettledBeforeBatch, Settled, NewRedis, NoGroup, First

(* What a step may do to the entries in hand without breaking the order:   *)
(* Redis, the log and the facts stay, and nothing more is in hand.         *)
LEMMA OrderKept ==
  ASSUME SettledBeforeBatch, UNCHANGED <<log, redis, saved, facts>>, Reliable' => Reliable,
         \A c \in Consumers : batch'[c] \subseteq batch[c],
         \A c \in Consumers, i \in Ids : First(c, i)' /\ heard'[c] => First(c, i) /\ heard[c]
  PROVE  SettledBeforeBatch'
<1>1. /\ Settled(redis)' = Settled(redis) /\ Settled(saved)' = Settled(saved)
      /\ \A i \in Ids : Reflected(i)' = Reflected(i)
      /\ \A i : Reflected(i)' = Reflected(i)
  BY DEF Settled, Reflected, Stores, InMemory
<1> QED
  BY <1>1 DEF SettledBeforeBatch

(* XACK of the first entry, or its failure, and the step to the next one   *)
(* (streams.go:90, 97).                                                    *)
LEMMA AcknowledgeKeepsOrder ==
  ASSUME NEW a, Consumers = {a}, TypeOK, SettledBeforeBatch, NEW i \in Ids, First(a, i),
         Reliable => Reflected(i), Acknowledge(i), NextMessage(a, i),
         UNCHANGED <<log, saved, storeVars>>
  PROVE  SettledBeforeBatch'
<1>0. redis \in Image /\ facts' = facts
  BY DEF TypeOK, storeVars
<1>1. /\ Settled(redis)' \subseteq Settled(redis) \cup {i}
      /\ Settled(saved)' = Settled(saved)
      /\ redis.group' = redis.group /\ redis.live' = redis.live
  BY <1>0, AckSettlesOne DEF Settled, Acknowledge
<1>2. Reliable' = Reliable /\ \A j : Reflected(j)' = Reflected(j)
  BY <1>0 DEF Acknowledge, Fault, counters, Reliable, Reflected, Stores, InMemory
<1>3. batch'[a] = batch[a] \ {i} /\ ~heard'[a]
  BY NextMessageTypes
<1>4. \A j \in batch'[a] : i < j
  BY <1>3 DEF First, Ids, TypeOK
<1> QED
  BY <1>1, <1>2, <1>3, <1>4 DEF SettledBeforeBatch

(* A write of the first entry's fact, answered or not, whether it reaches  *)
(* its store or not (replication.go:38-43).                                *)
LEMMA WriteKeepsOrder ==
  ASSUME NEW a, Consumers = {a}, TypeOK, SettledBeforeBatch, NEW i \in Ids, Writing(a, i),
         NEW answer \in BOOLEAN, Ask(a, answer),
         Store(Target(a), i) \/ (~answer /\ UNCHANGED facts),
         UNCHANGED <<log, redis, saved, batch>>, Reliable' => Reliable
  PROVE  SettledBeforeBatch'
<1>0. First(a, i) /\ log[i] # Malformed /\ Target(a) \in Stores
  BY TargetIsStore DEF Writing, Handling
<1>1. /\ Settled(redis)' = Settled(redis) /\ Settled(saved)' = Settled(saved)
      /\ \A j \in Ids : First(a, j)' => j = i
  BY <1>0 DEF Settled, First, Ids
<1>2. heard'[a] = (heard[a] \/ answer)
  BY AskKeepsTypes DEF Writing
<1>3. CASE Store(Target(a), i)
  <2>1. Reliable => (\A j \in Settled(redis) \cup Settled(saved) : Reflected(j)') /\ Reflected(i)'
    BY <1>0, <1>3, StoreFirst
  <2> QED
    BY <1>1, <2>1 DEF SettledBeforeBatch
<1>4. CASE ~answer /\ UNCHANGED facts
  <2>1. heard'[a] = heard[a]
    BY <1>2, <1>4 DEF TypeOK
  <2> QED
    BY <1>1, <1>4, <2>1, OrderKept DEF First
<1> QED
  BY <1>3, <1>4

(* No step of the process, of a worker, of a node or of Redis breaks the   *)
(* order.                                                                  *)
LEMMA SettledBeforeBatchStep ==
  ASSUME NEW a, Consumers = {a}, TypeOK, LoopInv, SettledBeforeBatch, [Next]_vars
  PROVE  SettledBeforeBatch'
<1> USE QueueAssumption DEF loopVars, storeVars, counters
<1> DEFINE S == Settled(redis) \cup Settled(saved)
<1>0. /\ redis \in Image /\ saved \in Image
      /\ redis.live \subseteq Ids /\ redis.group \in {NoGroup} \cup 0..MaxEntries
      /\ saved.live \subseteq Ids /\ saved.group \in {NoGroup} \cup 0..MaxEntries
  BY ImageFields DEF TypeOK
<1>1. /\ S \subseteq 1..Len(log)
      /\ \A j \in S : j \in Int /\ j <= redis.group
  BY <1>0 DEF SettledBeforeBatch, Settled, Ids, NoGroup
<1>2. ASSUME NEW e \in Keys \cup {Malformed}, Publish(e) PROVE SettledBeforeBatch'
  <2>1. Len(log') = Len(log) + 1 /\ \A i \in 1..Len(log) : log'[i] = log[i]
    BY <1>2 DEF Publish, TypeOK
  <2>2. /\ redis'.live = redis.live \cup {Len(log) + 1}
        /\ redis'.group = redis.group /\ redis'.pending = redis.pending
    BY <1>0, <1>2 DEF Publish, Image
  <2>3. Settled(redis)' = Settled(redis) /\ Settled(saved)' = Settled(saved)
    <3>1. redis.group < Len(log) + 1
      BY <1>0 DEF SettledBeforeBatch, NoGroup, TypeOK
    <3>2. ~(Len(log) + 1 <= redis.group)
      BY <1>0, <3>1 DEF NoGroup, TypeOK
    <3> QED
      BY <1>2, <2>2, <3>2 DEF Publish, Settled
  <2>4. saved' = saved /\ batch' = batch /\ heard' = heard /\ facts' = facts
        /\ Reliable' = Reliable
    BY <1>2 DEF Publish, Reliable, InMemory
  <2>5. \A i \in 1..Len(log) : Reflected(i)' = Reflected(i)
    BY <2>1, <2>4 DEF Reflected, Stores, InMemory
  <2>6. redis.live' \cup saved.live' \subseteq 1..Len(log')
    BY <2>1, <2>2, <2>4 DEF SettledBeforeBatch, TypeOK
  <2>7. saved.group' <= redis.group' /\ redis.group' <= Len(log')
    BY <1>0, <2>1, <2>2, <2>4 DEF SettledBeforeBatch, NoGroup, TypeOK
  <2>8. \A c \in Consumers : batch[c] \subseteq 1..Len(log')
    BY <2>1 DEF SettledBeforeBatch, TypeOK
  <2>9. \A c \in Consumers, i \in Ids : First(c, i)' => First(c, i) /\ i \in 1..Len(log)
    BY <2>4 DEF First, SettledBeforeBatch
  <2> QED
    BY <1>1, <2>3, <2>4, <2>5, <2>6, <2>7, <2>8, <2>9 DEF SettledBeforeBatch
<1>3. ASSUME ConsumeStep(a) PROVE SettledBeforeBatch'
  <2>1. CASE CreateGroup(a)
    <3>0. /\ UNCHANGED <<log, saved, batch, heard, facts>>
          /\ Reliable' = Reliable /\ \A i : Reflected(i)' = Reflected(i)
          /\ \A i \in Ids : First(a, i)' = First(a, i)
      BY <2>1 DEF CreateGroup, Reliable, Reflected, Stores, InMemory, First
    <3>1. CASE redis.group = NoGroup
      <4>1. redis'.live = redis.live /\ redis'.group = 0 /\ redis'.pending = redis.pending
        BY <1>0, <2>1, <3>1 DEF CreateGroup, Image
      <4>2. Settled(redis)' = {} /\ Settled(saved)' = {} /\ Settled(saved) = {}
        BY <1>0, <3>0, <3>1, <4>1 DEF SettledBeforeBatch, Settled, NoGroup, Ids
      <4>3. saved.group' <= redis.group' /\ redis.group' <= Len(log')
        BY <1>0, <3>0, <3>1, <4>1 DEF SettledBeforeBatch, NoGroup, TypeOK
      <4> QED
        BY <3>0, <4>1, <4>2, <4>3 DEF SettledBeforeBatch
    <3>2. CASE redis.group # NoGroup
      BY <2>1, <3>0, <3>2, OrderKept DEF CreateGroup
    <3> QED
      BY <3>1, <3>2
  <2>2. CASE CreateGroupFails(a)
    BY <2>2, OrderKept DEF CreateGroupFails, Fault, Reliable, InMemory, First
  <2>3. CASE Read(a)
    <3>1. PICK D \in SUBSET Undelivered : Deliver(D) /\ batch' = [batch EXCEPT ![a] = D]
      BY <2>3 DEF Read
    <3>2. /\ Settled(redis)' = Settled(redis) /\ redis.live' = redis.live
          /\ redis.group < redis.group' /\ redis.group' \in D
      BY <3>1, DeliverSettlesNothing
    <3>3. D \subseteq redis.live /\ \A d \in D : d \in Int /\ d > redis.group
      BY <1>0 DEF Undelivered, Ids
    <3>4. \A d \in D, j \in S : j < d
      BY <1>0, <1>1, <3>3 DEF NoGroup
    <3>5. /\ log' = log /\ saved' = saved /\ batch'[a] = D /\ ~heard'[a]
          /\ Reliable' = Reliable /\ \A i : Reflected(i)' = Reflected(i)
      BY <2>3, <3>1 DEF Read, TypeOK, LoopInv, Reliable, Reflected, Stores, InMemory
    <3> QED
      BY <1>0, <3>2, <3>3, <3>4, <3>5 DEF SettledBeforeBatch, Settled, NoGroup
  <2>4. CASE ReadReplyLost(a)
    <3>1. PICK D \in SUBSET Undelivered : Deliver(D)
      BY <2>4 DEF ReadReplyLost
    <3>2. /\ Settled(redis)' = Settled(redis) /\ redis.live' = redis.live
          /\ redis.group < redis.group' /\ redis.group' \in redis.live
      BY <3>1, DeliverSettlesNothing DEF Undelivered
    <3>3. /\ UNCHANGED <<log, saved, batch, heard>> /\ Settled(saved)' = Settled(saved)
          /\ Reliable' = Reliable /\ \A i : Reflected(i)' = Reflected(i)
          /\ \A i \in Ids : First(a, i)' = First(a, i)
      BY <2>4 DEF ReadReplyLost, Fault, Reliable, Reflected, Stores, InMemory, First, Settled
    <3>4. saved.group' <= redis.group' /\ redis.group' <= Len(log')
      BY <1>0, <3>2, <3>3 DEF SettledBeforeBatch, NoGroup
    <3> QED
      BY <3>2, <3>3, <3>4 DEF SettledBeforeBatch
  <2>5. CASE Put(a)
    <3>1. PICK i \in Ids : Writing(a, i) /\ Store(Target(a), i)
      BY <2>5 DEF Put
    <3>2. Reliable' = Reliable
      BY <2>5 DEF Put, Reliable, InMemory
    <3> QED
      BY <2>5, <3>1, <3>2, WriteKeepsOrder DEF Put
  <2>6. CASE PutFails(a)
    <3>1. PICK i \in Ids : Writing(a, i) /\ (Store(Target(a), i) \/ UNCHANGED facts)
      BY <2>6 DEF PutFails
    <3>2. Reliable' = Reliable
      BY <2>6 DEF PutFails, Fault, Reliable, InMemory
    <3> QED
      BY <2>6, <3>1, <3>2, WriteKeepsOrder DEF PutFails
  <2>7. CASE HandleFails(a)
    <3>1. PICK i \in Ids : NextMessage(a, i)
      BY <2>7 DEF HandleFails
    <3>2. batch'[a] \subseteq batch[a] /\ ~heard'[a] /\ Reliable' = Reliable
      BY <2>7, <3>1, NextMessageTypes DEF HandleFails, Reliable, InMemory
    <3> QED
      BY <2>7, <3>2, OrderKept DEF HandleFails
  <2>8. CASE DropMalformed(a)
    <3>1. PICK i \in Ids : First(a, i) /\ log[i] = Malformed /\ Acknowledge(i) /\ NextMessage(a, i)
      BY <2>8 DEF DropMalformed
    <3> QED
      BY <2>8, <3>1, AcknowledgeKeepsOrder DEF DropMalformed, Reflected
  <2>9. CASE Ack(a)
    <3>1. PICK i \in Ids : Written(a, i) /\ Acknowledge(i) /\ NextMessage(a, i)
      BY <2>9 DEF Ack
    <3>2. First(a, i) /\ heard[a]
      BY <2>9, <3>1 DEF Ack, Written, Handling
    <3>3. Reliable => Reflected(i)
      BY <3>2 DEF SettledBeforeBatch
    <3> QED
      BY <2>9, <3>1, <3>2, <3>3, AcknowledgeKeepsOrder DEF Ack
  <2> QED
    BY <1>3, <2>1, <2>2, <2>3, <2>4, <2>5, <2>6, <2>7, <2>8, <2>9 DEF ConsumeStep
<1>4. CASE Crash(a)
  <2>1. batch'[a] = {} /\ UNCHANGED <<log, redis, saved>>
    BY <1>4 DEF Crash, TypeOK
  <2>2. Settled(redis)' = Settled(redis) /\ Settled(saved)' = Settled(saved)
    BY <2>1 DEF Settled
  <2>3. crashes' > 0
    BY <1>4 DEF Crash, TypeOK
  <2>4. Reliable' => facts' = facts /\ Reliable
    BY <1>4, <2>3 DEF Crash, Reliable, InMemory
  <2>5. Reliable' => \A j \in Settled(redis) \cup Settled(saved) : Reflected(j)'
    BY <2>1, <2>4 DEF SettledBeforeBatch, Reflected, Stores, InMemory
  <2> QED
    BY <2>1, <2>2, <2>5 DEF SettledBeforeBatch, First
<1>5. CASE Restart(a)
  BY <1>5, OrderKept DEF Restart, Reliable, InMemory, First
<1>6. CASE ArriveLate
  <2>1. lates' > 0
    BY <1>6 DEF ArriveLate, TypeOK
  <2>2. ~Reliable'
    BY <2>1 DEF Reliable
  <2>3. UNCHANGED <<log, redis, saved, batch>>
    BY <1>6 DEF ArriveLate
  <2> QED
    BY <2>2, <2>3 DEF SettledBeforeBatch, Settled
<1>7. CASE RedisSaves \/ RedisRestarts
  <2>1. /\ UNCHANGED <<log, batch, heard>> /\ Reliable' = Reliable
        /\ \A i : Reflected(i)' = Reflected(i)
        /\ \A c \in Consumers, i \in Ids : First(c, i)' = First(c, i)
    BY <1>7 DEF RedisSaves, RedisRestarts, Reliable, Reflected, Stores, InMemory, First
  <2>2. /\ Settled(redis)' \cup Settled(saved)' \subseteq S
        /\ redis'.live \cup saved'.live \subseteq redis.live \cup saved.live
        /\ saved'.group <= redis'.group /\ redis'.group <= redis.group
    BY <1>0, <1>7 DEF RedisSaves, RedisRestarts, SettledBeforeBatch, Settled, NoGroup
  <2>3. redis'.group <= Len(log')
    BY <1>0, <1>7, <2>1 DEF RedisSaves, RedisRestarts, SettledBeforeBatch, NoGroup, TypeOK
  <2> QED
    BY <2>1, <2>2, <2>3 DEF SettledBeforeBatch
<1>8. CASE UNCHANGED vars
  BY <1>8, OrderKept DEF vars, Reliable, InMemory, First
<1> QED
  BY <1>2, <1>3, <1>4, <1>5, <1>6, <1>7, <1>8 DEF Next

(* With one API process the entries in hand come after all that is         *)
(* settled, in Redis now and in the snapshot it may go back to; and as     *)
(* long as no PUT has arrived late and no memory was lost, all that is     *)
(* settled, and what is about to be, is reflected in the store.            *)
THEOREM SettledBeforeBatchHolds ==
  ASSUME NEW a, Consumers = {a}
  PROVE  Spec => []SettledBeforeBatch
<1>1. TypeOK /\ LoopInv /\ SettledBeforeBatch /\ [Next]_vars => SettledBeforeBatch'
  BY SettledBeforeBatchStep
<1> QED
  BY <1>1, QueueInvariant, SettledBeforeBatchInit, PTL DEF Spec

(* An acknowledged entry is in the store (streams.go:49): with one API     *)
(* process, and until a PUT is applied after its sender gave up on it or   *)
(* the process takes an in-memory store with it, a replica of the entry's  *)
(* key holds its payload or that of a later entry, whichever commands and  *)
(* requests fail, and however the process and Redis restart.               *)
THEOREM AckImpliesStoredHolds ==
  ASSUME NEW a, Consumers = {a}
  PROVE  Spec => []AckImpliesStored
<1>1. SettledBeforeBatch => AckImpliesStored
  BY DEF SettledBeforeBatch, AckImpliesStored
<1> QED
  BY <1>1, SettledBeforeBatchHolds, PTL

-----------------------------------------------------------------------------
(* Until Redis restarts, the group's last-delivered ID is ahead of the     *)
(* facts, of the PUTs that may arrive late and of the batch, and the batch *)
(* is ahead of the facts and those PUTs: what is stored next is at least   *)
(* as new as all that is stored.                                           *)
FactsBehindBatch ==
  restarts = 0 =>
    /\ \A s \in Stores, k \in Keys : facts[s][k] = 0 \/ facts[s][k] <= redis.group
    /\ \A r \in late : r.id <= redis.group
    /\ \A c \in Consumers : \A i \in batch[c] :
         /\ i <= redis.group
         /\ \A s \in Stores, k \in Keys : facts[s][k] <= i
         /\ \A r \in late : r.id <= i

NothingRegresses == \A s \in Stores, k \in Keys : facts'[s][k] >= facts[s][k]

(* Storing an entry that nothing in hand precedes, as the one being        *)
(* handled or one that arrives late, keeps that order; the entry being     *)
(* handled undoes nothing, too (consumer.go:24-32).                        *)
LEMMA StoreKeepsOrder ==
  ASSUME NEW a, Consumers = {a}, TypeOK, FactsBehindBatch, restarts = 0, restarts' = 0,
         redis.group' = redis.group, batch'[a] = batch[a], late' \subseteq late,
         NEW s \in Stores, NEW i \in Ids, Store(s, i), i <= redis.group,
         \A j \in batch[a] : i <= j
  PROVE  /\ FactsBehindBatch'
         /\ i \in batch[a] => NothingRegresses
<1>0. Stores' = Stores
  BY DEF Stores, InMemory
<1>1. \A t \in Stores, k \in Keys :
        /\ facts[t][k] \in {0} \cup Ids /\ facts'[t][k] \in {facts[t][k], i}
        /\ i \in batch[a] => facts[t][k] <= i
  BY StoreKeepsFacts DEF TypeOK, FactsBehindBatch
<1>2. NothingRegresses \/ i \notin batch[a]
  BY <1>1 DEF NothingRegresses, Ids
<1>3. \A t \in Stores, k \in Keys : facts'[t][k] = 0 \/ facts'[t][k] <= redis.group
  BY <1>1 DEF FactsBehindBatch
<1>4. \A j \in batch[a] : \A t \in Stores, k \in Keys : facts'[t][k] <= j
  BY <1>1 DEF FactsBehindBatch
<1> QED
  BY <1>0, <1>2, <1>3, <1>4 DEF FactsBehindBatch

(* A request that may arrive late carries the entry that was handled.      *)
LEMMA LateKeepsOrder ==
  ASSUME NEW a, Consumers = {a}, TypeOK, FactsBehindBatch, restarts = 0, restarts' = 0,
         redis.group' = redis.group, batch'[a] \subseteq batch[a], facts' = facts,
         NEW i \in Ids, First(a, i), NEW s, late' = late \cup {[store |-> s, id |-> i]}
  PROVE  FactsBehindBatch'
<1>1. i \in batch[a] /\ \A j \in batch[a] : i <= j
  BY DEF First
<1>2. Stores' = Stores /\ \A r \in late' : r \in late \/ r.id = i
  BY DEF Stores, InMemory
<1> QED
  BY <1>1, <1>2 DEF FactsBehindBatch

(* Every step keeps that order, and the facts only advance by it, except   *)
(* when a PUT arrives late or a memory is lost.                            *)
LEMMA FactsBehindBatchStep ==
  ASSUME NEW a, Consumers = {a}, TypeOK, LoopInv, FactsBehindBatch, [Next]_vars
  PROVE  /\ FactsBehindBatch'
         /\ restarts = 0 /\ lates' = lates /\ (InMemory => crashes' = crashes)
              => NothingRegresses
<1> USE QueueAssumption DEF loopVars, storeVars, counters
<1> DEFINE Goal == /\ FactsBehindBatch'
                   /\ restarts = 0 /\ lates' = lates /\ (InMemory => crashes' = crashes)
                        => NothingRegresses
<1>0. /\ redis \in Image /\ redis.live \subseteq Ids
      /\ redis.group \in {NoGroup} \cup 0..MaxEntries
      /\ \A s \in Stores, k \in Keys : facts[s][k] \in Nat
      /\ \A r \in late : r.id \in Nat /\ r.id # 0
      /\ batch[a] \subseteq Ids /\ restarts \in Nat
      /\ Stores' = Stores
  BY ImageFields DEF TypeOK, Ids, Stores, InMemory
<1>a. facts' = facts => NothingRegresses
  BY <1>0 DEF NothingRegresses
<1>b. restarts # 0 /\ restarts' = restarts => Goal
  BY DEF FactsBehindBatch
<1>1. ASSUME UNCHANGED <<facts, late, restarts>>, redis.group' = redis.group,
             batch'[a] \subseteq batch[a]
      PROVE  Goal
  BY <1>0, <1>1, <1>a DEF FactsBehindBatch
<1>2. ASSUME NEW e \in Keys \cup {Malformed}, Publish(e) PROVE Goal
  BY <1>0, <1>1, <1>2 DEF Publish, Image
<1>3. ASSUME ConsumeStep(a) PROVE Goal
  <2>1. CASE CreateGroup(a)
    <3>1. CASE redis.group = NoGroup
      <4>1. redis'.group = 0 /\ UNCHANGED <<facts, late, restarts, batch>>
        BY <1>0, <2>1, <3>1 DEF CreateGroup, Image
      <4>2. restarts = 0 =>
              batch[a] = {} /\ late = {} /\ \A s \in Stores, k \in Keys : facts[s][k] = 0
        BY <1>0, <3>1 DEF FactsBehindBatch, NoGroup, Ids
      <4> QED
        BY <1>0, <1>a, <4>1, <4>2 DEF FactsBehindBatch
    <3>2. CASE redis.group # NoGroup
      BY <1>1, <2>1, <3>2 DEF CreateGroup
    <3> QED
      BY <3>1, <3>2
  <2>2. CASE CreateGroupFails(a)
    BY <1>1, <2>2 DEF CreateGroupFails, Fault
  <2>3. CASE Read(a)
    <3>1. PICK D \in SUBSET Undelivered : Deliver(D) /\ batch' = [batch EXCEPT ![a] = D]
      BY <2>3 DEF Read
    <3>2. redis.group < redis.group' /\ \A d \in D : d <= redis.group'
      <4>1. redis.group < redis.group' /\ redis.group' \in D
        BY <3>1, DeliverSettlesNothing
      <4>2. PICK last \in D : /\ \A d \in D : d <= last
                              /\ redis' = [redis EXCEPT !.group = last, !.pending = @ \cup D]
        BY <3>1 DEF Deliver
      <4> QED
        BY <1>0, <4>1, <4>2 DEF Image
    <3>3. \A d \in D : d \in Nat /\ d > redis.group
      BY <1>0 DEF Undelivered, Ids
    <3>4. /\ redis.group' \in Int
          /\ restarts = 0 =>
               /\ \A s \in Stores, k \in Keys :
                    facts[s][k] <= redis.group' /\ \A d \in D : facts[s][k] <= d
               /\ \A r \in late : r.id <= redis.group' /\ \A d \in D : r.id <= d
      <4>1. redis.group' \in D
        BY <3>1, DeliverSettlesNothing
      <4> QED
        BY <1>0, <3>2, <3>3, <4>1 DEF FactsBehindBatch, NoGroup
    <3>5. UNCHANGED <<facts, late, restarts>> /\ batch'[a] = D
      BY <2>3, <3>1 DEF Read, TypeOK
    <3> QED
      BY <1>0, <1>a, <3>2, <3>4, <3>5 DEF FactsBehindBatch
  <2>4. CASE ReadReplyLost(a)
    <3>1. PICK D \in SUBSET Undelivered : Deliver(D)
      BY <2>4 DEF ReadReplyLost
    <3>2. redis.group < redis.group' /\ redis.group' \in Ids
      BY <1>0, <3>1, DeliverSettlesNothing DEF Undelivered
    <3>3. UNCHANGED <<facts, late, restarts, batch>>
      BY <2>4 DEF ReadReplyLost, Fault
    <3>4. /\ redis.group' \in Nat /\ redis.group \in Int
          /\ \A n \in Nat : n <= redis.group => n <= redis.group'
      BY <1>0, <3>2 DEF Ids, NoGroup
    <3> QED
      BY <1>0, <1>a, <3>3, <3>4 DEF FactsBehindBatch, Ids
  <2>5. ASSUME NEW i \in Ids, Writing(a, i), Store(Target(a), i),
               UNCHANGED <<redis, batch, late, restarts>>
        PROVE  Goal
    <3>1. Target(a) \in Stores /\ First(a, i)
      BY <2>5, TargetIsStore DEF Writing, Handling
    <3>2. CASE restarts = 0
      <4>1. i \in batch[a] /\ i <= redis.group /\ \A j \in batch[a] : i <= j
        BY <3>1, <3>2 DEF First, FactsBehindBatch
      <4> QED
        BY <2>5, <3>1, <3>2, <4>1, StoreKeepsOrder
    <3> QED
      BY <1>b, <2>5, <3>2
  <2>6. CASE Put(a)
    BY <2>5, <2>6 DEF Put
  <2>7. CASE PutFails(a)
    <3>1. PICK i \in Ids :
            /\ Writing(a, i)
            /\ \/ Store(Target(a), i) /\ UNCHANGED late
               \/ UNCHANGED storeVars
               \/ late' = late \cup {[store |-> Target(a), id |-> i]} /\ UNCHANGED facts
      BY <2>7 DEF PutFails
    <3>2. UNCHANGED <<redis, batch, restarts>>
      BY <2>7 DEF PutFails, Fault
    <3>3. CASE Store(Target(a), i) /\ UNCHANGED late
      BY <2>5, <3>1, <3>2, <3>3
    <3>4. CASE UNCHANGED storeVars
      BY <1>1, <3>2, <3>4
    <3>5. CASE late' = late \cup {[store |-> Target(a), id |-> i]} /\ UNCHANGED facts
      BY <1>a, <1>b, <3>1, <3>2, <3>5, LateKeepsOrder DEF Writing, Handling
    <3> QED
      BY <3>1, <3>3, <3>4, <3>5
  <2>8. CASE HandleFails(a) \/ DropMalformed(a) \/ Ack(a)
    <3>1. PICK i \in Ids : (Acknowledge(i) \/ UNCHANGED <<redis, counters>>) /\ NextMessage(a, i)
      BY <2>8 DEF HandleFails, DropMalformed, Ack
    <3>2. redis.group' = redis.group
      BY <1>0, <3>1, AckSettlesOne DEF Acknowledge
    <3>3. batch'[a] \subseteq batch[a]
      BY <3>1, NextMessageTypes
    <3>4. UNCHANGED <<facts, late, restarts>>
      BY <2>8, <3>1 DEF HandleFails, DropMalformed, Ack, Acknowledge, Fault
    <3> QED
      BY <1>1, <3>2, <3>3, <3>4
  <2> QED
    BY <1>3, <2>1, <2>2, <2>3, <2>4, <2>6, <2>7, <2>8 DEF ConsumeStep
<1>4. CASE Crash(a)
  <2>1. batch'[a] = {} /\ UNCHANGED <<redis, restarts>> /\ crashes' # crashes
    BY <1>4 DEF Crash, TypeOK
  <2>2. CASE InMemory
    <3>1. \A s \in Stores, k \in Keys : facts'[s][k] = 0
      BY <1>4, <2>2 DEF Crash, Stores, Empty, TypeOK
    <3>2. late' = late
      BY <1>4, <2>2 DEF Crash
    <3> QED
      BY <1>0, <2>1, <2>2, <3>1, <3>2 DEF FactsBehindBatch
  <2>3. CASE ~InMemory
    <3>1. facts' = facts
      BY <1>4, <2>3 DEF Crash
    <3>2. CASE late' = late
      BY <1>1, <2>1, <3>1, <3>2
    <3>3. CASE late' # late
      <4>1. PICK i \in Ids :
              Writing(a, i) /\ late' = late \cup {[store |-> Target(a), id |-> i]}
        BY <1>4, <3>3 DEF Crash
      <4> QED
        BY <1>a, <1>b, <2>1, <3>1, <4>1, LateKeepsOrder DEF Writing, Handling
    <3> QED
      BY <3>2, <3>3
  <2> QED
    BY <2>2, <2>3
<1>5. CASE Restart(a) \/ RedisSaves
  BY <1>1, <1>5 DEF Restart, RedisSaves
<1>6. CASE ArriveLate
  <2>1. PICK r \in late : Store(r.store, r.id) /\ late' = late \ {r}
    BY <1>6 DEF ArriveLate
  <2>2. UNCHANGED <<redis, batch, restarts>> /\ lates' # lates
    BY <1>6 DEF ArriveLate, TypeOK
  <2>3. CASE restarts = 0
    <3>1. r.store \in Stores /\ r.id \in Ids
      BY DEF TypeOK
    <3>2. r.id <= redis.group /\ \A j \in batch[a] : r.id <= j
      BY <2>3 DEF FactsBehindBatch
    <3> QED
      BY <2>1, <2>2, <2>3, <3>1, <3>2, StoreKeepsOrder
  <2> QED
    BY <1>b, <2>2, <2>3
<1>7. CASE RedisRestarts
  BY <1>0, <1>7, <1>a DEF RedisRestarts, FactsBehindBatch
<1>8. CASE UNCHANGED vars
  BY <1>1, <1>8 DEF vars
<1> QED
  BY <1>2, <1>3, <1>4, <1>5, <1>6, <1>7, <1>8 DEF Next

(* A store's fact is never replaced by an older event's (consumer.go:24-32, *)
(* replication.go:37-44): with one API process, through failed and repeated *)
(* PUTs, crashes and restarts, as long as Redis has not gone back to a      *)
(* snapshot, by any step but a PUT that arrives late and, without store     *)
(* nodes, the end of the process.                                           *)
THEOREM FactsNeverRegressHolds ==
  ASSUME NEW a, Consumers = {a}
  PROVE  Spec => FactsNeverRegress
<1>1. Init => FactsBehindBatch
  BY DEF Init, FactsBehindBatch, Empty
<1>2. TypeOK /\ LoopInv /\ FactsBehindBatch /\ [Next]_vars => FactsBehindBatch'
  BY FactsBehindBatchStep
<1>3. TypeOK /\ LoopInv /\ FactsBehindBatch /\ [Next]_vars
        => [restarts = 0 /\ lates' = lates /\ (InMemory => crashes' = crashes) =>
              \A s \in Stores, k \in Keys : facts'[s][k] >= facts[s][k]]_facts
  BY FactsBehindBatchStep DEF NothingRegresses
<1> QED
  BY <1>1, <1>2, <1>3, QueueInvariant, PTL DEF Spec, FactsNeverRegress

-----------------------------------------------------------------------------
(* How many entries nobody works on, for any finite set of API processes.  *)

(* The IDs that some process has in hand, and the failures counted in sets *)
(* of a batch.                                                              *)
InHand == UNION {batch[c] : c \in Consumers}
Losses == faults + crashes + restarts * Cardinality(Consumers)

(* An entry that a target has failed to store and no other has stored yet: *)
(* the failure may cost this entry, so it counts as lost until it is heard *)
(* to be stored (replication.go:38-47).                                    *)
Doomed(c, i) == First(c, i) /\ asked[c] > 0 /\ ~heard[c]
Working      == UNION {{i \in batch[c] : ~Doomed(c, i)} : c \in Consumers}
Lost         == redis.pending \ Working

(* A process has at most a batch in hand; the snapshot has pending at most *)
(* what was lost before it and what was in hand then.                      *)
AbandonedInv ==
  /\ \A c \in Consumers : Cardinality(batch[c]) <= BatchSize
  /\ Cardinality(Lost) <= BatchSize * Losses
  /\ Cardinality(saved.pending) <= BatchSize * (Losses + Cardinality(Consumers))

(* Sets of at most m elements, one for each element of a finite set C, have *)
(* at most m * |C| elements between them.                                   *)
LEMMA UnionBounded ==
  ASSUME NEW C, IsFiniteSet(C), NEW m \in Nat, NEW b,
         \A c \in C : IsFiniteSet(b[c]) /\ Cardinality(b[c]) <= m
  PROVE  /\ IsFiniteSet(UNION {b[c] : c \in C})
         /\ Cardinality(UNION {b[c] : c \in C}) <= m * Cardinality(C)
<1> DEFINE U == UNION {b[c] : c \in C}
           f == [c \in C |-> CHOOSE g : g \in Surjection(1..Cardinality(b[c]), b[c])]
           P == {x \in C \X (1..m) : x[2] <= Cardinality(b[x[1]])}
           h == [x \in P |-> f[x[1]][x[2]]]
<1>1. ASSUME NEW c \in C
      PROVE  /\ Cardinality(b[c]) \in Nat
             /\ f[c] \in [1..Cardinality(b[c]) -> b[c]]
             /\ \A u \in b[c] : \E i \in 1..Cardinality(b[c]) : f[c][i] = u
  <2>1. Cardinality(b[c]) \in Nat /\ ExistsBijection(1..Cardinality(b[c]), b[c])
    BY FS_CardinalityType
  <2>2. \E g : g \in Surjection(1..Cardinality(b[c]), b[c])
    BY <2>1 DEF ExistsBijection, Bijection
  <2>3. f[c] \in Surjection(1..Cardinality(b[c]), b[c])
    BY <2>2
  <2> QED
    BY <2>1, <2>3 DEF Surjection
<1>2. h \in [P -> U]
  <2> SUFFICES ASSUME NEW x \in P PROVE h[x] \in U
    OBVIOUS
  <2>1. x[1] \in C /\ x[2] \in 1..Cardinality(b[x[1]])
    BY <1>1
  <2> QED
    BY <1>1, <2>1
<1>3. ASSUME NEW u \in U PROVE \E x \in P : h[x] = u
  <2>1. PICK c \in C : u \in b[c]
    OBVIOUS
  <2>2. PICK i \in 1..Cardinality(b[c]) : f[c][i] = u
    BY <1>1, <2>1
  <2>3. i \in 1..m
    <3>1. Cardinality(b[c]) \in Nat
      BY <1>1
    <3> HIDE DEF U, f, P, h
    <3> QED
      BY <3>1
  <2>4. <<c, i>> \in C \X (1..m) /\ <<c, i>>[1] = c /\ <<c, i>>[2] = i
    BY <2>3
  <2>5. i <= Cardinality(b[c])
    <3> HIDE DEF U, f, P, h
    <3> QED
      BY <2>2
  <2>6. <<c, i>> \in P
    BY <2>4, <2>5
  <2>7. h[<<c, i>>] = u
    BY <2>2, <2>4, <2>6
  <2> QED
    BY <2>6, <2>7
<1>4. h \in Surjection(P, U)
  BY <1>2, <1>3 DEF Surjection
<1>5. IsFiniteSet(C \X (1..m)) /\ Cardinality(C \X (1..m)) = Cardinality(C) * m
  <2>1. IsFiniteSet(1..m) /\ Cardinality(1..m) = m
    BY FS_Interval
  <2> QED
    BY <2>1, FS_Product
<1>6. IsFiniteSet(P) /\ Cardinality(P) <= Cardinality(C) * m
  BY <1>5, FS_Subset, P \in SUBSET (C \X (1..m))
<1> HIDE DEF h, f, P, U
<1>7. IsFiniteSet(U) /\ Cardinality(U) <= Cardinality(P)
  BY <1>4, <1>6, FS_Surjection
<1>8. /\ Cardinality(U) \in Nat /\ Cardinality(P) \in Nat /\ Cardinality(C) \in Nat
      /\ Cardinality(C) * m = m * Cardinality(C)
  BY <1>6, <1>7, FS_CardinalityType
<1> QED
  BY <1>6, <1>7, <1>8 DEF U

(* Every set of IDs is finite, and smaller sets have no more elements.      *)
LEMMA IdsFinite ==
  ASSUME NEW S \in SUBSET Ids
  PROVE  /\ IsFiniteSet(S) /\ Cardinality(S) \in Nat
         /\ \A T \in SUBSET S : Cardinality(T) \in Nat /\ Cardinality(T) <= Cardinality(S)
<1>1. IsFiniteSet(Ids)
  BY QueueAssumption, FS_Interval DEF Ids
<1>2. IsFiniteSet(S)
  BY <1>1, FS_Subset
<1> QED
  BY <1>2, FS_Subset, FS_CardinalityType

(* Two sets of IDs have together at most the sum of their elements.         *)
LEMMA IdsUnion ==
  ASSUME NEW S \in SUBSET Ids, NEW T \in SUBSET Ids
  PROVE  Cardinality(S \cup T) <= Cardinality(S) + Cardinality(T)
<1>1. /\ Cardinality(S) \in Nat /\ Cardinality(T) \in Nat
      /\ Cardinality(S \cap T) \in Nat
      /\ IsFiniteSet(S) /\ IsFiniteSet(T)
  BY IdsFinite, S \cap T \in SUBSET Ids
<1>2. Cardinality(S \cup T) = Cardinality(S) + Cardinality(T) - Cardinality(S \cap T)
  BY <1>1, FS_Union
<1> QED
  BY <1>1, <1>2

(* The losses are counted by a number, and each one is worth a batch.       *)
LEMMA LossesCounted ==
  ASSUME IsFiniteSet(Consumers), TypeOK
  PROVE  /\ Losses \in Nat /\ Cardinality(Consumers) \in Nat
         /\ \A m, n \in Nat : BatchSize * (m + n) = BatchSize * m + BatchSize * n
         /\ \A n \in Nat : BatchSize * n \in Nat
<1>1. Cardinality(Consumers) \in Nat
  BY FS_CardinalityType
<1>2. faults \in Nat /\ crashes \in Nat /\ restarts \in Nat
  BY QueueAssumption DEF TypeOK
<1>3. restarts * Cardinality(Consumers) \in Nat
  BY <1>1, <1>2
<1>4. BatchSize \in Nat
  BY QueueAssumption
<1>5. Losses \in Nat
  BY <1>2, <1>3 DEF Losses
<1>6. \A m, n \in Nat : BatchSize * (m + n) = BatchSize * m + BatchSize * n
  BY <1>4
<1>7. \A n \in Nat : BatchSize * n \in Nat
  BY <1>4
<1> QED
  BY <1>1, <1>5, <1>6, <1>7

(* What is lost, pending or in hand are IDs; what is abandoned is lost.     *)
LEMMA LostIds ==
  ASSUME TypeOK
  PROVE  /\ Lost \in SUBSET Ids /\ InHand \in SUBSET Ids
         /\ saved.pending \in SUBSET Ids /\ redis.pending \in SUBSET Ids
         /\ redis.pending \subseteq Lost \cup InHand
         /\ Abandoned \subseteq Lost
BY ImageFields DEF TypeOK, Lost, Working, InHand, Abandoned

(* A step that loses the entries of X, which its n failures pay for,         *)
(* keeps both bounds.                                                       *)
LEMMA BoundsKept ==
  ASSUME IsFiniteSet(Consumers), TypeOK, AbandonedInv, saved' = saved,
         NEW n \in Nat, Losses' = Losses + n,
         NEW X \in SUBSET Ids, Cardinality(X) <= BatchSize * n,
         Lost' \subseteq Lost \cup X
  PROVE  /\ Cardinality(Lost') <= BatchSize * Losses'
         /\ Cardinality(saved'.pending) <= BatchSize * (Losses' + Cardinality(Consumers))
<1>1. /\ Losses \in Nat /\ Cardinality(Consumers) \in Nat
      /\ BatchSize * (Losses + n) = BatchSize * Losses + BatchSize * n
      /\ BatchSize * ((Losses + Cardinality(Consumers)) + n)
           = BatchSize * (Losses + Cardinality(Consumers)) + BatchSize * n
      /\ BatchSize * Losses \in Nat /\ BatchSize * n \in Nat
      /\ BatchSize * (Losses + Cardinality(Consumers)) \in Nat
  <2>1. Losses \in Nat /\ Cardinality(Consumers) \in Nat
    BY LossesCounted
  <2>2. Losses + Cardinality(Consumers) \in Nat
    BY <2>1
  <2> QED
    BY <2>1, <2>2, LossesCounted
<1>2. Lost \in SUBSET Ids /\ saved.pending \in SUBSET Ids
  BY LostIds
<1>3. /\ Cardinality(Lost') \in Nat /\ Cardinality(Lost) \in Nat
      /\ Cardinality(X) \in Nat /\ Cardinality(Lost \cup X) \in Nat
      /\ Cardinality(Lost') <= Cardinality(Lost \cup X)
      /\ Cardinality(saved.pending) \in Nat
  BY <1>2, IdsFinite, Lost \cup X \in SUBSET Ids,
     Lost' \in SUBSET (Lost \cup X)
<1>4. Cardinality(Lost \cup X) <= Cardinality(Lost) + Cardinality(X)
  BY <1>2, IdsUnion
<1>5. Cardinality(Lost') <= BatchSize * (Losses + n)
  BY <1>1, <1>3, <1>4 DEF AbandonedInv
<1>6. Cardinality(saved.pending) <= BatchSize * ((Losses + Cardinality(Consumers)) + n)
  BY <1>1, <1>3 DEF AbandonedInv
<1>7. (Losses + Cardinality(Consumers)) + n = Losses' + Cardinality(Consumers)
  BY <1>1
<1> QED
  BY <1>5, <1>6, <1>7

(* A single entry fits in the batch that one failure is worth.              *)
LEMMA OneLost ==
  ASSUME NEW i \in Ids
  PROVE  {i} \in SUBSET Ids /\ Cardinality({i}) <= BatchSize * 1
BY FS_Singleton, QueueAssumption

(* Nothing is lost: the case of BoundsKept with no failure.                 *)
LEMMA NothingLost ==
  ASSUME IsFiniteSet(Consumers), TypeOK, AbandonedInv, saved' = saved,
         Losses' = Losses, Lost' \subseteq Lost
  PROVE  /\ Cardinality(Lost') <= BatchSize * Losses'
         /\ Cardinality(saved'.pending) <= BatchSize * (Losses' + Cardinality(Consumers))
<1>1. Losses' = Losses + 0 /\ BatchSize * 0 = 0
  BY LossesCounted, QueueAssumption
<1>2. {} \in SUBSET Ids /\ Cardinality({}) <= BatchSize * 0 /\ 0 \in Nat
  BY <1>1, FS_EmptySet
<1>3. Lost' \subseteq Lost \cup {}
  OBVIOUS
<1> QED
  BY <1>1, <1>2, <1>3, BoundsKept

(* What a process does with its own batch and set of answers concerns only  *)
(* the entries it works on.                                                 *)
WorksOn(c) == {i \in batch[c] : ~Doomed(c, i)}

LEMMA LostBy ==
  ASSUME NEW c \in Consumers, NEW X,
         \A d \in Consumers : d # c =>
           batch'[d] = batch[d] /\ asked'[d] = asked[d] /\ heard'[d] = heard[d],
         \A i \in redis.pending' : i \in redis.pending \/ i \in WorksOn(c)',
         \A i \in redis.pending' : i \in WorksOn(c) => i \in WorksOn(c)' \/ i \in X
  PROVE  Lost' \subseteq Lost \cup X
<1> SUFFICES ASSUME NEW i \in redis.pending', i \notin Working', i \notin X
             PROVE  i \in Lost
  BY DEF Lost
<1>1. i \notin WorksOn(c)' /\ i \in redis.pending /\ i \notin WorksOn(c)
  BY DEF Working, WorksOn
<1>2. \A d \in Consumers : d # c => (i \in WorksOn(d) => i \in WorksOn(d)')
  BY DEF WorksOn, Doomed, First
<1>3. \A d \in Consumers : i \notin WorksOn(d)
  BY <1>1, <1>2 DEF Working, WorksOn
<1> QED
  BY <1>1, <1>3 DEF Lost, Working, WorksOn

(* Nobody's batch or answers change, and nothing becomes pending.           *)
LEMMA LostKept ==
  ASSUME redis.pending' = redis.pending, batch' = batch, asked' = asked, heard' = heard
  PROVE  Lost' = Lost
BY DEF Lost, Working, Doomed, First

(* The first entry of a batch leaves it (streams.go:76-99): the batch of    *)
(* the process shrinks, and it works on all that is left of it.             *)
LEMMA NextMessageBatch ==
  ASSUME TypeOK, AbandonedInv, NEW c \in Consumers, NEW i \in Ids, NextMessage(c, i)
  PROVE  /\ \A d \in Consumers : d # c =>
              batch'[d] = batch[d] /\ asked'[d] = asked[d] /\ heard'[d] = heard[d]
         /\ WorksOn(c)' = batch[c] \ {i}
         /\ \A d \in Consumers : Cardinality(batch'[d]) <= BatchSize
<1>1. /\ batch'[c] = batch[c] \ {i} /\ asked'[c] = 0
      /\ \A d \in Consumers : d # c =>
           batch'[d] = batch[d] /\ asked'[d] = asked[d] /\ heard'[d] = heard[d]
  BY NextMessageTypes
<1>2. Cardinality(batch'[c]) <= BatchSize
  <2>1. batch[c] \in SUBSET Ids /\ batch'[c] \in SUBSET batch[c]
    BY <1>1 DEF TypeOK
  <2>2. /\ Cardinality(batch'[c]) \in Nat /\ Cardinality(batch[c]) \in Nat
        /\ Cardinality(batch'[c]) <= Cardinality(batch[c])
    BY <2>1, IdsFinite
  <2> QED
    BY <2>2, QueueAssumption DEF AbandonedInv
<1>3. WorksOn(c)' = batch[c] \ {i}
  BY <1>1 DEF WorksOn, Doomed
<1> QED
  BY <1>1, <1>2, <1>3 DEF AbandonedInv

(* XREADGROUP gives at most a batch of entries that were not pending.       *)
LEMMA DeliverAddsPending ==
  ASSUME TypeOK, NEW D \in SUBSET Undelivered, Deliver(D)
  PROVE  /\ redis.pending' = redis.pending \cup D
         /\ D \in SUBSET Ids /\ Cardinality(D) <= BatchSize
BY ImageFields DEF TypeOK, Image, Deliver, Undelivered

(* A successful XACK takes away the entry, and a failed one is a failure.   *)
LEMMA AckLosses ==
  ASSUME IsFiniteSet(Consumers), TypeOK, AbandonedInv, saved' = saved,
         NEW c \in Consumers, NEW i \in Ids, NextMessage(c, i), Acknowledge(i)
  PROVE  AbandonedInv'
<1>1. /\ \A d \in Consumers : d # c =>
           batch'[d] = batch[d] /\ asked'[d] = asked[d] /\ heard'[d] = heard[d]
      /\ WorksOn(c)' = batch[c] \ {i} /\ WorksOn(c) \subseteq batch[c]
      /\ \A d \in Consumers : Cardinality(batch'[d]) <= BatchSize
  BY NextMessageBatch DEF WorksOn
<1>2. CASE Acked(i) /\ UNCHANGED counters
  <2>1. redis.pending' = redis.pending \ {i}
    BY <1>2 DEF Acked, TypeOK, Image
  <2>2. Lost' \subseteq Lost \cup {}
    BY <1>1, <2>1, LostBy
  <2>3. Losses' = Losses
    BY <1>2 DEF Losses, counters
  <2> QED
    BY <1>1, <2>2, <2>3, NothingLost DEF AbandonedInv
<1>3. CASE UNCHANGED redis /\ Fault
  <2>1. Lost' \subseteq Lost \cup {i}
    BY <1>1, <1>3, LostBy
  <2>2. Losses' = Losses + 1
    BY <1>3, QueueAssumption, FS_CardinalityType DEF Losses, Fault, TypeOK
  <2> QED
    BY <1>1, <2>1, <2>2, OneLost, BoundsKept DEF AbandonedInv
<1> QED
  BY <1>2, <1>3 DEF Acknowledge

(* Every step keeps the count of lost entries within the failures.          *)
LEMMA AbandonedInvStep ==
  ASSUME IsFiniteSet(Consumers), TypeOK, LoopInv, AbandonedInv, [Next]_vars
  PROVE  AbandonedInv'
<1> USE DEF loopVars, storeVars
<1> DEFINE Hands == \A d \in Consumers : Cardinality(batch'[d]) <= BatchSize
<1>0. ASSUME redis'.pending = redis.pending, saved' = saved,
             UNCHANGED <<batch, asked, heard, counters>>
      PROVE  AbandonedInv'
  <2>1. Lost' \subseteq Lost /\ Losses' = Losses
    BY <1>0, LostKept DEF Losses, counters
  <2> QED
    BY <1>0, <2>1, NothingLost DEF AbandonedInv
<1>1. ASSUME NEW e \in Keys \cup {Malformed}, Publish(e) PROVE AbandonedInv'
  <2>1. redis'.pending = redis.pending
    BY <1>1 DEF Publish, TypeOK, Image
  <2> QED
    BY <1>0, <1>1, <2>1 DEF Publish
<1>2. ASSUME NEW c \in Consumers, ConsumeStep(c) PROVE AbandonedInv'
  <2>0. Fault => Losses' = Losses + 1
    BY QueueAssumption, FS_CardinalityType DEF Losses, Fault, TypeOK
  <2>1. CASE CreateGroup(c)
    <3>1. redis'.pending = redis.pending
      BY <2>1 DEF CreateGroup, TypeOK, Image
    <3> QED
      BY <1>0, <2>1, <3>1 DEF CreateGroup
  <2>2. CASE CreateGroupFails(c)
    <3>1. Lost' \subseteq Lost \cup {}
      BY <2>2, LostKept DEF CreateGroupFails
    <3>2. Hands
      BY <2>2 DEF CreateGroupFails, AbandonedInv
    <3>3. {} \in SUBSET Ids /\ Cardinality({}) <= BatchSize * 1
      BY FS_EmptySet, QueueAssumption
    <3> QED
      BY <2>0, <2>2, <3>1, <3>2, <3>3, BoundsKept DEF CreateGroupFails, AbandonedInv
  <2>3. CASE Read(c)
    <3>1. PICK D \in SUBSET Undelivered : Deliver(D) /\ batch' = [batch EXCEPT ![c] = D]
      BY <2>3 DEF Read
    <3>2. /\ redis.pending' = redis.pending \cup D
          /\ D \in SUBSET Ids /\ Cardinality(D) <= BatchSize
      BY <3>1, DeliverAddsPending
    <3>3. /\ batch'[c] = D /\ batch[c] = {}
          /\ \A d \in Consumers : d # c => batch'[d] = batch[d]
          /\ asked'[c] = 0 /\ UNCHANGED <<asked, heard>>
      BY <2>3, <3>1 DEF Read, TypeOK, LoopInv
    <3>4. WorksOn(c)' = D /\ WorksOn(c) = {}
      BY <3>3 DEF WorksOn, Doomed
    <3>5. Lost' \subseteq Lost \cup {}
      BY <3>2, <3>3, <3>4, LostBy
    <3>6. Hands
      BY <3>2, <3>3 DEF AbandonedInv
    <3>7. Losses' = Losses /\ saved' = saved
      BY <2>3 DEF Read, Losses, counters
    <3> QED
      BY <3>5, <3>6, <3>7, NothingLost DEF AbandonedInv
  <2>4. CASE ReadReplyLost(c)
    <3>1. PICK D \in SUBSET Undelivered : Deliver(D)
      BY <2>4 DEF ReadReplyLost
    <3>2. /\ redis.pending' = redis.pending \cup D
          /\ D \in SUBSET Ids /\ Cardinality(D) <= BatchSize * 1
      BY <3>1, DeliverAddsPending, QueueAssumption
    <3>3. Lost' \subseteq Lost \cup D
      BY <2>4, <3>2 DEF ReadReplyLost, Lost, Working, Doomed, First
    <3> QED
      BY <2>0, <2>4, <3>2, <3>3, BoundsKept DEF ReadReplyLost, AbandonedInv
  <2>5. CASE Put(c)
    <3>1. PICK i \in Ids : Writing(c, i)
      BY <2>5 DEF Put
    <3>2. /\ heard'[c]
          /\ \A d \in Consumers : d # c => asked'[d] = asked[d] /\ heard'[d] = heard[d]
          /\ UNCHANGED <<redis, batch, saved>>
      BY <2>5, <3>1, AskKeepsTypes DEF Put, Writing
    <3>3. WorksOn(c) \subseteq WorksOn(c)'
      BY <3>2 DEF WorksOn, Doomed
    <3>4. Lost' \subseteq Lost \cup {}
      BY <3>2, <3>3, LostBy
    <3>5. Hands /\ Losses' = Losses
      BY <2>5 DEF Put, AbandonedInv, Losses, counters
    <3> QED
      BY <3>2, <3>4, <3>5, NothingLost DEF AbandonedInv
  <2>6. CASE PutFails(c)
    <3>1. PICK i \in Ids : Writing(c, i)
      BY <2>6 DEF PutFails
    <3>2. /\ \A d \in Consumers : d # c => asked'[d] = asked[d] /\ heard'[d] = heard[d]
          /\ UNCHANGED <<redis, batch, saved>>
      BY <2>6, <3>1, AskKeepsTypes DEF PutFails, Writing
    <3>3. \A j \in batch[c] : First(c, j)' => j = i
      BY <3>1, <3>2 DEF Writing, Handling, First, Ids, TypeOK
    <3>4. \A j \in WorksOn(c) : j \in WorksOn(c)' \/ j \in {i}
      BY <3>2, <3>3 DEF WorksOn, Doomed
    <3>5. Lost' \subseteq Lost \cup {i}
      BY <3>2, <3>4, LostBy
    <3>6. Hands /\ Losses' = Losses + 1
      BY <2>0, <2>6 DEF PutFails, AbandonedInv
    <3> QED
      BY <3>2, <3>5, <3>6, OneLost, BoundsKept DEF AbandonedInv
  <2>7. CASE HandleFails(c)
    <3>1. PICK i \in Ids : Written(c, i) /\ NextMessage(c, i)
      BY <2>7 DEF HandleFails
    <3>2. /\ \A d \in Consumers : d # c =>
               batch'[d] = batch[d] /\ asked'[d] = asked[d] /\ heard'[d] = heard[d]
          /\ WorksOn(c)' = batch[c] \ {i}
          /\ Hands
      BY <3>1, NextMessageBatch
    <3>3. Doomed(c, i)
      BY <2>7, <3>1, QueueAssumption
         DEF HandleFails, Written, Handling, Doomed, Targets, InMemory
    <3>4. WorksOn(c) \subseteq WorksOn(c)'
      BY <3>2, <3>3 DEF WorksOn
    <3>5. UNCHANGED <<redis, saved>> /\ Losses' = Losses
      BY <2>7 DEF HandleFails, Losses, counters
    <3>6. Lost' \subseteq Lost \cup {}
      BY <3>2, <3>4, <3>5, LostBy
    <3> QED
      BY <3>2, <3>5, <3>6, NothingLost DEF AbandonedInv
  <2>8. CASE DropMalformed(c) \/ Ack(c)
    <3>1. PICK i \in Ids : Acknowledge(i) /\ NextMessage(c, i)
      BY <2>8 DEF DropMalformed, Ack
    <3> QED
      BY <2>8, <3>1, AckLosses DEF DropMalformed, Ack
  <2> QED
    BY <1>2, <2>1, <2>2, <2>3, <2>4, <2>5, <2>6, <2>7, <2>8 DEF ConsumeStep
<1>3. ASSUME NEW c \in Consumers, Crash(c) PROVE AbandonedInv'
  <2>1. /\ batch'[c] = {}
        /\ \A d \in Consumers : d # c =>
             batch'[d] = batch[d] /\ asked'[d] = asked[d] /\ heard'[d] = heard[d]
        /\ UNCHANGED <<redis, saved>>
    BY <1>3 DEF Crash, NewSet, TypeOK
  <2>2. Lost' \subseteq Lost \cup batch[c]
    BY <2>1, LostBy DEF WorksOn
  <2>3. Losses' = Losses + 1
    BY <1>3, QueueAssumption, FS_CardinalityType DEF Losses, Crash, TypeOK
  <2>4. batch[c] \in SUBSET Ids /\ Cardinality(batch[c]) <= BatchSize * 1
    BY QueueAssumption DEF TypeOK, AbandonedInv
  <2>5. Hands
    <3>1. Cardinality({}) <= BatchSize
      BY FS_EmptySet, QueueAssumption
    <3>2. Cardinality(batch'[c]) <= BatchSize
      BY <2>1, <3>1
    <3>3. \A d \in Consumers : d # c => Cardinality(batch'[d]) <= BatchSize
      BY <2>1 DEF AbandonedInv
    <3> QED
      BY <3>2, <3>3
  <2> QED
    BY <2>1, <2>2, <2>3, <2>4, <2>5, BoundsKept DEF AbandonedInv
<1>4. ASSUME NEW c \in Consumers, Restart(c) PROVE AbandonedInv'
  BY <1>0, <1>4 DEF Restart
<1>5. CASE RedisSaves
  <2>1. Lost' = Lost /\ Losses' = Losses /\ Hands
    BY <1>5, LostKept DEF RedisSaves, Losses, counters, AbandonedInv
  <2>2. saved'.pending \subseteq Lost \cup InHand
    BY <1>5, LostIds DEF RedisSaves
  <2>3. Cardinality(InHand) <= BatchSize * Cardinality(Consumers)
    <3>1. \A c \in Consumers : IsFiniteSet(batch[c]) /\ Cardinality(batch[c]) <= BatchSize
      BY IdsFinite DEF TypeOK, AbandonedInv
    <3> QED
      BY <3>1, QueueAssumption, UnionBounded DEF InHand
  <2>4. /\ Cardinality(saved'.pending) \in Nat
        /\ Cardinality(Lost) \in Nat /\ Cardinality(InHand) \in Nat
        /\ Cardinality(saved'.pending) <= Cardinality(Lost \cup InHand)
        /\ Cardinality(Lost \cup InHand) \in Nat
    BY <2>2, LostIds, IdsFinite, Lost \cup InHand \in SUBSET Ids,
       saved'.pending \in SUBSET (Lost \cup InHand)
  <2>5. Cardinality(Lost \cup InHand) <= Cardinality(Lost) + Cardinality(InHand)
    BY LostIds, IdsUnion
  <2>6. /\ Losses \in Nat /\ Cardinality(Consumers) \in Nat
        /\ BatchSize * (Losses + Cardinality(Consumers))
             = BatchSize * Losses + BatchSize * Cardinality(Consumers)
        /\ BatchSize * Losses \in Nat /\ BatchSize * Cardinality(Consumers) \in Nat
    BY LossesCounted
  <2>7. Cardinality(saved'.pending) <= BatchSize * (Losses + Cardinality(Consumers))
    BY <2>3, <2>4, <2>5, <2>6 DEF AbandonedInv
  <2> QED
    BY <2>1, <2>7 DEF AbandonedInv
<1>6. CASE RedisRestarts
  <2>1. Losses' = Losses + Cardinality(Consumers)
    <3> DEFINE N == Cardinality(Consumers)
    <3>1. /\ restarts' = restarts + 1 /\ faults' = faults /\ crashes' = crashes
          /\ faults \in Nat /\ crashes \in Nat /\ restarts \in Nat /\ N \in Nat
      BY <1>6, LossesCounted, QueueAssumption DEF RedisRestarts, TypeOK
    <3>2. Losses' = faults' + crashes' + restarts' * N
      BY DEF Losses
    <3>3. Losses = faults + crashes + restarts * N
      BY DEF Losses
    <3> HIDE DEF N
    <3>4. (restarts + 1) * N = restarts * N + N /\ restarts * N \in Nat
      BY <3>1
    <3> QED
      BY <3>1, <3>2, <3>3, <3>4 DEF N
  <2>2. Lost' \subseteq saved.pending
    BY <1>6 DEF RedisRestarts, Lost
  <2>3. /\ Cardinality(Lost') \in Nat /\ Cardinality(saved.pending) \in Nat
        /\ Cardinality(Lost') <= Cardinality(saved.pending)
    BY <2>2, LostIds, IdsFinite
  <2>4. saved' = saved /\ Hands
    BY <1>6 DEF RedisRestarts, AbandonedInv
  <2>5. /\ Losses' \in Nat /\ Cardinality(Consumers) \in Nat
        /\ BatchSize * (Losses' + Cardinality(Consumers))
             = BatchSize * Losses' + BatchSize * Cardinality(Consumers)
        /\ BatchSize * Losses' \in Nat /\ BatchSize * Cardinality(Consumers) \in Nat
    <3>1. Losses \in Nat /\ Cardinality(Consumers) \in Nat
      BY LossesCounted
    <3>2. Losses' \in Nat
      BY <2>1, <3>1
    <3> QED
      BY <3>1, <3>2, LossesCounted
  <2>6. Cardinality(saved.pending) <= BatchSize * Losses'
    BY <2>1 DEF AbandonedInv
  <2> QED
    BY <2>3, <2>4, <2>5, <2>6 DEF AbandonedInv
<1>7. CASE ArriveLate
  <2>1. /\ UNCHANGED <<redis, saved, batch, asked, heard>> /\ Losses' = Losses
    BY <1>7 DEF ArriveLate, Losses
  <2>2. Lost' \subseteq Lost /\ Hands
    BY <2>1, LostKept DEF AbandonedInv
  <2> QED
    BY <2>1, <2>2, NothingLost DEF AbandonedInv
<1>8. CASE UNCHANGED vars
  BY <1>0, <1>8 DEF vars
<1> QED
  BY <1>1, <1>2, <1>3, <1>4, <1>5, <1>6, <1>7, <1>8 DEF Next

(* Pending entries that nobody works on come only from failures, at most a  *)
(* batch for each (streams.go:60-101 never reads a pending entry again, and *)
(* leaves one behind only on an error or at its end), however many API      *)
(* processes share the group, in whatever order they run.                   *)
THEOREM AbandonedOnlyByFailuresHolds ==
  ASSUME IsFiniteSet(Consumers)
  PROVE  Spec => []AbandonedOnlyByFailures
<1>1. Init => AbandonedInv
  <2> SUFFICES ASSUME Init PROVE AbandonedInv
    OBVIOUS
  <2>1. Lost = {} /\ saved.pending = {} /\ \A c \in Consumers : batch[c] = {}
    BY DEF Init, NewRedis, Lost
  <2>2. Cardinality({}) = 0
    BY FS_EmptySet
  <2>3. Losses = 0 /\ Cardinality(Consumers) \in Nat
    BY FS_CardinalityType DEF Init, Losses
  <2>4. BatchSize * Losses = 0 /\ BatchSize * (Losses + Cardinality(Consumers)) \in Nat
    BY <2>3, QueueAssumption
  <2> QED
    BY <2>1, <2>2, <2>4, QueueAssumption DEF AbandonedInv
<1>2. TypeOK /\ LoopInv /\ AbandonedInv /\ [Next]_vars => AbandonedInv'
  BY AbandonedInvStep
<1>3. TypeOK /\ AbandonedInv => AbandonedOnlyByFailures
  <2> SUFFICES ASSUME TypeOK, AbandonedInv PROVE AbandonedOnlyByFailures
    OBVIOUS
  <2>1. /\ Cardinality(Abandoned) <= Cardinality(Lost)
        /\ Cardinality(Abandoned) \in Nat /\ Cardinality(Lost) \in Nat
    BY LostIds, IdsFinite
  <2>2. BatchSize * Losses \in Nat
    BY LossesCounted
  <2>3. Cardinality(Abandoned) <= BatchSize * Losses
    BY <2>1, <2>2 DEF AbandonedInv
  <2> QED
    BY <2>3 DEF AbandonedOnlyByFailures, Losses
<1> QED
  BY <1>1, <1>2, <1>3, QueueInvariant, PTL DEF Spec
=============================================================================
