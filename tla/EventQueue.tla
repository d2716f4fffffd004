----------------------------- MODULE EventQueue -----------------------------
(***************************************************************************)
(* The event pipeline: workers Publish events to a Redis Stream            *)
(* (queue/streams.go), the consumer group "store-workers" delivers them to *)
(* the API processes, and each one turns its messages into facts           *)
(* (store/consumer.go) one by one, acknowledging those it has stored: on   *)
(* one node of a ReplicatedStore at least, or in the memory of the process *)
(* when no store nodes are configured (cmd/api/main.go).                   *)
(*                                                                          *)
(* Entries are numbered in the order of their stream IDs.  Of an entry the *)
(* model keeps the key of the fact that factKey makes of it; two entries   *)
(* of the same commit, pull request or ticket have the same key.           *)
(***************************************************************************)
EXTENDS Integers, FiniteSets, Sequences

CONSTANTS
  Consumers,         \* the API processes
  Keys,              \* the fact keys
  Malformed,         \* an entry whose data does not decode into an Event
  Replicas,          \* the nodes that a fact is written to; 0: STORE_NODES is empty
  BatchSize,         \* Count of XREADGROUP
  MaxEntries,        \* bound: entries ever added to the stream
  MaxFaults,         \* bound: commands and requests that fail
  MaxLates,          \* bound: PUTs applied after their sender gave up on them
  MaxCrashes,        \* bound: ends of API processes
  MaxRedisRestarts   \* bound: restarts of Redis from its last snapshot

ASSUME QueueAssumption ==
  /\ Malformed \notin Keys
  /\ Replicas \in 0..2
  /\ BatchSize \in Nat \ {0}
  /\ MaxEntries \in Nat /\ MaxFaults \in Nat /\ MaxLates \in Nat
  /\ MaxCrashes \in Nat /\ MaxRedisRestarts \in Nat

VARIABLES
  log,      \* every entry ever added: its key or Malformed; the index is the ID
  redis,    \* the IDs in the stream, the group's last-delivered ID, its pending IDs
  saved,    \* the snapshot Redis restarts from
  pc,       \* where Consume of a process is
  batch,    \* the IDs a process has been delivered and not yet processed
  asked,    \* how many targets the handler of the first entry of batch has asked
  heard,    \* one of them has answered that it stored the fact
  facts,    \* the ID of the entry whose payload a store has under a key; 0: none
  late,     \* the PUTs that a node has received and their sender has given up on
  faults, crashes, restarts, lates   \* the bounded events that happened so far

loopVars  == <<pc, batch, asked, heard>>
storeVars == <<facts, late>>
counters  == <<faults, crashes, restarts, lates>>
vars      == <<log, redis, saved, loopVars, storeVars, counters>>

Ids     == 1..MaxEntries
NoGroup == -1

(* The places where facts are: the nodes that hold the replicas of a key,  *)
(* its primary first, or the memory of each API process.                   *)
InMemory == Replicas = 0
Stores   == IF InMemory THEN Consumers ELSE 1..Replicas
Targets  == IF InMemory THEN 1 ELSE Replicas

(* "starting": before XGROUP CREATE; "reading": before the next XREADGROUP;  *)
(* "handling": at the first entry of batch; "returned": Consume gave up, the *)
(* API process runs on without it; "down": no process.                       *)
Locations == {"starting", "reading", "handling", "returned", "down"}

Image == [live : SUBSET Ids, group : {NoGroup} \cup 0..MaxEntries, pending : SUBSET Ids]

TypeOK ==
  /\ log \in Seq(Keys \cup {Malformed}) /\ Len(log) <= MaxEntries
  /\ redis \in Image /\ saved \in Image
  /\ pc \in [Consumers -> Locations]
  /\ batch \in [Consumers -> SUBSET Ids]
  /\ asked \in [Consumers -> 0..Targets] /\ heard \in [Consumers -> BOOLEAN]
  /\ facts \in [Stores -> [Keys -> {0} \cup Ids]]
  /\ late \subseteq [store : Stores, id : Ids]
  /\ faults \in 0..MaxFaults /\ crashes \in 0..MaxCrashes
  /\ restarts \in 0..MaxRedisRestarts /\ lates \in 0..MaxLates

Empty    == [k \in Keys |-> 0]
NewRedis == [live |-> {}, group |-> NoGroup, pending |-> {}]

Init ==
  /\ log = <<>>
  /\ redis = NewRedis /\ saved = NewRedis
  /\ pc = [c \in Consumers |-> "starting"]
  /\ batch = [c \in Consumers |-> {}]
  /\ asked = [c \in Consumers |-> 0] /\ heard = [c \in Consumers |-> FALSE]
  /\ facts = [s \in Stores |-> Empty] /\ late = {}
  /\ faults = 0 /\ crashes = 0 /\ restarts = 0 /\ lates = 0

GoTo(c, l) == pc' = [pc EXCEPT ![c] = l]

Fault ==
  /\ faults < MaxFaults
  /\ faults' = faults + 1
  /\ UNCHANGED <<crashes, restarts, lates>>

-----------------------------------------------------------------------------

(* Faulty variant: the entry gets the ID of the entry before it.            *)
Publish_IdOffByOne(e) ==
  /\ Len(log) < MaxEntries
  /\ log' = Append(log, e)
  /\ redis' = [redis EXCEPT !.live = @ \cup {Len(log)}]
  /\ UNCHANGED <<saved, loopVars, storeVars, counters>>

(* Publish: XADD appends one entry.  A publish that go-redis retries after  *)
(* a lost reply appends the event twice, which is two steps; one that fails *)
(* adds nothing and the worker drops the event.                             *)
Publish(e) ==
  /\ Len(log) < MaxEntries
  /\ log' = Append(log, e)
  /\ redis' = [redis EXCEPT !.live = @ \cup {Len(log) + 1}]
  /\ UNCHANGED <<saved, loopVars, storeVars, counters>>

(* XGROUP CREATE ... 0 MKSTREAM; BUSYGROUP is ignored.                      *)
CreateGroup(c) ==
  /\ pc[c] = "starting"
  /\ redis' = IF redis.group = NoGroup THEN [redis EXCEPT !.group = 0] ELSE redis
  /\ GoTo(c, "reading")
  /\ UNCHANGED <<log, saved, batch, asked, heard, storeVars, counters>>

(* Any other error: Consume returns it and main only logs it.               *)
CreateGroupFails(c) ==
  /\ pc[c] = "starting"
  /\ Fault
  /\ GoTo(c, "returned")
  /\ UNCHANGED <<log, redis, saved, batch, asked, heard, storeVars>>

Undelivered == {i \in redis.live : i > redis.group}

(* XREADGROUP with ">": the oldest entries, at most BatchSize of them, that *)
(* the group has not been given yet.                                        *)
Deliver(D) ==
  /\ redis.group # NoGroup
  /\ D \subseteq Undelivered /\ D # {}
  /\ \A d \in D, i \in Undelivered \ D : d < i
  /\ Cardinality(D) <= BatchSize
  /\ Cardinality(D) < BatchSize => D = Undelivered
  /\ \E last \in D :
       /\ \A d \in D : d <= last
       /\ redis' = [redis EXCEPT !.group = last, !.pending = @ \cup D]

(* Faulty variant: the loop is given its unacknowledged entries again.      *)
Read_PendingAgain(c) ==
  /\ pc[c] = "reading"
  /\ \E D \in SUBSET Ids :
       /\ IF redis.pending = {} THEN Deliver(D)
          ELSE D = redis.pending /\ UNCHANGED redis
       /\ batch' = [batch EXCEPT ![c] = D]
  /\ GoTo(c, "handling")
  /\ UNCHANGED <<log, saved, asked, heard, storeVars, counters>>

Read(c) ==
  /\ pc[c] = "reading"
  /\ \E D \in SUBSET Undelivered :
       /\ Deliver(D)
       /\ batch' = [batch EXCEPT ![c] = D]
  /\ GoTo(c, "handling")
  /\ UNCHANGED <<log, saved, asked, heard, storeVars, counters>>

(* The reply is lost: the entries are pending and no process has them.      *)
ReadReplyLost(c) ==
  /\ pc[c] = "reading"
  /\ \E D \in SUBSET Undelivered : Deliver(D)
  /\ Fault
  /\ UNCHANGED <<log, saved, loopVars, storeVars>>

-----------------------------------------------------------------------------
(* The loop over the messages of a batch *)

First(c, i) == i \in batch[c] /\ \A j \in batch[c] : i <= j

NewSet(c) ==
  /\ asked' = [asked EXCEPT ![c] = 0]
  /\ heard' = [heard EXCEPT ![c] = FALSE]

NextMessage(c, i) ==
  /\ batch' = [batch EXCEPT ![c] = @ \ {i}]
  /\ GoTo(c, IF batch[c] = {i} THEN "reading" ELSE "handling")
  /\ NewSet(c)

Acked(i) == redis' = [redis EXCEPT !.pending = @ \ {i}]

(* The handler of entry i is about to write to a store, or to go on.       *)
Handling(c, i) == pc[c] = "handling" /\ First(c, i) /\ log[i] # Malformed
Writing(c, i)  == Handling(c, i) /\ asked[c] < Targets
Written(c, i)  == Handling(c, i) /\ asked[c] = Targets

Target(c) == IF InMemory THEN c ELSE asked[c] + 1

Store(s, i) == facts' = [facts EXCEPT ![s][log[i]] = i]

Ask(c, answer) ==
  /\ asked' = [asked EXCEPT ![c] = @ + 1]
  /\ heard' = [heard EXCEPT ![c] = @ \/ answer]

(* The handler writes the fact to the next target, which answers: the      *)
(* memory of the process always does.                                      *)
Put(c) ==
  /\ \E i \in Ids : Writing(c, i) /\ Store(Target(c), i)
  /\ Ask(c, TRUE)
  /\ UNCHANGED <<log, redis, saved, pc, batch, late, counters>>

(* Faulty variant: the reply of a node is not looked at.                   *)
PutFails_Unnoticed(c) ==
  /\ ~InMemory
  /\ \E i \in Ids :
       /\ Writing(c, i)
       /\ UNCHANGED storeVars
  /\ Ask(c, TRUE)
  /\ Fault
  /\ UNCHANGED <<log, redis, saved, pc, batch>>

(* The node does not answer in time or reports an error: it has stored the *)
(* fact, never will, or has yet to.                                        *)
PutFails(c) ==
  /\ ~InMemory
  /\ \E i \in Ids :
       /\ Writing(c, i)
       /\ \/ Store(Target(c), i) /\ UNCHANGED late
          \/ UNCHANGED storeVars
          \/ late' = late \cup {[store |-> Target(c), id |-> i]} /\ UNCHANGED facts
  /\ Ask(c, FALSE)
  /\ Fault
  /\ UNCHANGED <<log, redis, saved, pc, batch>>

(* A node goes on with a request whose client is gone.                     *)
ArriveLate ==
  /\ lates < MaxLates
  /\ lates' = lates + 1
  /\ \E r \in late : Store(r.store, r.id) /\ late' = late \ {r}
  /\ UNCHANGED <<log, redis, saved, loopVars, faults, crashes, restarts>>

(* Faulty variant: the entry is acknowledged although the handler failed.   *)
HandleFails_Acks(c) ==
  /\ ~heard[c]
  /\ \E i \in Ids : Written(c, i) /\ Acked(i) /\ NextMessage(c, i)
  /\ UNCHANGED <<log, saved, storeVars, counters>>

(* No target has answered, so the handler returns an error: the entry      *)
(* stays pending and the loop goes on.                                     *)
HandleFails(c) ==
  /\ ~heard[c]
  /\ \E i \in Ids : Written(c, i) /\ NextMessage(c, i)
  /\ UNCHANGED <<log, redis, saved, storeVars, counters>>

(* Faulty variant: an entry that does not decode is left to be retried.     *)
DropMalformed_KeepsTrying(c) ==
  /\ pc[c] = "handling"
  /\ \E i \in Ids : First(c, i) /\ log[i] = Malformed
  /\ UNCHANGED vars

(* XACK; its error is ignored.                                              *)
Acknowledge(i) ==
  \/ Acked(i) /\ UNCHANGED counters
  \/ UNCHANGED redis /\ Fault

(* The entry does not decode: it is acknowledged unhandled.                 *)
DropMalformed(c) ==
  /\ pc[c] = "handling"
  /\ \E i \in Ids :
       /\ First(c, i) /\ log[i] = Malformed
       /\ Acknowledge(i)
       /\ NextMessage(c, i)
  /\ UNCHANGED <<log, saved, storeVars>>

(* Faulty variant: the handled entry is not acknowledged.                   *)
Ack_Forgotten(c) ==
  /\ heard[c]
  /\ \E i \in Ids : Written(c, i) /\ NextMessage(c, i)
  /\ UNCHANGED <<log, redis, saved, storeVars, counters>>

(* Some target has answered: the handler returns nil.                       *)
Ack(c) ==
  /\ heard[c]
  /\ \E i \in Ids :
       /\ Written(c, i)
       /\ Acknowledge(i)
       /\ NextMessage(c, i)
  /\ UNCHANGED <<log, saved, storeVars>>

-----------------------------------------------------------------------------
(* Processes and Redis come and go *)

(* The process is killed, or its main returns on a signal while Consume is  *)
(* anywhere in its loop: a PUT under way may still be applied by its node,  *)
(* and the memory of the process is gone.                                   *)
Crash(c) ==
  /\ pc[c] # "down"
  /\ crashes < MaxCrashes
  /\ crashes' = crashes + 1
  /\ GoTo(c, "down")
  /\ batch' = [batch EXCEPT ![c] = {}]
  /\ NewSet(c)
  /\ \/ UNCHANGED late
     \/ /\ ~InMemory
        /\ \E i \in Ids :
             Writing(c, i) /\ late' = late \cup {[store |-> Target(c), id |-> i]}
  /\ facts' = IF InMemory THEN [facts EXCEPT ![c] = Empty] ELSE facts
  /\ UNCHANGED <<log, redis, saved, faults, restarts, lates>>

Restart(c) ==
  /\ pc[c] = "down"
  /\ GoTo(c, "starting")
  /\ UNCHANGED <<log, redis, saved, batch, asked, heard, storeVars, counters>>

RedisSaves ==
  /\ restarts < MaxRedisRestarts
  /\ saved' = redis
  /\ UNCHANGED <<log, redis, loopVars, storeVars, counters>>

RedisRestarts ==
  /\ restarts < MaxRedisRestarts
  /\ restarts' = restarts + 1
  /\ redis' = saved
  /\ UNCHANGED <<log, saved, loopVars, storeVars, faults, crashes, lates>>

-----------------------------------------------------------------------------

ConsumeStep(c) ==
  \/ CreateGroup(c) \/ CreateGroupFails(c)
  \/ Read(c) \/ ReadReplyLost(c)
  \/ Put(c) \/ PutFails(c) \/ HandleFails(c) \/ DropMalformed(c) \/ Ack(c)

Next ==
  \/ \E e \in Keys \cup {Malformed} : Publish(e)
  \/ \E c \in Consumers : ConsumeStep(c) \/ Crash(c) \/ Restart(c)
  \/ ArriveLate
  \/ RedisSaves \/ RedisRestarts

Spec == Init /\ [][Next]_vars

(* A consumer whose process runs goes on with its loop.  Nothing makes a    *)
(* worker publish, and nothing restarts a process.                          *)
FairSpec == Spec /\ \A c \in Consumers : WF_vars(ConsumeStep(c))

-----------------------------------------------------------------------------

HasGot(i) == i <= redis.group

(* The entries of a Redis state that were delivered and acknowledged.      *)
Settled(r) == {i \in r.live \ r.pending : i <= r.group}

Reflected(i) == log[i] # Malformed => \E s \in Stores : facts[s][log[i]] >= i

(* So far no node has applied a PUT after its sender gave up on it, and no *)
(* process has lost the facts in its memory.                               *)
Reliable == lates = 0 /\ (InMemory => crashes = 0)

(* "Acks messages only after handler succeeds" (streams.go:49): an entry   *)
(* that was delivered and is no longer pending is reflected in the store,  *)
(* some replica of its key holds its payload or a later one, whatever      *)
(* commands and requests fail and however Redis and, with store nodes, the *)
(* API process restart.  A PUT that arrives late may put an older payload  *)
(* there, and the facts of an in-memory store end with their process.      *)
AckImpliesStored == Reliable => \A i \in Settled(redis) : Reflected(i)

(* The inductive invariant behind it, for one API process: the entries of  *)
(* the batch come after all that is settled, now or in the snapshot, so    *)
(* that storing them, even a second time, cannot undo a settled entry; and *)
(* the one that is about to be acknowledged is reflected.                  *)
SettledBeforeBatch ==
  /\ saved.group <= redis.group /\ redis.group <= Len(log)
  /\ redis.live \cup saved.live \subseteq 1..Len(log)
  /\ \A c \in Consumers :
       /\ batch[c] \subseteq 1..Len(log)
       /\ \A i \in batch[c], j \in Settled(redis) \cup Settled(saved) : j < i
  /\ Reliable =>
       /\ \A j \in Settled(redis) \cup Settled(saved) : Reflected(j)
       /\ \A c \in Consumers, i \in Ids : First(c, i) /\ heard[c] => Reflected(i)

(* The payload that a store has under a key is never replaced by an older  *)
(* event's, with one API process and a Redis that has not forgotten what   *)
(* it delivered: not by a PUT that is sent again, to another replica, or   *)
(* after failures and restarts.  Only a PUT that arrives late does that,   *)
(* and an in-memory store that ends with its process.                      *)
FactsNeverRegress ==
  [][restarts = 0 /\ lates' = lates /\ (InMemory => crashes' = crashes) =>
       \A s \in Stores, k \in Keys : facts'[s][k] >= facts[s][k]]_facts

(* An entry leaves the hands of the consumers unacknowledged only through a *)
(* failure, at most a batch of them each time (a restart of Redis revives   *)
(* the batch each process had at the snapshot): pending entries that nobody *)
(* works on, which nothing ever reads again, do not pile up otherwise.      *)
Abandoned == redis.pending \ UNION {batch[c] : c \in Consumers}
AbandonedOnlyByFailures ==
  Cardinality(Abandoned) <=
    BatchSize * (faults + crashes + restarts * Cardinality(Consumers))

Consuming(c) == pc[c] \notin {"down", "returned"}

(* Entries do not get stuck behind one another: a failed, malformed or      *)
(* abandoned entry never keeps the later ones from being delivered, while   *)
(* Consume runs somewhere and Redis keeps the group.                        *)
EveryEntryDelivered ==
  (<>[] \E c \in Consumers : Consuming(c)) =>
    \A i \in Ids : (i \in redis.live) ~> HasGot(i)

(* "if a consumer crashes before acking, the message stays in the pending   *)
(* list and will be redelivered" (docs/02-redis-streams.md:42): a pending   *)
(* entry is settled in the end while Consume runs somewhere.                *)
PendingRedelivered ==
  (<>[] \E c \in Consumers : Consuming(c)) =>
    \A i \in Ids : (i \in redis.pending) ~> (i \notin redis.pending)
=============================================================================
