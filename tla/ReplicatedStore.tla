-------------------------- MODULE ReplicatedStore --------------------------
(***************************************************************************)
(* The replicated knowledge store (store/replication.go): clients in the   *)
(* API and coordinator processes send each operation to the store nodes    *)
(* one request at a time (store/nodeclient.go, nodeserver.go), and every    *)
(* node applies the requests it gets to its own database                   *)
(* (store/badger.go).  A request may fail, fail after it was applied, or   *)
(* be given up by the client and applied later; nodes crash and restart.   *)
(*                                                                          *)
(* Facts are numbered by the Set call that wrote them.                     *)
(***************************************************************************)
EXTENDS Integers, FiniteSets

CONSTANTS
  Nodes,         \* the store nodes
  Keys,          \* the fact keys
  Clients,       \* the goroutines that call the store
  Primary,       \* [Keys -> Nodes]: the first node of Ring.Replicas
  Replica,       \* [Keys -> Nodes]: the second node of Ring.Replicas
  WritesTo,      \* [Clients -> SUBSET Keys]: the keys a client sets
  Deletes,       \* whether those who set a key also delete it
  Skew,          \* [Nodes -> Nat]: how far a node's clock is ahead
  Gap,           \* the least time between two facts that are stored
  MaxWrites,     \* bound: Set and Delete calls
  MaxFaults,     \* bound: requests that fail on a running node
  MaxLate,       \* bound: requests applied after the client gave up on them
  MaxCrashes     \* bound: crashes of nodes

ASSUME StoreAssumption ==
  /\ Keys # {}
  /\ Primary \in [Keys -> Nodes] /\ Replica \in [Keys -> Nodes]
  /\ \A k \in Keys : Primary[k] # Replica[k]
  /\ WritesTo \in [Clients -> SUBSET Keys]
  /\ Deletes \in BOOLEAN
  /\ Skew \in [Nodes -> Nat] /\ Gap \in Nat \ {0}
  /\ MaxWrites \in Nat /\ MaxFaults \in Nat /\ MaxLate \in Nat /\ MaxCrashes \in Nat

VARIABLES
  disk,    \* the database of every node: a fact or NoFact under each key
  clock,   \* the time, advanced by every stored fact
  up,      \* the nodes that run
  op,      \* the operation every client is in
  writes,  \* Set and Delete calls so far; the last number given to a fact
  acked,   \* the fact of the last call on a key that Set returned nil for; 0 if
           \* none, or once a request to delete the key is under way
  late,    \* requests to set or delete that may still reach a node
  faults, lates, crashes   \* the bounded events that happened so far

counters == <<faults, lates, crashes>>
vars     == <<disk, clock, up, op, writes, acked, late, counters>>

NoFact  == [val |-> 0, ver |-> 0]
Targets(k) == {Primary[k], Replica[k]}

(* todo: the nodes the operation has not asked yet; errs: how many Sets of  *)
(* the call failed; floor: acked when the call began, 0 for what was deleted *)
(* since; missed: a node did not answer a read, or a late delete reached the *)
(* key of a Set; found: the facts collected by Get or List.                  *)
Idle == [kind |-> "idle"]
Call(kind, k, val, todo) ==
  [kind |-> kind, key |-> k, val |-> val, todo |-> todo, errs |-> 0,
   prefix |-> {}, found |-> [j \in Keys |-> NoFact], missed |-> FALSE,
   floor |-> IF kind \in {"get", "list"} THEN acked ELSE [j \in Keys |-> 0]]

Fact == [val : 0..MaxWrites, ver : Nat]
Calls == [kind : {"set", "delete", "get", "list"}, key : Keys, val : 0..MaxWrites,
          todo : SUBSET Nodes, errs : 0..2, prefix : SUBSET Keys, floor : [Keys -> 0..MaxWrites],
          missed : BOOLEAN, found : [Keys -> Fact]]
Requests == [node : Nodes, key : Keys, val : 0..MaxWrites]

TypeOK ==
  /\ disk \in [Nodes -> [Keys -> Fact]]
  /\ clock \in Nat
  /\ up \subseteq Nodes
  /\ op \in [Clients -> Calls \cup {Idle}]
  /\ writes \in 0..MaxWrites
  /\ acked \in [Keys -> 0..MaxWrites]
  /\ late \subseteq Requests
  /\ faults \in 0..MaxFaults /\ lates \in 0..MaxLate /\ crashes \in 0..MaxCrashes

Init ==
  /\ disk = [n \in Nodes |-> [k \in Keys |-> NoFact]]
  /\ clock = 0
  /\ up = Nodes
  /\ op = [c \in Clients |-> Idle]
  /\ writes = 0
  /\ acked = [k \in Keys |-> 0]
  /\ late = {}
  /\ faults = 0 /\ lates = 0 /\ crashes = 0

-----------------------------------------------------------------------------
(* A request at a node *)

(* BadgerStore.Set overwrites what is there; Version and CreatedAt are read  *)
(* from the node's own clock.  BadgerStore.Delete removes it.  val 0 deletes. *)
Apply(n, k, val) ==
  IF val = 0
    THEN /\ disk' = [disk EXCEPT ![n][k] = NoFact]
         /\ UNCHANGED clock
    ELSE /\ clock' = clock + Gap
         /\ disk' = [disk EXCEPT ![n][k] = [val |-> val, ver |-> clock' + Skew[n]]]

Fault ==
  /\ faults < MaxFaults
  /\ faults' = faults + 1
  /\ UNCHANGED <<lates, crashes>>

(* The request is answered: applied, 204.                                   *)
Answered(n, k, val) ==
  /\ n \in up
  /\ Apply(n, k, val)
  /\ UNCHANGED <<late, counters>>

(* The client gets an error: the node is down; it runs but the request or   *)
(* its reply is lost, or it answers 500; or the client gives up after its   *)
(* timeout (or its context is cancelled) and the request is still under way. *)
Errs(n, k, val) ==
  \/ /\ n \notin up
     /\ UNCHANGED <<disk, clock, late, counters>>
  \/ /\ n \in up
     /\ Fault
     /\ Apply(n, k, val) \/ UNCHANGED <<disk, clock>>
     /\ UNCHANGED late
  \/ /\ n \in up
     /\ lates < MaxLate
     /\ lates' = lates + 1
     /\ late' = late \cup {[node |-> n, key |-> k, val |-> val]}
     /\ UNCHANGED <<disk, clock, faults, crashes>>

(* A delete of key k: what was acknowledged is to be found no more, nor is  *)
(* what a Set under way stores before the delete.                           *)
Forget(k) ==
  [c \in Clients |->
     IF op[c] = Idle THEN Idle
     ELSE [op[c] EXCEPT !.floor[k] = 0,
                        !.missed = @ \/ (op[c].kind = "set" /\ op[c].key = k)]]

(* BadgerStore ignores the context: the request is applied all the same.    *)
ArriveLate ==
  \E r \in late :
    /\ Apply(r.node, r.key, r.val)
    /\ late' = late \ {r}
    /\ IF r.val = 0
         THEN acked' = [acked EXCEPT ![r.key] = 0] /\ op' = Forget(r.key)
         ELSE UNCHANGED <<acked, op>>
    /\ UNCHANGED <<up, writes, counters>>

-----------------------------------------------------------------------------
(* Set and Delete *)

Begin(c, call) ==
  /\ op[c] = Idle
  /\ op' = [op EXCEPT ![c] = call]

SetBegin(c) ==
  \E k \in WritesTo[c] :
    /\ writes < MaxWrites
    /\ writes' = writes + 1
    /\ Begin(c, Call("set", k, writes + 1, Targets(k)))
    /\ UNCHANGED <<disk, clock, up, acked, late, counters>>

DeleteBegin(c) ==
  /\ Deletes
  /\ \E k \in WritesTo[c] :
       /\ writes < MaxWrites
       /\ writes' = writes + 1
       /\ acked' = [acked EXCEPT ![k] = 0]
       /\ op[c] = Idle
       /\ op' = [Forget(k) EXCEPT ![c] = Call("delete", k, 0, Targets(k))]
       /\ UNCHANGED <<disk, clock, up, late, counters>>

(* Faulty variant: reads ask the replica first, to spare the primary.       *)
NextTarget_ReadsReplica(c) ==
  IF op[c].kind = "get" /\ Replica[op[c].key] \in op[c].todo
    THEN Replica[op[c].key] ELSE CHOOSE n \in op[c].todo : \A m \in op[c].todo :
                                   n = m \/ n = Primary[op[c].key]

(* The targets are asked in the order of Ring.Replicas.                     *)
NextTarget(c) ==
  IF Primary[op[c].key] \in op[c].todo THEN Primary[op[c].key] ELSE Replica[op[c].key]

Asked(c, n) == op[c].todo \ {n}

(* Faulty variant: a target that failed is asked again.                     *)
SetAsks_SameTargetAgain(c) ==
  /\ op[c].kind \in {"set", "delete"} /\ op[c].todo # {}
  /\ LET n == NextTarget(c) IN
       \/ /\ Answered(n, op[c].key, op[c].val)
          /\ op' = [op EXCEPT ![c].todo = Asked(c, n)]
       \/ /\ Errs(n, op[c].key, op[c].val)
          /\ op' = [op EXCEPT ![c].errs = @ + 1]
  /\ UNCHANGED <<up, writes, acked>>

(* Faulty variant: one answer is enough, the other target is not asked.     *)
SetAsks_OneAnswerIsEnough(c) ==
  /\ op[c].kind \in {"set", "delete"} /\ op[c].todo # {}
  /\ LET n == NextTarget(c) IN
       \/ /\ Answered(n, op[c].key, op[c].val)
          /\ op' = [op EXCEPT ![c].todo = {}]
       \/ /\ Errs(n, op[c].key, op[c].val)
          /\ op' = [op EXCEPT ![c].todo = Asked(c, n), ![c].errs = @ + 1]
  /\ UNCHANGED <<up, writes, acked>>

(* One target of Set, or of Delete, which ignores the error.                *)
SetAsks(c) ==
  /\ op[c].kind \in {"set", "delete"} /\ op[c].todo # {}
  /\ LET n == NextTarget(c) IN
       \/ /\ Answered(n, op[c].key, op[c].val)
          /\ op' = [op EXCEPT ![c].todo = Asked(c, n)]
       \/ /\ Errs(n, op[c].key, op[c].val)
          /\ op' = [op EXCEPT ![c].todo = Asked(c, n), ![c].errs = @ + 1]
  /\ UNCHANGED <<up, writes, acked>>

Return(c) == op' = [op EXCEPT ![c] = Idle]

(* Faulty variant: Set succeeds whatever the replicas answered.             *)
SetReturns_AlwaysNil(c) ==
  /\ op[c].kind \in {"set", "delete"} /\ op[c].todo = {}
  /\ acked' = IF op[c].kind = "set"
                THEN [acked EXCEPT ![op[c].key] = op[c].val] ELSE acked
  /\ Return(c)
  /\ UNCHANGED <<disk, clock, up, writes, late, counters>>

(* Set returns nil unless every target failed.                              *)
SetReturns(c) ==
  /\ op[c].kind \in {"set", "delete"} /\ op[c].todo = {}
  /\ acked' = IF op[c].kind = "set" /\ op[c].errs < 2 /\ ~op[c].missed
                THEN [acked EXCEPT ![op[c].key] = op[c].val] ELSE acked
  /\ Return(c)
  /\ UNCHANGED <<disk, clock, up, writes, late, counters>>

-----------------------------------------------------------------------------
(* Get and List *)

ReadOnly == UNCHANGED <<disk, clock, up, writes, acked, late>>

GetBegin(c) ==
  /\ \E k \in Keys : Begin(c, Call("get", k, 0, Targets(k)))
  /\ ReadOnly /\ UNCHANGED counters

(* The request to node n fails.                                             *)
NoAnswer(n) == IF n \in up THEN Fault ELSE UNCHANGED counters

(* Faulty variant: "not found" is taken for an answer.                      *)
GetAsks_TrustsNotFound(c) ==
  /\ op[c].kind = "get" /\ op[c].todo # {}
  /\ LET n == NextTarget(c)
         k == op[c].key IN
       \/ /\ n \in up
          /\ op' = [op EXCEPT ![c].todo = {}, ![c].found[k] = disk[n][k]]
          /\ UNCHANGED counters
       \/ /\ NoAnswer(n)
          /\ op' = [op EXCEPT ![c].todo = Asked(c, n), ![c].missed = TRUE]
  /\ ReadOnly

(* The next target is asked: the first fact found is the result; a node     *)
(* that has none, or does not answer, leads to the next one.                *)
GetAsks(c) ==
  /\ op[c].kind = "get" /\ op[c].todo # {}
  /\ LET n == NextTarget(c)
         k == op[c].key IN
       \/ /\ n \in up
          /\ op' = [op EXCEPT
                      ![c].todo = IF disk[n][k] # NoFact THEN {} ELSE Asked(c, n),
                      ![c].found[k] = disk[n][k]]
          /\ UNCHANGED counters
       \/ /\ NoAnswer(n)
          /\ op' = [op EXCEPT ![c].todo = Asked(c, n), ![c].missed = TRUE]
  /\ ReadOnly

(* List of the keys with some prefix.                                       *)
ListCall(prefix) ==
  [Call("list", CHOOSE k \in Keys : TRUE, 0, Nodes) EXCEPT !.prefix = prefix]

ListBegin(c) ==
  /\ Begin(c, ListCall(Keys))
  /\ ReadOnly /\ UNCHANGED counters

(* Faulty variant: the last node's facts win.                               *)
Merge_LastWins(found, facts, prefix) ==
  [k \in Keys |-> IF k \in prefix /\ facts[k] # NoFact THEN facts[k] ELSE found[k]]

Merge(found, facts, prefix) ==
  [k \in Keys |-> IF k \in prefix /\ facts[k].ver > found[k].ver
                    THEN facts[k] ELSE found[k]]

(* Some node (the clients are in a Go map) is asked for all it has with the *)
(* prefix: the fact with the highest version is kept.                                   *)
ListAsks(c) ==
  /\ op[c].kind = "list"
  /\ \E n \in op[c].todo :
       \/ /\ n \in up
          /\ op' = [op EXCEPT ![c].todo = Asked(c, n),
                              ![c].found = Merge(@, disk[n], op[c].prefix)]
          /\ UNCHANGED counters
       \/ /\ NoAnswer(n)
          /\ op' = [op EXCEPT ![c].todo = Asked(c, n), ![c].missed = TRUE]
  /\ ReadOnly

ReadReturns(c) ==
  /\ op[c].kind \in {"get", "list"} /\ op[c].todo = {}
  /\ Return(c)
  /\ ReadOnly /\ UNCHANGED counters

-----------------------------------------------------------------------------

(* The node's process dies, or ends on a signal: main returns as soon as    *)
(* Shutdown begins (cmd/store/main.go:36-46) and Badger is closed.  Requests *)
(* under way die with it.                                                    *)
NodeCrash(n) ==
  /\ n \in up
  /\ crashes < MaxCrashes
  /\ crashes' = crashes + 1
  /\ up' = up \ {n}
  /\ late' = {r \in late : r.node # n}
  /\ UNCHANGED <<disk, clock, op, writes, acked, faults, lates>>

NodeRestart(n) ==
  /\ n \notin up
  /\ up' = up \cup {n}
  /\ UNCHANGED <<disk, clock, op, writes, acked, late, counters>>

ClientStep(c) ==
  \/ SetAsks(c) \/ SetReturns(c) \/ GetAsks(c) \/ ListAsks(c) \/ ReadReturns(c)

Next ==
  \/ \E c \in Clients :
       \/ SetBegin(c) \/ DeleteBegin(c) \/ GetBegin(c) \/ ListBegin(c)
       \/ ClientStep(c)
  \/ ArriveLate
  \/ \E n \in Nodes : NodeCrash(n) \/ NodeRestart(n)

Spec == Init /\ [][Next]_vars

(* An operation that has begun goes on: requests are answered or time out,  *)
(* and those under way arrive.                                              *)
FairSpec ==
  Spec /\ WF_vars(ArriveLate) /\ \A c \in Clients : WF_vars(ClientStep(c))

-----------------------------------------------------------------------------

Changing(k) == \E c \in Clients : op[c].kind \in {"set", "delete"} /\ op[c].key = k

(* "If one fails, we still succeed ... the other replica holds the data"    *)
(* (docs/04-replication.md:30): once Set has returned nil, and until the    *)
(* key is set or deleted again, one of its two nodes holds the fact, or a   *)
(* later one whose Set failed.  Holds with one writer per key as long as no *)
(* request is applied after its client gave up on it.                       *)
AckedOnAReplica ==
  lates = 0 =>
    \A k \in Keys : acked[k] # 0 /\ ~Changing(k) =>
      \E n \in Targets(k) : disk[n][k].val >= acked[k]

(* The two nodes of a key agree on its fact, unless somebody changes it or   *)
(* requests failed: then they agree again with the next Set or Delete that   *)
(* both answer (replication.go:37-49, 66-78), whatever they missed before.   *)
(* "Replicas catch up" (docs/04-replication.md:47) only in this way.  Holds  *)
(* with one writer per key as long as no request is applied late.            *)
NodesAgree ==
  lates = 0 =>
    /\ \A c \in Clients :
         op[c].kind \in {"set", "delete"} /\ op[c].todo = {} /\ op[c].errs = 0 =>
           \A n \in Targets(op[c].key) : disk[n][op[c].key].val = op[c].val
    /\ faults = 0 /\ crashes = 0 =>
         \A k \in Keys : ~Changing(k) =>
           disk[Primary[k]][k].val = disk[Replica[k]][k].val

(* A read that both nodes of a key answer does not miss what was            *)
(* acknowledged before it began, even if one of them missed the write: Get  *)
(* goes on to the replica when the primary has no fact                      *)
(* (replication.go:58-62).                                                  *)
GetFindsAcked ==
  \A c \in Clients :
    op[c].kind = "get" /\ op[c].todo = {} /\ ~op[c].missed =>
      (op[c].floor[op[c].key] # 0 => op[c].found[op[c].key] # NoFact)

(* A List that all nodes answer returns, for every key, what was            *)
(* acknowledged before it began or something later, even if one of the      *)
(* nodes has older facts and the nodes are asked while they change          *)
(* (replication.go:81-101), as long as a key has one writer, no request is  *)
(* applied late and the nodes' clocks are less than Gap apart.              *)
ListFindsNewest ==
  lates = 0 /\ (\A m, n \in Nodes : Skew[m] < Skew[n] + Gap) =>
    \A c \in Clients :
      op[c].kind = "list" /\ op[c].todo = {} /\ ~op[c].missed =>
        \A k \in op[c].prefix : op[c].found[k].val >= op[c].floor[k]
=============================================================================
