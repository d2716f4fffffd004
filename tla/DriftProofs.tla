---------------------------- MODULE DriftProofs ----------------------------
(***************************************************************************)
(* Proofs about Drift for any nodes, commits, tickets and detectors, and   *)
(* any numbers of passes, calls, failing requests and crashes.             *)
(***************************************************************************)
EXTENDS Drift, StoreProofs, FiniteSetTheorems

(* Who calls what: the consumer sets commits and tickets, the detectors     *)
(* list them or set alerts, nobody deletes.  A list has the prefix of its   *)
(* phase, every stored fact has a version, and while there was one crash at *)
(* most there is one node down at most.                                     *)
CallRole(c, call) ==
  call # Idle => \/ c = Api /\ call.kind = "set"
                 \/ c \in Detectors /\ call.kind \in {"set", "list"}

PassRole(call, p) ==
  /\ p.at \in {"commits", "tickets"} <=> call.kind = "list"
  /\ p.at = "waiting" => call = Idle
  /\ p.at = "commits" => call.prefix = ListedFirst
  /\ p.at = "tickets" => call.prefix = ListedNext

RolesInv ==
  /\ \A c \in Clients : CallRole(c, op[c])
  /\ \A d \in Detectors : PassRole(op[d], pass[d])
  /\ \A r \in late : r.val # 0
  /\ \A n \in Nodes, k \in Keys : disk[n][k] # NoFact => disk[n][k].ver > 0
  /\ crashes = 0 => up = Nodes
  /\ crashes <= 1 => \A m, n \in Nodes \ up : m = n

BaseInv == TypeInv /\ DTypeOK /\ RolesInv

(* The keys of the alerts are none of the facts', and the consumer is no    *)
(* detector.                                                                *)
LEMMA DriftConstants ==
  /\ Commits \subseteq Keys /\ Tickets \subseteq Keys /\ Commits \cap Tickets = {}
  /\ \A x \in Commits \cup Tickets : AlertOf[x] \in Keys \ (Commits \cup Tickets)
  /\ Detectors \subseteq Clients /\ Api \in Clients /\ Api \notin Detectors
  /\ 1 \in 0..MaxWrites
  /\ ListedFirst = Commits /\ ListedNext = Tickets
  /\ ListedFirst \in SUBSET Keys /\ ListedNext \in SUBSET Keys
BY DriftAssumption, StoreAssumption DEF ListedFirst, ListedNext

(* A fact that a request stores has a version (badger.go:35).               *)
LEMMA RequestVersions ==
  ASSUME TypeOK, NEW n \in Nodes, NEW k \in Keys, NEW v \in 0..MaxWrites,
         Answered(n, k, v) \/ Errs(n, k, v),
         \A m \in Nodes, j \in Keys : disk[m][j] # NoFact => disk[m][j].ver > 0
  PROVE  \A m \in Nodes, j \in Keys : disk'[m][j] # NoFact => disk'[m][j].ver > 0
<1>1. \/ disk' = disk
      \/ disk' = [disk EXCEPT ![n][k] = NoFact]
      \/ disk' = [disk EXCEPT ![n][k] = [val |-> v, ver |-> clock + Gap + Skew[n]]]
  BY RequestFacts
<1>2. clock + Gap + Skew[n] > 0
  BY FactNumbers DEF TypeOK
<1> DEFINE f == [val |-> v, ver |-> clock + Gap + Skew[n]]
<1>3. f.ver > 0
  BY <1>2
<1> HIDE DEF f
<1> QED
  BY <1>1, <1>3 DEF TypeOK, f

(* Where a pass may be.                                                     *)
LEMMA PassFields ==
  ASSUME DTypeOK, NEW d \in Detectors
  PROVE  /\ pass[d] \in Pass
         /\ pass[d].at \in {"waiting", "commits", "tickets", "raising"}
         /\ pass[d].found \in [Keys -> Fact] /\ pass[d].todo \in SUBSET (Commits \cup Tickets)
         /\ pass[d].known \in SUBSET Commits /\ pass[d].clean \in BOOLEAN
         /\ pass[d].begun \in Nat
BY DEF DTypeOK, Pass

LEMMA NoPassType ==
  /\ NoPass \in Pass /\ NoPass.at = "waiting" /\ NoPass.todo = {} /\ NoPass.clean = FALSE
  /\ NoPass.begun = 0
  /\ NoPass.found = [k \in Keys |-> NoFact] /\ NoPass.found \in [Keys -> Fact]
BY FactNumbers DEF NoPass, Pass

(* A step of one client, and of its pass, leaves the others in their roles. *)
LEMMA OneRoleChanges ==
  ASSUME BaseInv, NEW c \in Clients, NEW call \in Calls \cup {Idle}, Loop(c, call),
         op' = [op EXCEPT ![c] = call], CallRole(c, call),
         \/ pass' = pass
         \/ c \in Detectors /\ \E p \in Pass : pass' = [pass EXCEPT ![c] = p],
         c \in Detectors => PassRole(call, pass'[c])
  PROVE  /\ op' \in [Clients -> Calls \cup {Idle}] /\ LoopInv'
         /\ pass' \in [Detectors -> Pass]
         /\ \A b \in Clients : CallRole(b, op'[b])
         /\ \A d \in Detectors : PassRole(op'[d], pass'[d])
<1>1. /\ op' \in [Clients -> Calls \cup {Idle}] /\ LoopInv'
      /\ op'[c] = call /\ \A b \in Clients \ {c} : op'[b] = op[b]
  BY OneCallChanges DEF BaseInv, TypeInv
<1>2. /\ pass' \in [Detectors -> Pass]
      /\ \A d \in Detectors \ {c} : pass'[d] = pass[d]
  BY DEF BaseInv, DTypeOK
<1>3. \A b \in Clients : CallRole(b, op'[b])
  BY <1>1 DEF BaseInv, RolesInv
<1>4. ASSUME NEW d \in Detectors PROVE PassRole(op'[d], pass'[d])
  <2>1. CASE d = c
    BY <1>1, <2>1
  <2>2. CASE d # c
    <3>1. op'[d] = op[d] /\ pass'[d] = pass[d]
      BY <1>1, <1>2, <2>2, DriftConstants
    <3> QED
      BY <3>1 DEF BaseInv, RolesInv
  <2> QED
    BY <2>1, <2>2
<1> QED
  BY <1>1, <1>2, <1>3, <1>4

(* What DTypeOK says of the calls follows from the roles.                   *)
LEMMA RolesType ==
  ASSUME mentions \in [Commits -> SUBSET Tickets], pass' \in [Detectors -> Pass],
         mentions' = mentions,
         \A d \in Detectors : PassRole(op'[d], pass'[d]),
         cancelled' \subseteq Detectors, ages' \in 0..MaxAges, passes' \in 0..MaxPasses,
         early' \subseteq Commits, old' \subseteq Tickets
  PROVE  DTypeOK'
BY DEF DTypeOK, PassRole

(* The consumer begins to set a commit or a ticket (consumer.go:24).        *)
LEMMA SetBeginRole ==
  ASSUME BaseInv, SetBegin(Api), pass' = pass
  PROVE  /\ TypeInv' /\ \A b \in Clients : CallRole(b, op'[b])
         /\ \A d \in Detectors : PassRole(op'[d], pass'[d])
         /\ late' = late /\ disk' = disk /\ up' = up /\ UNCHANGED counters
         /\ acked' = acked /\ clock' = clock
         /\ op'[Api].kind = "set" /\ op'[Api].key \in Commits \cup Tickets
         /\ op'[Api].todo = Targets(op'[Api].key) /\ op'[Api].missed = FALSE
         /\ \A b \in Clients \ {Api} : op'[b] = op[b]
<1>1. PICK k \in WritesTo[Api] :
        /\ writes < MaxWrites /\ writes' = writes + 1 /\ op[Api] = Idle
        /\ op' = [op EXCEPT ![Api] = Call("set", k, writes + 1, Targets(k))]
        /\ UNCHANGED <<disk, clock, up, acked, late, counters>>
  BY DEF SetBegin, Begin
<1> DEFINE call == Call("set", k, writes + 1, Targets(k))
<1>2. call \in Calls /\ Loop(Api, call)
  BY <1>1, SetBeginCall, DriftConstants DEF BaseInv, TypeInv
<1>3. /\ call.kind = "set" /\ call.key = k /\ call.todo = Targets(k)
      /\ call.missed = FALSE /\ call # Idle
  BY DEF Call, Idle
<1> HIDE DEF call
<1>4. CallRole(Api, call)
  BY <1>3 DEF CallRole
<1>5. op' = [op EXCEPT ![Api] = call]
  BY <1>1 DEF call
<1>6. /\ \A b \in Clients : CallRole(b, op'[b])
      /\ \A d \in Detectors : PassRole(op'[d], pass'[d])
  BY <1>2, <1>4, <1>5, OneRoleChanges, DriftConstants
<1>7. TypeInv'
  <2>1. Next
    BY DriftConstants DEF Next
  <2> QED
    BY <2>1, NextTypeInv DEF BaseInv
<1>8. op'[Api] = call /\ \A b \in Clients \ {Api} : op'[b] = op[b]
  BY <1>2, <1>5, OneCallChanges, DriftConstants DEF BaseInv, TypeInv
<1>9. k \in Commits \cup Tickets
  BY DriftAssumption
<1> QED
  BY <1>1, <1>3, <1>6, <1>7, <1>8, <1>9

(* A node gives no answer: it is down, or this is a failure of its own.     *)
NodeFails(n) ==
  \/ n \notin up /\ UNCHANGED counters
  \/ n \in up /\ crashes' = crashes /\ faults' + lates' = faults + lates + 1

(* A request to set a key adds its fact to one node, now or late, and       *)
(* removes none.                                                            *)
LEMMA SetRequest ==
  ASSUME TypeOK, NEW n \in Nodes, NEW k \in Keys, NEW v \in 1..MaxWrites,
         Answered(n, k, v) \/ Errs(n, k, v)
  PROVE  /\ \A m \in Nodes, j \in Keys :
              /\ disk[m][j] # NoFact => disk'[m][j] # NoFact
              /\ disk'[m][j] # NoFact => disk[m][j] # NoFact \/ (m = n /\ j = k)
         /\ \A r \in late' : r \in late \/ (r.key = k /\ r.val = v)
         /\ \/ disk'[n][k] # NoFact /\ UNCHANGED counters
            \/ NodeFails(n)
         /\ clock' >= clock
<1>0. v \in 0..MaxWrites /\ v # 0 /\ clock \in Nat
  BY DEF TypeOK
<1>1. \/ disk' = disk /\ clock' = clock
      \/ /\ clock' = clock + Gap
         /\ disk' = [disk EXCEPT ![n][k] = [val |-> v, ver |-> clock + Gap + Skew[n]]]
  BY <1>0, RequestFacts
<1>2. [val |-> v, ver |-> clock + Gap + Skew[n]] # NoFact
  BY <1>0 DEF NoFact
<1>3. /\ \A m \in Nodes, j \in Keys :
           /\ disk[m][j] # NoFact => disk'[m][j] # NoFact
           /\ disk'[m][j] # NoFact => disk[m][j] # NoFact \/ (m = n /\ j = k)
  BY <1>1, <1>2 DEF TypeOK
<1>4. late' \subseteq late \cup {[node |-> n, key |-> k, val |-> v]}
  BY DEF Answered, Errs
<1>5. \A r \in late' : r \in late \/ (r.key = k /\ r.val = v)
  BY <1>4
<1>6. CASE Answered(n, k, v)
  <2>1. disk'[n][k].val = v
    BY <1>0, <1>6, RequestChanges
  <2> QED
    BY <1>0, <1>1, <1>3, <1>5, <1>6, <2>1, FactNumbers DEF Answered, NoFact
<1>7. CASE Errs(n, k, v)
  <2>1. NodeFails(n)
    BY <1>7, StoreAssumption DEF Errs, NodeFails, Fault, counters, TypeOK
  <2> QED
    BY <1>0, <1>1, <1>3, <1>5, <2>1, FactNumbers
<1> QED
  BY <1>6, <1>7

(* One target of a Set is asked (replication.go:41-48), by the consumer or   *)
(* a detector.                                                               *)
LEMMA SetAsksRole ==
  ASSUME BaseInv, NEW c \in Clients, SetAsks(c), pass' = pass
  PROVE  /\ TypeInv' /\ \A b \in Clients : CallRole(b, op'[b])
         /\ \A d \in Detectors : PassRole(op'[d], pass'[d])
         /\ \A r \in late' : r.val # 0
         /\ \A n \in Nodes, k \in Keys : disk'[n][k] # NoFact => disk'[n][k].ver > 0
         /\ up' = up /\ acked' = acked /\ op[c].kind = "set"
         /\ \A b \in Clients \ {c} : op'[b] = op[b]
         /\ SameCall(op'[c], op[c]) /\ op'[c].missed = op[c].missed
         /\ \E n \in Nodes :
              /\ op'[c].todo = op[c].todo \ {n} /\ n \in op[c].todo
              /\ op[c].key \in Keys /\ op[c].val \in 1..MaxWrites
              /\ \/ Answered(n, op[c].key, op[c].val)
                 \/ Errs(n, op[c].key, op[c].val)
<1>0. TypeOK /\ LoopInv /\ RolesInv /\ DTypeOK
  BY DEF BaseInv, TypeInv
<1>1. /\ op[c].kind = "set" /\ op[c] \in Calls /\ op[c] # Idle
      /\ op[c].key \in Keys /\ op[c].val \in 1..MaxWrites
  <2>1. op[c].kind \in {"set", "delete"} /\ op[c] \in Calls
    BY <1>0, CallFields DEF SetAsks
  <2>2. op[c].kind = "set" /\ op[c] # Idle
    BY <1>0, <2>1 DEF RolesInv, CallRole, Idle, Calls
  <2>3. op[c].val # 0
    BY <1>0, <2>2 DEF LoopInv, Loop
  <2> QED
    BY <2>1, <2>2, <2>3, StoreAssumption DEF Calls
<1> DEFINE n == NextTarget(c)
<1>2. n \in op[c].todo /\ n \in Nodes
  BY <1>0, <1>1, NextTargetInTodo DEF SetAsks
<1>3. PICK call \in Calls :
        /\ Loop(c, call) /\ op' = [op EXCEPT ![c] = call]
        /\ SameCall(call, op[c]) /\ call.missed = op[c].missed
        /\ call.todo = Asked(c, n)
        /\ \/ Answered(n, op[c].key, op[c].val)
           \/ Errs(n, op[c].key, op[c].val)
  BY <1>0, SetAsksCall
<1>4. CallRole(c, call) /\ (c \in Detectors => PassRole(call, pass'[c]))
  BY <1>0, <1>1, <1>3 DEF RolesInv, CallRole, PassRole, SameCall, Idle
<1>5. /\ \A b \in Clients : CallRole(b, op'[b])
      /\ \A d \in Detectors : PassRole(op'[d], pass'[d])
  BY <1>3, <1>4, OneRoleChanges
<1>6. TypeInv'
  <2>1. Next
    BY DEF Next, ClientStep
  <2> QED
    BY <1>0, <2>1, NextTypeInv DEF BaseInv
<1>7. op'[c] = call /\ \A b \in Clients \ {c} : op'[b] = op[b]
  BY <1>0, <1>3, OneCallChanges
<1>8. \A r \in late' : r.val # 0
  BY <1>0, <1>1, <1>2, <1>3, SetRequest DEF RolesInv
<1>9. \A m \in Nodes, k \in Keys : disk'[m][k] # NoFact => disk'[m][k].ver > 0
  <2>1. op[c].val \in 0..MaxWrites
    BY <1>1
  <2> QED
    BY <1>0, <1>1, <1>2, <1>3, <2>1, RequestVersions DEF RolesInv
<1>10. up' = up /\ acked' = acked
  BY DEF SetAsks
<1> QED
  BY <1>1, <1>2, <1>3, <1>5, <1>6, <1>7, <1>8, <1>9, <1>10 DEF Asked

(* A Set returns.                                                            *)
LEMMA SetReturnsRole ==
  ASSUME BaseInv, NEW c \in Clients, SetReturns(c), pass' = pass
  PROVE  /\ TypeInv' /\ \A b \in Clients : CallRole(b, op'[b])
         /\ \A d \in Detectors : PassRole(op'[d], pass'[d])
         /\ op[c].kind = "set" /\ op[c].todo = {} /\ op[c].key \in Keys
         /\ late' = late /\ disk' = disk /\ up' = up /\ UNCHANGED counters
         /\ \A b \in Clients \ {c} : op'[b] = op[b]
         /\ op'[c] = Idle
         /\ \A k \in Keys : acked'[k] # acked[k] => k = op[c].key /\ acked'[k] # 0
<1>0. TypeOK /\ LoopInv /\ RolesInv /\ DTypeOK
  BY DEF BaseInv, TypeInv
<1>1. op[c].kind = "set" /\ op[c] \in Calls /\ op[c] # Idle /\ op[c].val # 0
  <2>1. op[c].kind \in {"set", "delete"} /\ op[c] \in Calls
    BY <1>0, CallFields DEF SetReturns
  <2>2. op[c].kind = "set" /\ op[c] # Idle
    BY <1>0, <2>1 DEF RolesInv, CallRole, Idle, Calls
  <2> QED
    BY <1>0, <2>1, <2>2 DEF LoopInv, Loop
<1>2. op' = [op EXCEPT ![c] = Idle]
  BY DEF SetReturns, Return
<1>3. CallRole(c, Idle) /\ (c \in Detectors => PassRole(Idle, pass'[c]))
  BY <1>0, <1>1 DEF CallRole, PassRole, RolesInv, Idle
<1>4. Idle \in Calls \cup {Idle} /\ Loop(c, Idle)
  BY IdleLoop
<1>5. /\ \A b \in Clients : CallRole(b, op'[b])
      /\ \A d \in Detectors : PassRole(op'[d], pass'[d])
  BY <1>2, <1>3, <1>4, OneRoleChanges
<1>6. TypeInv'
  <2>1. Next
    BY DEF Next, ClientStep
  <2> QED
    BY <1>0, <2>1, NextTypeInv DEF BaseInv
<1>7. op'[c] = Idle /\ \A b \in Clients \ {c} : op'[b] = op[b]
  BY <1>0, <1>2, <1>4, OneCallChanges
<1>8. \A k \in Keys : acked'[k] # acked[k] => k = op[c].key /\ acked'[k] # 0
  BY <1>0, <1>1 DEF SetReturns, TypeOK
<1>9. op[c].key \in Keys
  BY <1>1 DEF Calls
<1> QED
  BY <1>1, <1>5, <1>6, <1>7, <1>8, <1>9 DEF SetReturns, counters

(* A node is asked for its facts, or gives no answer (replication.go:83-96). *)
LEMMA ListAsksRole ==
  ASSUME BaseInv, NEW d \in Detectors, ListAsks(d), pass' = pass
  PROVE  /\ TypeInv' /\ \A b \in Clients : CallRole(b, op'[b])
         /\ \A b \in Detectors : PassRole(op'[b], pass'[b])
         /\ UNCHANGED <<disk, clock, up, acked, late>>
         /\ \A b \in Clients \ {d} : op'[b] = op[b]
         /\ SameCall(op'[d], op[d]) /\ op[d].kind = "list" /\ op[d] \in Calls
         /\ \E n \in op[d].todo :
              /\ op'[d].todo = op[d].todo \ {n} /\ n \in Nodes
              /\ \/ /\ op'[d].found = Merge(op[d].found, disk[n], op[d].prefix)
                    /\ UNCHANGED counters
                 \/ op'[d].found = op[d].found /\ NodeFails(n)
<1>0. /\ TypeOK /\ LoopInv /\ RolesInv /\ DTypeOK /\ d \in Clients
      /\ op[d].kind = "list"
  BY DriftConstants DEF BaseInv, TypeInv, ListAsks
<1>1. op[d] \in Calls /\ op[d] # Idle
  BY <1>0, CallFields DEF Idle
<1>2. PICK n \in op[d].todo :
        \/ /\ op' = [op EXCEPT ![d].todo = Asked(d, n),
                               ![d].found = Merge(@, disk[n], op[d].prefix)]
           /\ UNCHANGED counters
        \/ /\ NoAnswer(n)
           /\ op' = [op EXCEPT ![d].todo = Asked(d, n), ![d].missed = TRUE]
  BY DEF ListAsks
<1>3. Asked(d, n) \in SUBSET Nodes /\ n \in Nodes
  BY <1>1 DEF Asked, Calls
<1> DEFINE found == Merge(op[d].found, disk[n], op[d].prefix)
<1>4. found \in [Keys -> Fact]
  BY <1>0, <1>1, <1>3, MergeType DEF TypeOK, Calls
<1>5. \E call \in Calls :
        /\ op' = [op EXCEPT ![d] = call] /\ SameCall(call, op[d])
        /\ call.todo = Asked(d, n)
        /\ \/ call.found = found /\ UNCHANGED counters
           \/ call.found = op[d].found /\ NodeFails(n)
  <2>1. CASE /\ op' = [op EXCEPT ![d].todo = Asked(d, n),
                                 ![d].found = Merge(@, disk[n], op[d].prefix)]
             /\ UNCHANGED counters
    <3> DEFINE call == [op[d] EXCEPT !.todo = Asked(d, n), !.found = found]
    <3>1. op' = [op EXCEPT ![d] = call]
      BY <1>0, <2>1 DEF TypeOK
    <3>2. call \in Calls
      BY <1>1, <1>3, <1>4, CallUpdates
    <3>3. SameCall(call, op[d]) /\ call.todo = Asked(d, n) /\ call.found = found
      BY <1>1 DEF Calls, SameCall
    <3> QED
      BY <2>1, <3>1, <3>2, <3>3
  <2>2. CASE /\ NoAnswer(n)
             /\ op' = [op EXCEPT ![d].todo = Asked(d, n), ![d].missed = TRUE]
    <3> DEFINE call == [op[d] EXCEPT !.todo = Asked(d, n), !.missed = TRUE]
    <3>1. op' = [op EXCEPT ![d] = call]
      BY <1>0, <2>2 DEF TypeOK
    <3>2. call \in Calls
      BY <1>1, <1>3, CallUpdates
    <3>3. SameCall(call, op[d]) /\ call.todo = Asked(d, n) /\ call.found = op[d].found
      BY <1>1 DEF Calls, SameCall
    <3>4. NodeFails(n)
      BY <1>0, <2>2, StoreAssumption DEF NoAnswer, Fault, NodeFails, counters, TypeOK
    <3> QED
      BY <3>1, <3>2, <3>3, <3>4
  <2> QED
    BY <1>2, <2>1, <2>2
<1>6. PICK call \in Calls :
        /\ op' = [op EXCEPT ![d] = call] /\ SameCall(call, op[d])
        /\ call.todo = Asked(d, n)
        /\ \/ call.found = found /\ UNCHANGED counters
           \/ call.found = op[d].found /\ NodeFails(n)
  BY <1>5
<1>7. Loop(d, call)
  BY <1>0, <1>6 DEF Loop, SameCall
<1>8. CallRole(d, call) /\ PassRole(call, pass'[d])
  BY <1>0, <1>1, <1>6 DEF RolesInv, CallRole, PassRole, SameCall, Idle
<1>9. /\ \A b \in Clients : CallRole(b, op'[b])
      /\ \A b \in Detectors : PassRole(op'[b], pass'[b])
  BY <1>0, <1>6, <1>7, <1>8, OneRoleChanges
<1>10. TypeInv'
  <2>1. Next
    BY <1>0 DEF Next, ClientStep
  <2> QED
    BY <1>0, <2>1, NextTypeInv DEF BaseInv
<1>11. op'[d] = call /\ \A b \in Clients \ {d} : op'[b] = op[b]
  BY <1>0, <1>6, <1>7, OneCallChanges
<1>12. UNCHANGED <<disk, clock, up, acked, late>>
  BY DEF ListAsks, ReadOnly
<1> QED
  BY <1>0, <1>1, <1>3, <1>6, <1>9, <1>10, <1>11, <1>12 DEF Asked

(* A step of the detector that asks no node: it replaces its call and its    *)
(* pass, and the store stays as it is.                                       *)
LEMMA PassStep ==
  ASSUME BaseInv, NEW d \in Detectors, NEW call \in Calls \cup {Idle}, NEW p \in Pass,
         op' = [op EXCEPT ![d] = call], pass' = [pass EXCEPT ![d] = p], NodesOnly,
         Loop(d, call), CallRole(d, call), PassRole(call, p)
  PROVE  /\ TypeInv' /\ \A b \in Clients : CallRole(b, op'[b])
         /\ \A b \in Detectors : PassRole(op'[b], pass'[b])
         /\ pass' \in [Detectors -> Pass] /\ op'[d] = call /\ pass'[d] = p
         /\ \A b \in Clients \ {d} : op'[b] = op[b]
         /\ \A b \in Detectors \ {d} : pass'[b] = pass[b]
<1>0. TypeOK /\ LoopInv /\ d \in Clients
  BY DriftConstants DEF BaseInv, TypeInv
<1>1. /\ pass'[d] = p /\ \A b \in Detectors \ {d} : pass'[b] = pass[b]
  BY DEF BaseInv, DTypeOK
<1>2. /\ op' \in [Clients -> Calls \cup {Idle}] /\ LoopInv'
      /\ pass' \in [Detectors -> Pass]
      /\ \A b \in Clients : CallRole(b, op'[b])
      /\ \A b \in Detectors : PassRole(op'[b], pass'[b])
  BY <1>0, <1>1, OneRoleChanges
<1>3. op'[d] = call /\ \A b \in Clients \ {d} : op'[b] = op[b]
  BY <1>0, OneCallChanges
<1>4. TypeOK'
  BY <1>0, <1>2 DEF TypeOK, NodesOnly, counters
<1> QED
  BY <1>1, <1>2, <1>3, <1>4 DEF TypeInv

(* What the step of a detector on its own pass leaves as it is.              *)
OwnStep(d) ==
  /\ TypeInv' /\ \A b \in Clients : CallRole(b, op'[b])
  /\ \A b \in Detectors : PassRole(op'[b], pass'[b])
  /\ pass' \in [Detectors -> Pass] /\ NodesOnly
  /\ \A b \in Clients \ {d} : op'[b] = op[b]
  /\ \A b \in Detectors \ {d} : pass'[b] = pass[b]

(* A pass begins with the list of the commits (drift.go:42).                 *)
LEMMA DetectBeginStep ==
  ASSUME BaseInv, NEW d \in Detectors, DetectBegin(d)
  PROVE  /\ OwnStep(d)
         /\ op'[d].kind = "list" /\ op'[d].todo = Nodes
         /\ op'[d].found = [k \in Keys |-> NoFact]
         /\ pass'[d].at = "commits" /\ pass'[d].clean = TRUE /\ pass'[d].todo = {}
         /\ pass'[d].found = [k \in Keys |-> NoFact]
         /\ pass'[d].known = {c \in Commits : acked[c] # 0} /\ pass'[d].begun = clock
<1> DEFINE call == ListCall(ListedFirst)
           known == {c \in Commits : acked[c] # 0}
           p == [NoPass EXCEPT !.at = "commits", !.clean = TRUE, !.begun = clock,
                              !.known = known]
<1>1. /\ call \in Calls /\ call.kind = "list" /\ call.todo = Nodes
      /\ call.prefix = ListedFirst /\ call.found = [k \in Keys |-> NoFact]
  BY NewListCall, DriftConstants DEF BaseInv, TypeInv
<1>2. known \in SUBSET Commits /\ clock \in Nat
  BY DEF BaseInv, TypeInv, TypeOK
<1>4. op' = [op EXCEPT ![d] = call] /\ pass' = [pass EXCEPT ![d] = p] /\ NodesOnly
  BY DEF DetectBegin, Begin
<1> HIDE DEF known
<1>3. /\ p \in Pass /\ p.at = "commits" /\ p.clean = TRUE /\ p.known = known
      /\ p.todo = {} /\ p.found = [k \in Keys |-> NoFact] /\ p.begun = clock
  BY <1>2, NoPassType DEF Pass
<1> HIDE DEF call, p
<1>5. Loop(d, call) /\ CallRole(d, call) /\ PassRole(call, p)
  BY <1>1, <1>3 DEF Loop, CallRole, PassRole
<1> QED
  BY <1>1, <1>3, <1>4, <1>5, PassStep DEF OwnStep, known

(* Then the tickets are listed (drift.go:43).                                *)
LEMMA CommitsListedStep ==
  ASSUME BaseInv, NEW d \in Detectors, CommitsListed(d)
  PROVE  /\ OwnStep(d)
         /\ op[d].kind = "list" /\ op[d].todo = {} /\ pass[d].at = "commits"
         /\ op'[d].kind = "list" /\ op'[d].todo = Nodes
         /\ op'[d].found = [k \in Keys |-> NoFact]
         /\ pass'[d].at = "tickets" /\ pass'[d].found = op[d].found
         /\ pass'[d].known = pass[d].known /\ pass'[d].clean = pass[d].clean
         /\ pass'[d].begun = pass[d].begun
<1> DEFINE call == ListCall(ListedNext)
           p == [pass[d] EXCEPT !.at = "tickets", !.found = op[d].found]
<1>0. /\ TypeOK /\ DTypeOK /\ PassRole(op[d], pass[d])
      /\ pass[d].at = "commits" /\ op[d].todo = {} /\ d \in Clients
  BY DriftConstants DEF BaseInv, TypeInv, RolesInv, CommitsListed, Listed
<1>1. /\ call \in Calls /\ call.kind = "list" /\ call.todo = Nodes
      /\ call.prefix = ListedNext /\ call.found = [k \in Keys |-> NoFact]
  BY <1>0, NewListCall, DriftConstants
<1>2. op[d].kind = "list" /\ op[d].found \in [Keys -> Fact]
  BY <1>0, CallFields DEF PassRole, Calls
<1>3. /\ p \in Pass /\ p.at = "tickets" /\ p.found = op[d].found
      /\ p.known = pass[d].known /\ p.clean = pass[d].clean /\ p.begun = pass[d].begun
  BY <1>0, <1>2, PassFields DEF Pass
<1>4. op' = [op EXCEPT ![d] = call] /\ pass' = [pass EXCEPT ![d] = p] /\ NodesOnly
  BY <1>0 DEF CommitsListed, DTypeOK
<1> HIDE DEF call, p
<1>5. Loop(d, call) /\ CallRole(d, call) /\ PassRole(call, p)
  BY <1>1, <1>3 DEF Loop, CallRole, PassRole
<1> QED
  BY <1>0, <1>1, <1>2, <1>3, <1>4, <1>5, PassStep DEF OwnStep

(* What was found by both lists.                                             *)
BothFound(d) == [k \in Keys |-> IF k \in ListedNext THEN op[d].found[k]
                                                    ELSE pass[d].found[k]]

LEMMA TicketsListedStep ==
  ASSUME BaseInv, NEW d \in Detectors, TicketsListed(d)
  PROVE  /\ OwnStep(d)
         /\ op[d].kind = "list" /\ op[d].todo = {} /\ pass[d].at = "tickets"
         /\ op'[d] = Idle /\ pass'[d].at = "raising"
         /\ pass'[d].todo = Untracked(BothFound(d)) \cup Stale(BothFound(d))
         /\ pass'[d].found = [k \in Keys |-> NoFact]
         /\ pass'[d].known = pass[d].known /\ pass'[d].clean = pass[d].clean
         /\ pass'[d].begun = pass[d].begun
<1> DEFINE todo == Untracked(BothFound(d)) \cup Stale(BothFound(d))
           p == [pass[d] EXCEPT !.at = "raising", !.found = NoPass.found, !.todo = todo]
<1>0. /\ TypeOK /\ DTypeOK /\ PassRole(op[d], pass[d])
      /\ pass[d].at = "tickets" /\ op[d].todo = {} /\ d \in Clients
  BY DriftConstants DEF BaseInv, TypeInv, RolesInv, TicketsListed, Listed
<1>1. op[d].kind = "list"
  BY <1>0 DEF PassRole
<1>2. todo \in SUBSET (Commits \cup Tickets)
  BY DEF Untracked, Stale, Found
<1> HIDE DEF todo
<1>3. /\ p \in Pass /\ p.at = "raising" /\ p.todo = todo
      /\ p.found = [k \in Keys |-> NoFact]
      /\ p.known = pass[d].known /\ p.clean = pass[d].clean /\ p.begun = pass[d].begun
  BY <1>0, <1>2, PassFields, NoPassType DEF Pass
<1>4. op' = [op EXCEPT ![d] = Idle] /\ NodesOnly
  BY DEF TicketsListed
<1>5. pass' = [pass EXCEPT ![d] = p]
  BY <1>0 DEF TicketsListed, DTypeOK, BothFound, todo
<1> HIDE DEF p
<1>6. Idle \in Calls \cup {Idle} /\ Loop(d, Idle) /\ CallRole(d, Idle) /\ PassRole(Idle, p)
  BY <1>3, IdleLoop DEF CallRole, PassRole, Idle
<1> QED
  BY <1>0, <1>1, <1>3, <1>4, <1>5, <1>6, PassStep DEF OwnStep, todo

(* An alert is stored (drift.go:109).                                        *)
LEMMA RaiseBeginStep ==
  ASSUME BaseInv, NEW d \in Detectors, RaiseBegin(d)
  PROVE  /\ OwnStep(d) /\ op[d] = Idle /\ pass[d].at = "raising"
         /\ op'[d].kind = "set" /\ pass'[d].at = "raising"
         /\ pass'[d].found = pass[d].found
         /\ pass'[d].known = pass[d].known /\ pass'[d].clean = pass[d].clean
         /\ pass'[d].begun = pass[d].begun
         /\ \E x \in pass[d].todo :
              /\ pass'[d].todo = pass[d].todo \ {x}
              /\ op'[d].key = AlertOf[x] /\ op'[d].todo = Targets(AlertOf[x])
<1>0. TypeOK /\ DTypeOK /\ d \in Clients
  BY DriftConstants DEF BaseInv, TypeInv
<1>1. PICK x \in pass[d].todo :
        /\ Begin(d, Call("set", AlertOf[x], 1, Targets(AlertOf[x])))
        /\ pass' = [pass EXCEPT ![d].todo = @ \ {x}]
  BY DEF RaiseBegin
<1> DEFINE k == AlertOf[x]
           call == Call("set", k, 1, Targets(k))
           p == [pass[d] EXCEPT !.todo = pass[d].todo \ {x}]
<1>2. x \in Commits \cup Tickets
  BY <1>0, PassFields
<1>3. k \in Keys /\ k \in WritesTo[d] /\ Targets(k) \in SUBSET Nodes /\ 1 \in 0..MaxWrites
  BY <1>2, DriftConstants, DriftAssumption, StoreAssumption DEF Targets
<1>4. /\ call \in Calls /\ call.kind = "set" /\ call.key = k /\ call.val = 1
      /\ call.todo = Targets(k) /\ call.errs = 0
  BY <1>0, <1>3, Blank DEF Call, Calls
<1>5. pass[d].at = "raising"
  BY DEF RaiseBegin
<1>6. /\ p \in Pass /\ p.at = "raising" /\ p.todo = pass[d].todo \ {x}
      /\ p.found = pass[d].found
      /\ p.known = pass[d].known /\ p.clean = pass[d].clean /\ p.begun = pass[d].begun
  BY <1>0, <1>5, PassFields DEF Pass
<1>7. /\ op' = [op EXCEPT ![d] = call] /\ op[d] = Idle
      /\ pass' = [pass EXCEPT ![d] = p] /\ NodesOnly
  BY <1>0, <1>1 DEF RaiseBegin, Begin, DTypeOK
<1> HIDE DEF call, p, k
<1>8. Loop(d, call) /\ CallRole(d, call) /\ PassRole(call, p)
  BY <1>3, <1>4, <1>6 DEF Loop, CallRole, PassRole
<1>9. OwnStep(d) /\ op'[d] = call /\ pass'[d] = p
  BY <1>4, <1>6, <1>7, <1>8, PassStep DEF OwnStep
<1> QED
  BY <1>4, <1>5, <1>6, <1>7, <1>9 DEF k

(* A key has two targets.                                                    *)
LEMMA TwoTargets ==
  ASSUME NEW k \in Keys
  PROVE  /\ Cardinality(Targets(k)) = 2 /\ Cardinality({Replica[k]}) = 1
<1>1. IsFiniteSet({Replica[k]}) /\ Cardinality({Replica[k]}) = 1
  BY FS_Singleton
<1>2. Cardinality({Replica[k]} \cup {Primary[k]}) =
        IF Primary[k] \in {Replica[k]} THEN Cardinality({Replica[k]})
                                       ELSE Cardinality({Replica[k]}) + 1
  BY <1>1, FS_AddElement, Zenon
<1>3. Primary[k] \notin {Replica[k]}
  BY StoreAssumption
<1>4. Cardinality({Replica[k]} \cup {Primary[k]}) = 2
  BY <1>1, <1>2, <1>3
<1>5. Targets(k) = {Replica[k]} \cup {Primary[k]}
  BY DEF Targets
<1> QED
  BY <1>1, <1>4, <1>5

(* With a cancelled context nothing is sent any more.                        *)
LEMMA FailsUnsentStep ==
  ASSUME BaseInv, NEW d \in Detectors, FailsUnsent(d)
  PROVE  /\ OwnStep(d) /\ d \in cancelled /\ pass' = pass
         /\ SameCall(op'[d], op[d]) /\ op[d] # Idle /\ op'[d].todo = {}
         /\ op'[d].found = op[d].found
<1>0. /\ TypeOK /\ DTypeOK /\ LoopInv /\ RolesInv /\ d \in Clients
      /\ op[d] # Idle /\ op[d].todo # {}
  BY DriftConstants DEF BaseInv, TypeInv, FailsUnsent
<1>1. op[d] \in Calls /\ op[d].kind \in {"set", "list"}
  BY <1>0, DriftConstants DEF TypeOK, RolesInv, CallRole
<1> DEFINE e == IF op[d].kind = "set" THEN op[d].errs + Cardinality(op[d].todo)
                                      ELSE op[d].errs
           call == [op[d] EXCEPT !.todo = {}, !.missed = TRUE, !.errs = e]
<1>2. e \in 0..2 /\ (op[d].kind = "set" => e \in 0..2)
  <2>1. op[d].errs \in 0..2
    BY <1>1 DEF Calls
  <2>2. CASE op[d].kind = "set"
    <3> DEFINE k == op[d].key
    <3>1. /\ k \in Keys
          /\ \/ op[d].todo = Targets(k) /\ op[d].errs = 0
             \/ op[d].todo = {Replica[k]} /\ op[d].errs \in 0..1
      BY <1>0, <1>1, <2>2 DEF LoopInv, Loop, Calls
    <3>2. Cardinality(Targets(k)) = 2 /\ Cardinality({Replica[k]}) = 1
      BY <3>1, TwoTargets
    <3>3. e = op[d].errs + Cardinality(op[d].todo)
      BY <2>2
    <3> HIDE DEF e, k, call
    <3> QED
      BY <3>1, <3>2, <3>3
  <2> QED
    BY <2>1, <2>2
<1>3. op' = [op EXCEPT ![d] = call] /\ NodesOnly /\ pass' = pass /\ d \in cancelled
  BY <1>0 DEF FailsUnsent, TypeOK, driftVars
<1> HIDE DEF e
<1>4. /\ call \in Calls /\ SameCall(call, op[d]) /\ call.todo = {} /\ call.errs = e
      /\ call.found = op[d].found
  BY <1>1, <1>2 DEF Calls, SameCall
<1> HIDE DEF call
<1>5. Loop(d, call)
  BY <1>0, <1>1, <1>2, <1>4 DEF LoopInv, Loop, SameCall
<1>6. CallRole(d, call) /\ PassRole(call, pass[d])
  BY <1>0, <1>1, <1>4 DEF RolesInv, CallRole, PassRole, SameCall, Idle, Calls
<1>7. pass' = [pass EXCEPT ![d] = pass[d]] /\ pass[d] \in Pass
  BY <1>0, <1>3, PassFields DEF DTypeOK
<1>8. OwnStep(d) /\ op'[d] = call
  BY <1>3, <1>4, <1>5, <1>6, <1>7, PassStep DEF OwnStep
<1> QED
  BY <1>0, <1>3, <1>4, <1>8

(* A request that its client gave up on is applied (nodeserver.go): it only  *)
(* adds a fact.                                                              *)
LEMMA LateArrives ==
  ASSUME BaseInv, ArriveLate
  PROVE  /\ UNCHANGED <<op, acked, up, counters>> /\ late' \subseteq late
         /\ \E r \in late : \A n \in Nodes, k \in Keys :
              /\ disk[n][k] # NoFact => disk'[n][k] # NoFact
              /\ disk'[n][k] # NoFact => disk[n][k] # NoFact \/ k = r.key
         /\ \A n \in Nodes, k \in Keys : disk'[n][k] # NoFact => disk'[n][k].ver > 0
         /\ clock' >= clock
<1>0. TypeOK /\ RolesInv
  BY DEF BaseInv, TypeInv
<1>1. PICK r \in late :
        /\ Apply(r.node, r.key, r.val) /\ late' = late \ {r}
        /\ IF r.val = 0
             THEN acked' = [acked EXCEPT ![r.key] = 0] /\ op' = Forget(r.key)
             ELSE UNCHANGED <<acked, op>>
        /\ UNCHANGED <<up, writes, counters>>
  BY DEF ArriveLate
<1>2. r.node \in Nodes /\ r.key \in Keys /\ r.val \in 0..MaxWrites /\ r.val # 0
  BY <1>0 DEF TypeOK, Requests, RolesInv
<1>3. /\ clock' = clock + Gap
      /\ disk' = [disk EXCEPT ![r.node][r.key] = [val |-> r.val, ver |-> clock' + Skew[r.node]]]
  BY <1>1, <1>2, Zenon DEF Apply
<1> DEFINE f == [val |-> r.val, ver |-> clock' + Skew[r.node]]
<1>4. f # NoFact /\ f.ver > 0 /\ clock' >= clock
  BY <1>0, <1>2, <1>3, FactNumbers DEF TypeOK, NoFact
<1> HIDE DEF f
<1>5. disk' = [disk EXCEPT ![r.node][r.key] = f]
  BY <1>3 DEF f
<1>6. \A n \in Nodes, k \in Keys :
        /\ disk[n][k] # NoFact => disk'[n][k] # NoFact
        /\ disk'[n][k] # NoFact => disk[n][k] # NoFact \/ k = r.key
  BY <1>0, <1>4, <1>5 DEF TypeOK
<1>7. \A n \in Nodes, k \in Keys : disk'[n][k] # NoFact => disk'[n][k].ver > 0
  BY <1>0, <1>4, <1>5 DEF TypeOK, RolesInv
<1> QED
  BY <1>1, <1>2, <1>4, <1>6, <1>7

-----------------------------------------------------------------------------
(* Types and roles *)

LEMMA InitBaseInv == DInit => BaseInv
<1> SUFFICES ASSUME DInit PROVE BaseInv
  OBVIOUS
<1>1. TypeInv
  BY InitTypeInv DEF DInit
<1>2. DTypeOK /\ RolesInv
  <2>1. \A c \in Clients : op[c] = Idle
    BY DEF DInit, Init
  <2>2. \A d \in Detectors : pass[d] = NoPass /\ op[d] = Idle /\ d \in Clients
    BY <2>1, DriftConstants DEF DInit
  <2>3. \A d \in Detectors : PassRole(op[d], pass[d])
    BY <2>2, NoPassType DEF PassRole, Idle
  <2>4. pass \in [Detectors -> Pass]
    BY NoPassType DEF DInit
  <2>5. DTypeOK
    BY <2>3, <2>4, DriftAssumption DEF DInit, DTypeOK, PassRole
  <2>6. /\ \A n \in Nodes, k \in Keys : disk[n][k] = NoFact
        /\ late = {} /\ up = Nodes /\ crashes = 0
    BY DEF DInit, Init
  <2>7. \A c \in Clients : CallRole(c, op[c])
    BY <2>1 DEF CallRole
  <2> QED
    BY <2>3, <2>5, <2>6, <2>7 DEF RolesInv
<1> QED
  BY <1>1, <1>2 DEF BaseInv

(* A step of the detector on its own pass keeps types and roles.             *)
LEMMA OwnStepBase ==
  ASSUME BaseInv, NEW d \in Detectors, OwnStep(d), mentions' = mentions,
         cancelled' \subseteq Detectors, ages' \in 0..MaxAges, passes' \in 0..MaxPasses,
         early' \subseteq Commits, old' \subseteq Tickets
  PROVE  BaseInv'
<1>1. DTypeOK'
  BY RolesType DEF OwnStep, BaseInv, DTypeOK
<1>2. RolesInv'
  BY DEF OwnStep, NodesOnly, counters, BaseInv, RolesInv
<1> QED
  BY <1>1, <1>2 DEF OwnStep, BaseInv

(* A step of the store keeps them if it keeps what follows.                  *)
LEMMA StoreStepBase ==
  ASSUME BaseInv, TypeInv', \A b \in Clients : CallRole(b, op'[b]),
         \A b \in Detectors : PassRole(op'[b], pass'[b]),
         \A r \in late' : r.val # 0,
         \A n \in Nodes, k \in Keys : disk'[n][k] # NoFact => disk'[n][k].ver > 0,
         up' = up, crashes' = crashes,
         UNCHANGED <<mentions, pass, cancelled, ages, passes, old>>, early' \subseteq Commits
  PROVE  BaseInv'
<1>1. DTypeOK'
  BY RolesType DEF BaseInv, DTypeOK
<1>2. RolesInv'
  BY DEF BaseInv, RolesInv
<1> QED
  BY <1>1, <1>2 DEF BaseInv

LEMMA NextBaseInv == BaseInv /\ [DNext]_dvars => BaseInv'
<1> SUFFICES ASSUME BaseInv, [DNext]_dvars PROVE BaseInv'
  OBVIOUS
<1>0. /\ TypeInv /\ TypeOK /\ DTypeOK /\ RolesInv
      /\ cancelled \subseteq Detectors /\ ages \in 0..MaxAges /\ passes \in 0..MaxPasses
      /\ early \subseteq Commits /\ old \subseteq Tickets
  BY DEF BaseInv, TypeInv, DTypeOK
<1>1. CASE StoreCommit \/ StoreTicket
  <2>1. /\ SetBegin(Api) /\ early' \subseteq Commits
        /\ UNCHANGED <<mentions, pass, cancelled, ages, passes, old>>
    BY <1>0, <1>1 DEF StoreCommit, StoreTicket, driftVars
  <2>2. /\ TypeInv' /\ \A b \in Clients : CallRole(b, op'[b])
        /\ \A b \in Detectors : PassRole(op'[b], pass'[b])
        /\ late' = late /\ disk' = disk /\ up' = up /\ crashes' = crashes
    BY <2>1, SetBeginRole DEF counters
  <2> QED
    BY <1>0, <2>1, <2>2, StoreStepBase DEF RolesInv
<1>2. ASSUME NEW c \in Clients, SetAsks(c), UNCHANGED driftVars PROVE BaseInv'
  <2>1. UNCHANGED <<mentions, pass, cancelled, ages, passes, early, old>>
    BY <1>2 DEF driftVars
  <2>2. /\ TypeInv' /\ \A b \in Clients : CallRole(b, op'[b])
        /\ \A d \in Detectors : PassRole(op'[d], pass'[d])
        /\ \A r \in late' : r.val # 0
        /\ \A n \in Nodes, k \in Keys : disk'[n][k] # NoFact => disk'[n][k].ver > 0
        /\ up' = up
    BY <1>2, <2>1, SetAsksRole
  <2>3. crashes' = crashes
    BY <1>2 DEF SetAsks, Answered, Errs, Fault, counters
  <2> QED
    BY <1>0, <2>1, <2>2, <2>3, StoreStepBase
<1>3. ASSUME NEW c \in Clients, SetReturns(c), UNCHANGED driftVars PROVE BaseInv'
  <2>1. UNCHANGED <<mentions, pass, cancelled, ages, passes, early, old>>
    BY <1>3 DEF driftVars
  <2>2. /\ TypeInv' /\ \A b \in Clients : CallRole(b, op'[b])
        /\ \A d \in Detectors : PassRole(op'[d], pass'[d])
        /\ late' = late /\ disk' = disk /\ up' = up /\ crashes' = crashes
    BY <1>3, <2>1, SetReturnsRole DEF counters
  <2> QED
    BY <1>0, <2>1, <2>2, StoreStepBase DEF RolesInv
<1>4. ASSUME NEW d \in Detectors, ListAsks(d), UNCHANGED driftVars PROVE BaseInv'
  <2>1. UNCHANGED <<mentions, pass, cancelled, ages, passes, early, old>>
    BY <1>4 DEF driftVars
  <2>2. /\ TypeInv' /\ \A b \in Clients : CallRole(b, op'[b])
        /\ \A b \in Detectors : PassRole(op'[b], pass'[b])
        /\ late' = late /\ disk' = disk /\ up' = up
    BY <1>4, <2>1, ListAsksRole
  <2>3. crashes' = crashes
    BY <1>4 DEF ListAsks, NoAnswer, Fault, counters
  <2> QED
    BY <1>0, <2>1, <2>2, <2>3, StoreStepBase DEF RolesInv
<1>5. ASSUME NEW d \in Detectors, Detect(d) PROVE BaseInv'
  <2>1. CASE DetectBegin(d)
    <3>1. OwnStep(d)
      BY <2>1, DetectBeginStep
    <3>2. passes' \in 0..MaxPasses
      BY <1>0, <2>1, DriftAssumption DEF DetectBegin
    <3> QED
      BY <1>0, <2>1, <3>1, <3>2, OwnStepBase DEF DetectBegin
  <2>2. CASE CommitsListed(d) \/ TicketsListed(d) \/ RaiseBegin(d) \/ FailsUnsent(d)
    <3>1. OwnStep(d)
      BY <2>2, CommitsListedStep, TicketsListedStep, RaiseBeginStep, FailsUnsentStep
    <3> QED
      BY <1>0, <2>2, <3>1, OwnStepBase
         DEF CommitsListed, TicketsListed, RaiseBegin, FailsUnsent, driftVars
  <2>3. CASE RaiseReturns(d)
    BY <1>3, <2>3, DriftConstants DEF RaiseReturns
  <2>4. CASE DetectorAsks(d)
    BY <1>2, <1>4, <2>4, DriftConstants DEF DetectorAsks
  <2>5. CASE DetectEnds(d) \/ Cancel(d) \/ NextDetector(d)
    <3>1. /\ UNCHANGED vars
          /\ UNCHANGED <<mentions, ages, passes, early, old>>
      BY <2>5 DEF DetectEnds, Cancel, NextDetector
    <3>2. \E p \in Pass : pass' = [pass EXCEPT ![d] = p] /\ PassRole(op[d], p)
      <4>0. pass[d] \in Pass /\ PassRole(op[d], pass[d])
        BY <1>0, PassFields DEF RolesInv
      <4>1. CASE DetectEnds(d)
        <5> DEFINE p == [pass[d] EXCEPT !.at = "waiting"]
        <5>1. p \in Pass /\ p.at = "waiting" /\ pass' = [pass EXCEPT ![d] = p]
          BY <1>0, <4>0, <4>1 DEF Pass, DetectEnds, DTypeOK
        <5>2. op[d] = Idle
          BY <4>1 DEF DetectEnds
        <5> HIDE DEF p
        <5>3. PassRole(op[d], p)
          BY <5>1, <5>2 DEF PassRole, Idle
        <5> QED
          BY <5>1, <5>3
      <4>2. CASE Cancel(d)
        <5> DEFINE p == [pass[d] EXCEPT !.clean = FALSE, !.begun = 0]
        <5>1. p \in Pass /\ p.at = pass[d].at /\ pass' = [pass EXCEPT ![d] = p]
          BY <1>0, <4>0, <4>2 DEF Pass, Cancel, DTypeOK
        <5> HIDE DEF p
        <5> QED
          BY <4>0, <5>1 DEF PassRole
      <4>3. CASE NextDetector(d)
        <5>1. pass[d].at = "waiting"
          BY <4>3 DEF NextDetector
        <5> QED
          BY <4>0, <4>3, <5>1, NoPassType DEF PassRole, NextDetector, Idle
      <4> QED
        BY <2>5, <4>1, <4>2, <4>3
    <3>3. /\ pass' \in [Detectors -> Pass]
          /\ \A b \in Detectors : PassRole(op'[b], pass'[b])
      BY <1>0, <3>1, <3>2 DEF DTypeOK, RolesInv, vars
    <3>4. cancelled' \subseteq Detectors
      BY <1>0, <2>5 DEF DetectEnds, Cancel, NextDetector
    <3>5. DTypeOK'
      BY <1>0, <3>1, <3>3, <3>4, RolesType DEF DTypeOK
    <3>6. RolesInv'
      BY <1>0, <3>1, <3>3 DEF RolesInv, vars, counters
    <3>7. TypeInv'
      BY <1>0, <3>1, NextTypeInv
    <3> QED
      BY <3>5, <3>6, <3>7 DEF BaseInv
  <2> QED
    BY <1>5, <2>1, <2>2, <2>3, <2>4, <2>5 DEF Detect
<1>6. CASE Age
  <2>1. /\ UNCHANGED <<disk, up, op, writes, acked, late, counters>>
        /\ UNCHANGED <<mentions, cancelled, passes, early>>
        /\ pass' = [d \in Detectors |-> NoPass] /\ clock' \in Nat
        /\ \A c \in Clients : op[c] = Idle
        /\ old' \subseteq Tickets /\ ages' \in 0..MaxAges
    BY <1>0, <1>6, DriftAssumption DEF Age, TypeOK
  <2>2. /\ pass' \in [Detectors -> Pass]
        /\ \A b \in Detectors : PassRole(op'[b], pass'[b])
    BY <2>1, NoPassType, DriftConstants DEF PassRole, Idle
  <2>3. DTypeOK'
    BY <1>0, <2>1, <2>2, RolesType DEF DTypeOK
  <2>4. TypeOK'
    BY <1>0, <2>1 DEF TypeOK, counters
  <2>5. LoopInv'
    BY <1>0, <2>1 DEF TypeInv, LoopInv, Loop
  <2>6. RolesInv'
    BY <1>0, <2>1, <2>2 DEF RolesInv, counters
  <2> QED
    BY <2>3, <2>4, <2>5, <2>6 DEF BaseInv, TypeInv
<1>7. CASE NodeStep
  <2>1. UNCHANGED <<mentions, pass, cancelled, ages, passes, early, old>>
    BY <1>7 DEF NodeStep, driftVars
  <2>2. TypeInv'
    BY <1>0, <1>7, NextTypeInv DEF NodeStep, Next
  <2>3. CASE ArriveLate
    BY <1>0, <2>1, <2>2, <2>3, LateArrives, StoreStepBase DEF RolesInv, counters
  <2>4. ASSUME NEW n \in Nodes, NodeCrash(n) \/ NodeRestart(n) PROVE BaseInv'
    <3>1. /\ op' = op /\ disk' = disk /\ late' \subseteq late
      BY <2>4 DEF NodeCrash, NodeRestart
    <3>2. DTypeOK'
      BY <1>0, <2>1, <3>1 DEF DTypeOK
    <3>3. crashes \in Nat /\ up \subseteq Nodes
      BY <1>0, StoreAssumption DEF TypeOK
    <3>4. /\ crashes' = 0 => up' = Nodes
          /\ crashes' <= 1 => \A l, m \in Nodes \ up' : l = m
      <4>1. CASE NodeCrash(n)
        BY <1>0, <3>3, <4>1 DEF NodeCrash, RolesInv
      <4>2. CASE NodeRestart(n)
        BY <1>0, <3>3, <4>2 DEF NodeRestart, RolesInv, counters
      <4> QED
        BY <2>4, <4>1, <4>2
    <3>5. RolesInv'
      BY <1>0, <2>1, <3>1, <3>4 DEF RolesInv
    <3> QED
      BY <2>2, <3>2, <3>5 DEF BaseInv
  <2> QED
    BY <1>7, <2>3, <2>4 DEF NodeStep
<1>8. CASE UNCHANGED dvars
  <2>1. UNCHANGED vars /\ UNCHANGED <<mentions, pass, cancelled, ages, passes, early, old>>
    BY <1>8 DEF dvars, driftVars
  <2>2. TypeInv'
    BY <1>0, <2>1, NextTypeInv
  <2>3. DTypeOK' /\ RolesInv'
    BY <1>0, <2>1 DEF DTypeOK, RolesInv, vars, counters
  <2> QED
    BY <2>2, <2>3 DEF BaseInv
<1>9. CASE ApiStep
  BY <1>2, <1>3, <1>9, DriftConstants DEF ApiStep
<1> QED
  BY <1>1, <1>5, <1>6, <1>7, <1>8, <1>9 DEF DNext

(* The variables of the drift detector keep their types: a detector lists    *)
(* in the phases of a pass that list, and has no call between two passes     *)
(* (drift.go:41-102).                                                        *)
THEOREM DTypeCorrect == DSpec => []DTypeOK
<1>1. BaseInv => DTypeOK
  BY DEF BaseInv
<1> QED
  BY <1>1, InitBaseInv, NextBaseInv, PTL DEF DSpec

-----------------------------------------------------------------------------
(* No false alarm *)

Failures == crashes + faults + lates

(* The nodes of B have missed something: the one failure was that of the     *)
(* only node in B, and all others are up for good.                           *)
Excused(B) ==
  \A n \in B : Failures > 0 /\ Nodes \ {n} \subseteq up /\ \A m \in B : m = n

(* The targets of k but those of S that do not have a fact under k.          *)
Lacking(k, S) == {n \in Targets(k) \ S : disk[n][k] = NoFact}

(* A commit or ticket that was acknowledged is on its nodes, up to the one   *)
(* that failed; so is what a Set under way has asked for.                    *)
KeptInv ==
  /\ \A k \in Commits \cup Tickets : acked[k] # 0 => Excused(Lacking(k, {}))
  /\ \A c \in Clients :
       op[c].kind = "set" /\ c \notin cancelled => Excused(Lacking(op[c].key, op[c].todo))

(* A commit that was never set before a ticket it mentions was acknowledged  *)
(* is nowhere until one is.                                                  *)
Known(c) == \E t \in mentions[c] : acked[t] # 0

Nowhere(c) ==
  /\ op[Api].kind = "set" => op[Api].key # c
  /\ \A n \in Nodes : disk[n][c] = NoFact
  /\ \A r \in late : r.key # c
  /\ \A d \in Detectors : /\ op[d].kind = "list" => op[d].found[c] = NoFact
                          /\ pass[d].found[c] = NoFact

SeenInv == \A c \in Commits \ early : Known(c) \/ Nowhere(c)

(* A list has found a fact under k, or has still to ask a node that has one. *)
WillFind(d, k) ==
  \/ op[d].found[k] # NoFact
  \/ Excused({n \in Targets(k) : n \notin op[d].todo \/ disk[n][k] = NoFact})

(* A detector that is not cancelled raises no false alarm: with such a       *)
(* commit it finds a ticket that the commit mentions.                        *)
PassInv ==
  \A d \in Detectors \ cancelled :
    /\ pass[d].at = "tickets" =>
         \A c \in Commits \ early : pass[d].found[c] # NoFact =>
           \E t \in mentions[c] : WillFind(d, t)
    /\ pass[d].at = "raising" => pass[d].todo \cap Commits \subseteq early
    /\ op[d].kind = "set" => \A c \in Commits \ early : op[d].key # AlertOf[c]

AlertInv ==
  \A c \in Commits \ early :
    /\ \A n \in Nodes : disk[n][AlertOf[c]] = NoFact
    /\ \A r \in late : r.key # AlertOf[c]

FalseAlarmInv == OneFailure => KeptInv /\ SeenInv /\ PassInv /\ AlertInv

Bare(c) == \A t \in mentions[c], n \in Nodes : disk[n][t] = NoFact

(* Once both lists are there, the alert on x is to be raised, is being       *)
(* stored, or is stored.                                                     *)
WillRaise(d, x) ==
  /\ pass[d].at = "raising" =>
       \/ x \in pass[d].todo
       \/ op[d].kind = "set" /\ op[d].key = AlertOf[x]
       \/ AlertStored(x)
  /\ pass[d].at = "waiting" => AlertStored(x)

(* Where a clean pass is with a commit that was acknowledged before it and   *)
(* mentions no ticket known to any node.                                     *)
OnItsWay(d, c) ==
  /\ pass[d].at = "commits" => WillFind(d, c)
  /\ pass[d].at = "tickets" =>
       pass[d].found[c] # NoFact /\ \A t \in mentions[c] : op[d].found[t] = NoFact
  /\ WillRaise(d, c)

RaisedInv ==
  \A d \in Detectors : pass[d].clean =>
    /\ d \notin cancelled
    /\ OneFailure => \A c \in pass[d].known :
         acked[c] # 0 /\ (Bare(c) => OnItsWay(d, c))

(* A copy of a fact is no younger than its node's clock said when it was     *)
(* stored; no pass begins in the future; and a list has found nothing        *)
(* younger than what some node has by now.                                   *)
AgeInv ==
  /\ \A n \in Nodes, k \in Keys : disk[n][k].ver <= clock + Skew[n]
  /\ \A d \in Detectors : pass[d].begun <= clock
  /\ \A d \in Detectors, k \in Keys : op[d].kind = "list" =>
       \E n \in Nodes : op[d].found[k].ver <= disk[n][k].ver

(* A clean pass finds a silent ticket, and then raises the alert on it.      *)
SilentOnItsWay(d, t) ==
  /\ pass[d].at = "tickets" => WillFind(d, t)
  /\ WillRaise(d, t)

SilentInv ==
  /\ \A t \in old : acked[t] # 0
  /\ OneFailure => \A d \in Detectors : pass[d].clean =>
       \A t \in old : Unmentioned(t) /\ Silent(d, t) => SilentOnItsWay(d, t)

-----------------------------------------------------------------------------
(* What a step does, as far as these invariants are concerned                *)

(* A request to set k may be under way.                                      *)
Asking(k) == \E c \in Clients \ cancelled : op[c].kind = "set" /\ op[c].key = k

(* Facts come from requests, and stay.                                       *)
DiskEffects ==
  /\ \A n \in Nodes, k \in Keys :
       /\ disk[n][k] # NoFact => disk'[n][k] # NoFact
       /\ disk'[n][k] # NoFact =>
            disk[n][k] # NoFact \/ Asking(k) \/ \E r \in late : r.key = k
  /\ \A r \in late' : r \in late \/ Asking(r.key)

(* A commit or a ticket is acknowledged when its Set has asked both nodes.   *)
AckEffects ==
  /\ \A k \in Keys : acked[k] # 0 => acked'[k] # 0
  /\ \A k \in Commits \cup Tickets : acked'[k] # 0 =>
       \/ acked[k] # 0
       \/ \E c \in Clients \ cancelled :
            op[c].kind = "set" /\ op[c].key = k /\ op[c].todo = {}

(* A Set begins with both nodes, and asks one of them at a time.             *)
SetEffects ==
  \A c \in Clients : op'[c].kind = "set" /\ c \notin cancelled' =>
    /\ op'[c].key \in Keys
    /\ \/ op'[c].todo = Targets(op'[c].key)
       \/ /\ op[c].kind = "set" /\ c \notin cancelled /\ op'[c].key = op[c].key
          /\ \/ op'[c].todo = op[c].todo
             \/ \E n \in Nodes :
                  /\ op'[c].todo = op[c].todo \ {n} /\ up' = up
                  /\ disk'[n][op[c].key] # NoFact \/ NodeFails(n)

(* A commit that begins to be set is early, or mentions what is known.       *)
CommitEffects ==
  op'[Api].kind = "set" =>
    \/ op[Api].kind = "set" /\ op'[Api].key = op[Api].key
    \/ op'[Api].key \in early'
    \/ op'[Api].key \in Commits /\ Known(op'[Api].key)
    \/ op'[Api].key \in Tickets

(* What was found was stored.                                                *)
FindEffects ==
  \A d \in Detectors, k \in Keys :
    /\ op'[d].kind = "list" /\ op'[d].found[k] # NoFact =>
         \/ op[d].kind = "list" /\ op[d].found[k] # NoFact
         \/ \E n \in Nodes : disk[n][k] # NoFact
    /\ pass'[d].found[k] # NoFact =>
         \/ pass[d].found[k] # NoFact
         \/ op[d].kind = "list" /\ op[d].found[k] # NoFact

(* Failures are not forgotten, and without one nothing goes down.            *)
FailEffects ==
  /\ Failures \in Nat /\ Failures' \in Nat /\ Failures' >= Failures
  /\ Failures' = Failures => up \subseteq up'
  /\ mentions' = mentions /\ early \subseteq early' /\ early' \subseteq Commits

Effects == DiskEffects /\ AckEffects /\ SetEffects /\ CommitEffects /\ FindEffects /\ FailEffects

(* A step that leaves the nodes and the acknowledgements alone.              *)
LEMMA QuietEffects ==
  ASSUME BaseInv, BaseInv', UNCHANGED <<disk, up, acked, late, counters, mentions>>,
         early \subseteq early'
  PROVE  DiskEffects /\ AckEffects /\ FailEffects
<1>1. Failures \in Nat
  BY StoreAssumption DEF BaseInv, TypeInv, TypeOK, Failures
<1>2. early' \subseteq Commits
  BY DEF BaseInv, DTypeOK
<1> QED
  BY <1>1, <1>2 DEF DiskEffects, AckEffects, FailEffects, Failures, counters

(* A step of one client that is not the consumer's beginning of a Set.       *)
LEMMA OthersEffects ==
  ASSUME BaseInv, BaseInv', NEW c \in Clients,
         \A b \in Clients \ {c} : op'[b] = op[b],
         cancelled \subseteq cancelled',
         op'[c].kind = "set" /\ c \notin cancelled' =>
           \/ op'[c].todo = Targets(op'[c].key)
           \/ /\ op[c].kind = "set" /\ op'[c].key = op[c].key
              /\ \E n \in Nodes : /\ op'[c].todo = op[c].todo \ {n} /\ up' = up
                                  /\ disk'[n][op[c].key] # NoFact \/ NodeFails(n),
         c = Api => op'[c] = Idle \/ (op'[c].key = op[c].key /\ op[c].kind = "set")
  PROVE  SetEffects /\ CommitEffects
<1>1. \A b \in Clients : op'[b].kind = "set" => op'[b].key \in Keys
  <2>1. TypeOK'
    BY DEF BaseInv, TypeInv
  <2> QED
    BY <2>1 DEF TypeOK, Calls, Idle
<1>2. SetEffects
  BY <1>1 DEF SetEffects
<1>3. CommitEffects
  BY DriftConstants DEF CommitEffects, Idle
<1> QED
  BY <1>2, <1>3

(* A step that changes no call of the consumer, and lets no detector find.   *)
LEMMA NothingFound ==
  ASSUME \A d \in Detectors : op'[d].kind = "list" => op'[d] = op[d],
         \A d \in Detectors : pass'[d].found = pass[d].found
  PROVE  FindEffects
BY DEF FindEffects

(* What excuses some nodes excuses them after the step, unless a second      *)
(* failure comes.                                                            *)
LEMMA ExcusedStays ==
  ASSUME FailEffects, OneFailure', NEW B, NEW C, C \subseteq B, Excused(B)
  PROVE  (Excused(C))'
<1>1. ASSUME NEW n \in C
      PROVE  Failures' > 0 /\ Nodes \ {n} \subseteq up' /\ \A m \in C : m = n
  <2>1. Failures > 0 /\ Nodes \ {n} \subseteq up /\ \A m \in C : m = n
    BY <1>1 DEF Excused
  <2>2. Failures' <= 1
    BY DEF OneFailure, Failures
  <2>3. Failures' = Failures
    BY <2>1, <2>2 DEF FailEffects
  <2> QED
    BY <2>1, <2>3 DEF FailEffects
<1> QED
  BY <1>1 DEF Excused

(* A node that gives no answer is the one that failed.                       *)
LEMMA FailAdds ==
  ASSUME BaseInv, BaseInv', NEW n \in Nodes, NodeFails(n), up' = up, OneFailure',
         NEW B, NEW C, C \subseteq B \cup {n}, Excused(B)
  PROVE  (Excused(C))'
<1>1. /\ crashes \in Nat /\ faults \in Nat /\ lates \in Nat
      /\ crashes = 0 => up = Nodes
      /\ crashes <= 1 => \A m, l \in Nodes \ up : m = l
  BY StoreAssumption DEF BaseInv, TypeInv, TypeOK, RolesInv
<1>2. Failures' <= 1
  BY DEF OneFailure, Failures
<1>3. CASE n \notin up /\ UNCHANGED counters
  <2>1. Failures' = Failures /\ crashes = 1
    BY <1>1, <1>2, <1>3 DEF Failures, counters
  <2>2. Failures > 0
    BY <1>1, <2>1 DEF Failures
  <2>3. Nodes \ {n} \subseteq up
    BY <1>1, <1>3, <2>1
  <2>4. \A m \in C : m = n
    BY <1>3 DEF Excused
  <2> QED
    BY <2>1, <2>2, <2>3, <2>4 DEF Excused
<1>4. CASE n \in up /\ crashes' = crashes /\ faults' + lates' = faults + lates + 1
  <2>1. crashes' + faults' + lates' <= 1
    BY <1>2 DEF Failures
  <2>2. crashes = 0 /\ faults + lates = 0 /\ Failures = 0 /\ Failures' > 0
    <3>1. crashes' \in Nat /\ faults' \in Nat /\ lates' \in Nat
      BY StoreAssumption DEF BaseInv, TypeInv, TypeOK
    <3>2. PICK c \in Nat, f \in Nat, l \in Nat, f1 \in Nat, l1 \in Nat :
            c = crashes /\ f = faults /\ l = lates /\ f1 = faults' /\ l1 = lates'
      BY <1>1, <3>1
    <3>3. f1 + l1 = f + l + 1 /\ c + f1 + l1 <= 1
      BY <1>4, <2>1, <3>2
    <3>4. c = 0 /\ f + l = 0 /\ c + f + l = 0 /\ c + f1 + l1 > 0
      BY <3>3
    <3> QED
      BY <1>4, <3>2, <3>4 DEF Failures
  <2>3. B = {}
    BY <2>2 DEF Excused
  <2> QED
    BY <1>1, <2>2, <2>3 DEF Excused
<1> QED
  BY <1>3, <1>4 DEF NodeFails

LEMMA FailureCounts ==
  ASSUME BaseInv, BaseInv', up \subseteq up', mentions' = mentions, early' = early,
         UNCHANGED counters \/ \E n \in Nodes : NodeFails(n)
  PROVE  FailEffects
<1>1. PICK c \in Nat, f \in Nat, l \in Nat, c1 \in Nat, f1 \in Nat, l1 \in Nat :
        /\ c = crashes /\ f = faults /\ l = lates
        /\ c1 = crashes' /\ f1 = faults' /\ l1 = lates'
  BY StoreAssumption DEF BaseInv, TypeInv, TypeOK
<1>2. c1 = c /\ (f1 + l1 = f + l \/ f1 + l1 = f + l + 1)
  BY <1>1 DEF NodeFails, counters
<1>3. c + f + l \in Nat /\ c1 + f1 + l1 \in Nat /\ c1 + f1 + l1 >= c + f + l
  BY <1>2
<1>4. Failures = c + f + l /\ Failures' = c1 + f1 + l1
  BY <1>1 DEF Failures
<1> QED
  BY <1>3, <1>4 DEF FailEffects, BaseInv, DTypeOK

(* A request of a Set (replication.go:41-48).                                *)
LEMMA SetAsksEffects ==
  ASSUME BaseInv, BaseInv', NEW c \in Clients \ cancelled, SetAsks(c), UNCHANGED driftVars
  PROVE  Effects
<1>1. UNCHANGED <<mentions, pass, cancelled, ages, passes, early, old>>
  BY DEF driftVars
<1> DEFINE k == op[c].key
<1>2. /\ up' = up /\ acked' = acked /\ op[c].kind = "set"
      /\ \A b \in Clients \ {c} : op'[b] = op[b]
      /\ op'[c].kind = "set" /\ op'[c].key = k /\ k \in Keys
  BY <1>1, SetAsksRole DEF SameCall
<1>3. PICK n \in Nodes :
        /\ op'[c].todo = op[c].todo \ {n} /\ op[c].val \in 1..MaxWrites
        /\ Answered(n, k, op[c].val) \/ Errs(n, k, op[c].val)
  BY <1>1, SetAsksRole
<1>4. /\ \A m \in Nodes, j \in Keys :
           /\ disk[m][j] # NoFact => disk'[m][j] # NoFact
           /\ disk'[m][j] # NoFact => disk[m][j] # NoFact \/ (m = n /\ j = k)
      /\ \A r \in late' : r \in late \/ (r.key = k /\ r.val = op[c].val)
      /\ \/ disk'[n][k] # NoFact /\ UNCHANGED counters
         \/ NodeFails(n)
  BY <1>2, <1>3, SetRequest DEF BaseInv, TypeInv
<1>5. Asking(k)
  BY <1>2 DEF Asking
<1>6. DiskEffects
  BY <1>4, <1>5 DEF DiskEffects
<1>7. AckEffects
  BY <1>2 DEF AckEffects
<1>8. SetEffects /\ CommitEffects
  BY <1>1, <1>2, <1>3, <1>4, OthersEffects
<1>9. FindEffects
  BY <1>1, <1>2, NothingFound, DriftConstants
<1>10. FailEffects
  BY <1>1, <1>2, <1>4, FailureCounts
<1> QED
  BY <1>6, <1>7, <1>8, <1>9, <1>10 DEF Effects

(* A Set returns (replication.go:49-52).                                     *)
LEMMA SetReturnsEffects ==
  ASSUME BaseInv, BaseInv', NEW c \in Clients, SetReturns(c), UNCHANGED driftVars
  PROVE  Effects
<1>1. UNCHANGED <<mentions, pass, cancelled, ages, passes, early, old>>
  BY DEF driftVars
<1>2. /\ op[c].kind = "set" /\ op[c].todo = {} /\ op[c].key \in Keys
      /\ late' = late /\ disk' = disk /\ up' = up /\ UNCHANGED counters
      /\ \A b \in Clients \ {c} : op'[b] = op[b]
      /\ op'[c] = Idle
      /\ \A k \in Keys : acked'[k] # acked[k] => k = op[c].key /\ acked'[k] # 0
  BY <1>1, SetReturnsRole
<1>3. DiskEffects
  BY <1>2 DEF DiskEffects
<1>4. op[c].key \in Commits \cup Tickets => c \notin cancelled
  <2>1. op[c].key \in WritesTo[c]
    BY <1>2 DEF BaseInv, TypeInv, LoopInv, Loop
  <2>2. cancelled \subseteq Detectors
    BY DEF BaseInv, DTypeOK
  <2> QED
    BY <2>1, <2>2, DriftAssumption, DriftConstants
<1>5. AckEffects
  BY <1>2, <1>4, DriftConstants DEF AckEffects
<1>6. SetEffects /\ CommitEffects
  BY <1>1, <1>2, OthersEffects DEF Idle
<1>7. FindEffects
  BY <1>1, <1>2, NothingFound, DriftConstants DEF Idle
<1>8. FailEffects
  BY <1>1, <1>2, FailureCounts
<1> QED
  BY <1>3, <1>5, <1>6, <1>7, <1>8 DEF Effects

(* A node is asked for its facts.                                            *)
LEMMA ListAsksEffects ==
  ASSUME BaseInv, BaseInv', NEW d \in Detectors, ListAsks(d), UNCHANGED driftVars
  PROVE  Effects
<1>1. UNCHANGED <<mentions, pass, cancelled, ages, passes, early, old>>
  BY DEF driftVars
<1>2. /\ UNCHANGED <<disk, clock, up, acked, late>>
      /\ \A b \in Clients \ {d} : op'[b] = op[b]
      /\ op'[d].kind = "list" /\ op[d].kind = "list" /\ op[d] \in Calls
  BY <1>1, ListAsksRole DEF SameCall
<1>3. PICK n \in Nodes :
        \/ /\ op'[d].found = Merge(op[d].found, disk[n], op[d].prefix)
           /\ UNCHANGED counters
        \/ op'[d].found = op[d].found /\ NodeFails(n)
  BY <1>1, ListAsksRole
<1>4. DiskEffects /\ AckEffects
  BY <1>2 DEF DiskEffects, AckEffects
<1>5. SetEffects /\ CommitEffects
  BY <1>1, <1>2, OthersEffects, DriftConstants
<1>6. \A k \in Keys : op'[d].found[k] # NoFact => op[d].found[k] # NoFact \/ disk[n][k] # NoFact
  BY <1>3 DEF Merge
<1>7. FindEffects
  <2>1. \A b \in Detectors : b # d => op'[b] = op[b]
    BY <1>2, DriftConstants
  <2> QED
    BY <1>1, <1>2, <1>6, <2>1 DEF FindEffects
<1>8. FailEffects
  BY <1>1, <1>2, <1>3, FailureCounts
<1> QED
  BY <1>4, <1>5, <1>7, <1>8 DEF Effects

(* A step of a detector on its own pass.                                     *)
LEMMA OwnEffects ==
  ASSUME BaseInv, BaseInv', NEW d \in Detectors, OwnStep(d),
         UNCHANGED <<mentions, early, cancelled>>,
         op'[d].kind = "set" /\ d \notin cancelled' => op'[d].todo = Targets(op'[d].key),
         \A k \in Keys :
           /\ op'[d].kind = "list" /\ op'[d].found[k] # NoFact =>
                op[d].kind = "list" /\ op[d].found[k] # NoFact
           /\ pass'[d].found[k] # NoFact =>
                \/ pass[d].found[k] # NoFact
                \/ op[d].kind = "list" /\ op[d].found[k] # NoFact
  PROVE  Effects
<1>1. /\ UNCHANGED <<disk, up, acked, late, counters>>
      /\ \A b \in Clients \ {d} : op'[b] = op[b]
      /\ \A b \in Detectors \ {d} : pass'[b] = pass[b]
  BY DEF OwnStep, NodesOnly
<1>2. DiskEffects /\ AckEffects /\ FailEffects
  BY <1>1, QuietEffects
<1>3. SetEffects /\ CommitEffects
  BY <1>1, OthersEffects, DriftConstants
<1>4. FindEffects
  BY <1>1, DriftConstants DEF FindEffects
<1> QED
  BY <1>2, <1>3, <1>4 DEF Effects

LEMMA StepEffects ==
  ASSUME BaseInv, BaseInv', [DNext]_dvars
  PROVE  Effects
<1>0. TypeOK /\ TypeInv /\ DTypeOK /\ RolesInv /\ early' \subseteq Commits
  BY DEF BaseInv, TypeInv, DTypeOK
<1>1. CASE StoreCommit \/ StoreTicket
  <2>1. /\ SetBegin(Api) /\ early \subseteq early' /\ UNCHANGED <<mentions, pass, cancelled>>
        /\ \/ op'[Api].key \in early' \/ op'[Api].key \in Tickets
           \/ op'[Api].key \in Commits /\ Known(op'[Api].key)
    <3>1. CASE StoreTicket
      BY <3>1 DEF StoreTicket, driftVars
    <3>2. CASE StoreCommit
      <4> DEFINE c == op'[Api].key
      <4>1. /\ SetBegin(Api) /\ c \in Commits
            /\ early' = IF \A t \in mentions[c] : acked[t] = 0 THEN early \cup {c} ELSE early
            /\ UNCHANGED <<mentions, pass, cancelled>>
        BY <3>2 DEF StoreCommit
      <4>2. c \in early' \/ Known(c)
        BY <4>1 DEF Known
      <4> QED
        BY <4>1, <4>2
    <3> QED
      BY <1>1, <3>1, <3>2
  <2>2. /\ late' = late /\ disk' = disk /\ up' = up /\ UNCHANGED counters
        /\ acked' = acked /\ op'[Api].kind = "set"
        /\ op'[Api].key \in Commits \cup Tickets
        /\ op'[Api].todo = Targets(op'[Api].key)
        /\ \A b \in Clients \ {Api} : op'[b] = op[b]
    BY <2>1, SetBeginRole
  <2>3. DiskEffects /\ AckEffects /\ FailEffects
    BY <2>1, <2>2, QuietEffects
  <2>4. \A b \in Clients : op'[b].kind = "set" => op'[b].key \in Keys
    BY DEF BaseInv, TypeInv, TypeOK, Calls, Idle
  <2>5. SetEffects
    BY <2>1, <2>2, <2>4 DEF SetEffects
  <2>6. CommitEffects
    BY <2>1 DEF CommitEffects
  <2>7. FindEffects
    BY <2>1, <2>2, NothingFound, DriftConstants
  <2> QED
    BY <2>3, <2>5, <2>6, <2>7 DEF Effects
<1>2. CASE ApiStep
  <2>1. Api \in Clients \ cancelled
    BY <1>0, DriftConstants DEF DTypeOK
  <2> QED
    BY <1>2, <2>1, SetAsksEffects, SetReturnsEffects DEF ApiStep
<1>3. ASSUME NEW d \in Detectors, Detect(d) PROVE Effects
  <2>0. d \in Clients
    BY DriftConstants
  <2>1. CASE DetectBegin(d)
    <3>1. OwnStep(d) /\ UNCHANGED <<mentions, early, cancelled>>
      BY <2>1, DetectBeginStep DEF DetectBegin
    <3>2. /\ op'[d].found = [k \in Keys |-> NoFact]
          /\ pass'[d].found = [k \in Keys |-> NoFact]
      BY <2>1, DetectBeginStep
    <3>3. \A k \in Keys : op'[d].found[k] = NoFact /\ pass'[d].found[k] = NoFact
      BY <3>2
    <3> QED
      BY <2>1, <3>1, <3>3, DetectBeginStep, OwnEffects
  <2>2. CASE CommitsListed(d)
    <3>1. OwnStep(d) /\ UNCHANGED <<mentions, early, cancelled>>
      BY <2>2, CommitsListedStep DEF CommitsListed
    <3>2. /\ op'[d].kind = "list" /\ op[d].kind = "list"
          /\ \A k \in Keys : op'[d].found[k] = NoFact /\ pass'[d].found[k] = op[d].found[k]
      BY <2>2, CommitsListedStep
    <3> QED
      BY <3>1, <3>2, OwnEffects
  <2>3. CASE TicketsListed(d)
    <3>1. OwnStep(d) /\ UNCHANGED <<mentions, early, cancelled>>
      BY <2>3, TicketsListedStep DEF TicketsListed
    <3>2. op'[d] = Idle /\ \A k \in Keys : pass'[d].found[k] = NoFact
      BY <2>3, TicketsListedStep
    <3> QED
      BY <3>1, <3>2, OwnEffects DEF Idle
  <2>4. CASE RaiseBegin(d)
    <3>1. OwnStep(d) /\ UNCHANGED <<mentions, early, cancelled>>
      BY <2>4, RaiseBeginStep DEF RaiseBegin
    <3>2. /\ op'[d].kind = "set" /\ op'[d].todo = Targets(op'[d].key)
          /\ pass'[d].found = pass[d].found
      BY <2>4, RaiseBeginStep
    <3> QED
      BY <3>1, <3>2, OwnEffects
  <2>5. CASE RaiseReturns(d)
    BY <2>0, <2>5, SetReturnsEffects DEF RaiseReturns
  <2>6. CASE DetectorAsks(d)
    BY <2>0, <2>6, SetAsksEffects, ListAsksEffects DEF DetectorAsks
  <2>7. CASE FailsUnsent(d)
    <3>1. /\ OwnStep(d) /\ UNCHANGED <<mentions, early, cancelled>>
          /\ d \in cancelled /\ pass' = pass
      BY <2>7, FailsUnsentStep DEF FailsUnsent, driftVars
    <3>2. op'[d].kind = op[d].kind /\ op'[d].found = op[d].found
      BY <2>7, FailsUnsentStep DEF SameCall
    <3> QED
      BY <3>1, <3>2, OwnEffects
  <2>8. CASE DetectEnds(d) \/ Cancel(d) \/ NextDetector(d)
    <3>1. /\ UNCHANGED vars /\ UNCHANGED <<mentions, early>>
          /\ cancelled \ {d} \subseteq cancelled'
          /\ d \in cancelled /\ d \notin cancelled' => pass[d].at = "waiting"
      BY <2>8 DEF DetectEnds, Cancel, NextDetector
    <3>2. \A b \in Detectors, k \in Keys : pass'[b].found[k] # NoFact => pass[b].found[k] # NoFact
      <4>1. \A b \in Detectors \ {d} : pass'[b] = pass[b]
        BY <1>0, <2>8 DEF DetectEnds, Cancel, NextDetector, DTypeOK
      <4>2. pass'[d].found = pass[d].found \/ pass'[d].found = [k \in Keys |-> NoFact]
        <5>1. CASE DetectEnds(d) \/ Cancel(d)
          BY <1>0, <5>1, PassFields DEF DetectEnds, Cancel, DTypeOK, Pass
        <5>2. CASE NextDetector(d)
          BY <1>0, <5>2, NoPassType DEF NextDetector, DTypeOK
        <5> QED
          BY <2>8, <5>1, <5>2
      <4> QED
        BY <4>1, <4>2
    <3>3. /\ UNCHANGED <<disk, op, up, acked, late, counters>>
      BY <3>1 DEF vars
    <3>4. DiskEffects /\ AckEffects /\ FailEffects
      BY <3>1, <3>3, QuietEffects
    <3>5. \A c \in Clients : op[c].kind = "set" => op[c].key \in Keys
      BY <1>0 DEF TypeOK, Calls, Idle
    <3>6. \A c \in Clients : op[c].kind = "set" /\ c \notin cancelled' => c \notin cancelled
      <4>1. pass[d].at = "waiting" => op[d].kind # "set"
        BY <1>0 DEF DTypeOK, Idle
      <4> QED
        BY <3>1, <4>1
    <3>7. SetEffects
      BY <3>3, <3>5, <3>6 DEF SetEffects
    <3>8. CommitEffects
      BY <3>3 DEF CommitEffects
    <3>9. FindEffects
      BY <3>2, <3>3 DEF FindEffects
    <3> QED
      BY <3>4, <3>7, <3>8, <3>9 DEF Effects
  <2> QED
    BY <1>3, <2>1, <2>2, <2>3, <2>4, <2>5, <2>6, <2>7, <2>8 DEF Detect
<1>4. CASE Age
  <2>1. /\ UNCHANGED <<disk, up, op, writes, acked, late, counters>>
        /\ UNCHANGED <<mentions, early>> /\ \A c \in Clients : op[c] = Idle
        /\ pass' = [d \in Detectors |-> NoPass]
    BY <1>4 DEF Age
  <2>2. DiskEffects /\ AckEffects /\ FailEffects
    BY <2>1, QuietEffects
  <2>3. SetEffects /\ CommitEffects
    BY <2>1, DriftConstants DEF SetEffects, CommitEffects, Idle
  <2>4. FindEffects
    <3>1. \A d \in Detectors : op'[d].kind # "list" /\ \A k \in Keys : pass'[d].found[k] = NoFact
      BY <2>1, NoPassType, DriftConstants DEF Idle
    <3> QED
      BY <3>1 DEF FindEffects
  <2> QED
    BY <2>2, <2>3, <2>4 DEF Effects
<1>5. CASE NodeStep
  <2>1. UNCHANGED <<mentions, pass, cancelled, early>>
    BY <1>5 DEF NodeStep, driftVars
  <2>2. op' = op
    BY <1>5, LateArrives DEF NodeStep, NodeCrash, NodeRestart
  <2>3. \A c \in Clients : op[c].kind = "set" => op[c].key \in Keys
    BY <1>0 DEF TypeOK, Calls, Idle
  <2>4. SetEffects /\ CommitEffects /\ FindEffects
    BY <2>1, <2>2, <2>3, NothingFound DEF SetEffects, CommitEffects
  <2>5. CASE ArriveLate
    <3>1. /\ UNCHANGED <<acked, up, counters>> /\ late' \subseteq late
          /\ \E r \in late : \A n \in Nodes, k \in Keys :
               /\ disk[n][k] # NoFact => disk'[n][k] # NoFact
               /\ disk'[n][k] # NoFact => disk[n][k] # NoFact \/ k = r.key
      BY <2>5, LateArrives
    <3>2. DiskEffects /\ AckEffects
      BY <3>1 DEF DiskEffects, AckEffects
    <3>3. FailEffects
      BY <2>1, <3>1, FailureCounts
    <3> QED
      BY <2>4, <3>2, <3>3 DEF Effects
  <2>6. ASSUME NEW n \in Nodes, NodeCrash(n) \/ NodeRestart(n) PROVE Effects
    <3>1. /\ UNCHANGED <<disk, acked>> /\ late' \subseteq late
      BY <2>6 DEF NodeCrash, NodeRestart
    <3>2. DiskEffects /\ AckEffects
      BY <3>1 DEF DiskEffects, AckEffects
    <3>3. FailEffects
      <4>1. CASE NodeRestart(n)
        BY <2>1, <4>1, FailureCounts DEF NodeRestart
      <4>2. CASE NodeCrash(n)
        <5>1. PICK c \in Nat, f \in Nat, l \in Nat : c = crashes /\ f = faults /\ l = lates
          BY <1>0, StoreAssumption DEF TypeOK
        <5>2. crashes' = c + 1 /\ faults' = f /\ lates' = l
          BY <4>2, <5>1 DEF NodeCrash
        <5>3. Failures = c + f + l /\ Failures' = (c + 1) + f + l
          BY <5>1, <5>2 DEF Failures
        <5>4. Failures \in Nat /\ Failures' \in Nat /\ Failures' >= Failures /\ Failures' # Failures
          BY <5>3
        <5> QED
          BY <1>0, <2>1, <5>4 DEF FailEffects
      <4> QED
        BY <2>6, <4>1, <4>2
    <3> QED
      BY <2>4, <3>2, <3>3 DEF Effects
  <2> QED
    BY <1>5, <2>5, <2>6 DEF NodeStep
<1>6. CASE UNCHANGED dvars
  <2>1. /\ UNCHANGED <<disk, up, op, acked, late, counters>>
        /\ UNCHANGED <<mentions, early, pass, cancelled>>
    BY <1>6 DEF dvars, vars, driftVars
  <2>2. \A c \in Clients : op[c].kind = "set" => op[c].key \in Keys
    BY <1>0 DEF TypeOK, Calls, Idle
  <2>3. DiskEffects /\ AckEffects /\ FailEffects
    BY <2>1, QuietEffects
  <2>4. SetEffects /\ CommitEffects /\ FindEffects
    BY <2>1, <2>2, NothingFound DEF SetEffects, CommitEffects
  <2> QED
    BY <2>3, <2>4 DEF Effects
<1> QED
  BY <1>1, <1>2, <1>3, <1>4, <1>5, <1>6 DEF DNext

-----------------------------------------------------------------------------
(* What each step keeps *)

(* While there was one failure at most, an acknowledged fact is on its nodes *)
(* up to the one that failed.                                                *)
LEMMA KeptNext ==
  ASSUME BaseInv, BaseInv', Effects, OneFailure', KeptInv
  PROVE  KeptInv'
<1>0. DiskEffects /\ AckEffects /\ SetEffects /\ FailEffects
  BY DEF Effects
<1>1. \A k \in Keys : Targets(k) \subseteq Nodes
  BY StoreAssumption DEF Targets
<1>2. \A k \in Keys : \A S, T : S \subseteq T \cup {n \in Targets(k) : disk'[n][k] # NoFact} =>
        {n \in Targets(k) \ T : disk'[n][k] = NoFact} \subseteq Lacking(k, S)
  BY <1>0, <1>1 DEF DiskEffects, Lacking
<1>3. ASSUME NEW k \in Commits \cup Tickets, acked'[k] # 0
      PROVE  (Excused(Lacking(k, {})))'
  <2>0. k \in Keys
    BY DriftConstants
  <2>1. Excused(Lacking(k, {}))
    <3>1. CASE acked[k] # 0
      BY <3>1 DEF KeptInv
    <3>2. CASE acked[k] = 0
      <4>1. PICK c \in Clients \ cancelled : op[c].kind = "set" /\ op[c].key = k /\ op[c].todo = {}
        BY <1>0, <1>3, <3>2 DEF AckEffects
      <4> QED
        BY <4>1 DEF KeptInv
    <3> QED
      BY <3>1, <3>2
  <2>2. (Lacking(k, {}))' \subseteq Lacking(k, {})
    BY <1>2, <2>0 DEF Lacking
  <2> QED
    BY <1>0, <2>1, <2>2, ExcusedStays
<1>4. ASSUME NEW c \in Clients, op'[c].kind = "set", c \notin cancelled'
      PROVE  (Excused(Lacking(op[c].key, op[c].todo)))'
  <2> DEFINE k == op'[c].key
             C == (Lacking(op[c].key, op[c].todo))'
             B == Lacking(op[c].key, op[c].todo)
  <2>0. k \in Keys
    BY <1>0, <1>4 DEF SetEffects
  <2>1. C = {n \in Targets(k) \ op'[c].todo : disk'[n][k] = NoFact}
    BY DEF Lacking
  <2>2. CASE op'[c].todo = Targets(k)
    <3>1. C = {}
      BY <2>1, <2>2
    <3> QED
      BY <3>1 DEF Excused
  <2>3. CASE op[c].kind = "set" /\ c \notin cancelled /\ op'[c].key = op[c].key
    <3>1. Excused(B)
      BY <2>3 DEF KeptInv
    <3>2. CASE op'[c].todo = op[c].todo
      <4>1. C \subseteq B
        BY <1>2, <2>0, <2>1, <2>3, <3>2
      <4> QED
        BY <1>0, <3>1, <4>1, ExcusedStays
    <3>3. ASSUME NEW n \in Nodes, op'[c].todo = op[c].todo \ {n}, up' = up,
                 disk'[n][k] # NoFact \/ NodeFails(n)
          PROVE  (Excused(Lacking(op[c].key, op[c].todo)))'
      <4>1. C \subseteq B \cup {n}
        BY <1>0, <1>1, <2>0, <2>1, <2>3, <3>3 DEF DiskEffects, Lacking
      <4>2. CASE disk'[n][k] # NoFact
        <5>1. C \subseteq B
          BY <2>1, <4>1, <4>2
        <5> QED
          BY <1>0, <3>1, <5>1, ExcusedStays
      <4>3. CASE NodeFails(n)
        BY <3>1, <3>3, <4>1, <4>3, FailAdds
      <4> QED
        BY <3>3, <4>2, <4>3
    <3> QED
      BY <1>0, <1>4, <2>3, <3>2, <3>3, <2>2 DEF SetEffects
  <2> QED
    BY <1>0, <1>4, <2>2, <2>3 DEF SetEffects
<1> QED
  BY <1>3, <1>4 DEF KeptInv

(* A commit is nowhere until it is set, and by then a ticket it mentions is  *)
(* acknowledged.                                                             *)
LEMMA SeenNext ==
  ASSUME BaseInv, BaseInv', Effects, SeenInv
  PROVE  SeenInv'
<1>0. DiskEffects /\ AckEffects /\ CommitEffects /\ FindEffects /\ FailEffects
  BY DEF Effects
<1> SUFFICES ASSUME NEW c \in Commits \ early', ~(Known(c))'
             PROVE  (Nowhere(c))'
  BY <1>0 DEF SeenInv, FailEffects
<1>1. c \in Commits /\ c \notin early /\ c \in Keys /\ c \notin Tickets
  BY <1>0, DriftConstants DEF FailEffects
<1>2. ~Known(c)
  <2>1. mentions' = mentions /\ mentions[c] \subseteq Keys
    BY <1>0, <1>1, DriftConstants DEF FailEffects, BaseInv, DTypeOK
  <2> QED
    BY <1>0, <2>1 DEF Known, AckEffects
<1>3. Nowhere(c)
  BY <1>1, <1>2 DEF SeenInv
<1>4. ~Asking(c)
  <2>1. ASSUME NEW b \in Clients, op[b].kind = "set", op[b].key = c PROVE FALSE
    <3>1. op[b].key \in WritesTo[b]
      BY <2>1 DEF BaseInv, TypeInv, LoopInv, Loop
    <3>2. b = Api
      BY <1>1, <2>1, <3>1, DriftAssumption, DriftConstants DEF BaseInv, RolesInv, CallRole, Idle
    <3> QED
      BY <1>3, <2>1, <3>2 DEF Nowhere
  <2> QED
    BY <2>1 DEF Asking
<1>5. op'[Api].kind = "set" => op'[Api].key # c
  BY <1>0, <1>1, <1>2, <1>3 DEF CommitEffects, Nowhere
<1>6. /\ \A n \in Nodes : disk'[n][c] = NoFact
      /\ \A r \in late' : r.key # c
  BY <1>0, <1>1, <1>3, <1>4 DEF DiskEffects, Nowhere
<1>7. \A d \in Detectors :
        /\ op'[d].kind = "list" => op'[d].found[c] = NoFact
        /\ pass'[d].found[c] = NoFact
  BY <1>0, <1>1, <1>3 DEF FindEffects, Nowhere
<1> QED
  BY <1>5, <1>6, <1>7 DEF Nowhere

(* No two facts have their alerts under the same key: the key is a prefix    *)
(* and the first seven digits of the commit's SHA, or the ticket's ID        *)
(* (drift.go:74, 101).                                                        *)
AlertsDistinct == \A x, y \in Commits \cup Tickets : x # y => AlertOf[x] # AlertOf[y]

(* The alert on such a commit is asked for by no one.                        *)
LEMMA AlertNext ==
  ASSUME BaseInv, BaseInv', Effects, PassInv, AlertInv
  PROVE  AlertInv'
<1>0. DiskEffects /\ FailEffects
  BY DEF Effects
<1> SUFFICES ASSUME NEW c \in Commits \ early'
             PROVE  /\ \A n \in Nodes : disk'[n][AlertOf[c]] = NoFact
                    /\ \A r \in late' : r.key # AlertOf[c]
  BY DEF AlertInv
<1>1. c \in Commits \ early /\ AlertOf[c] \in Keys \ (Commits \cup Tickets)
  BY <1>0, DriftConstants DEF FailEffects
<1>2. ~Asking(AlertOf[c])
  <2>1. ASSUME NEW b \in Clients \ cancelled, op[b].kind = "set", op[b].key = AlertOf[c]
        PROVE  FALSE
    <3>1. op[b].key \in WritesTo[b]
      BY <2>1 DEF BaseInv, TypeInv, LoopInv, Loop
    <3>2. b # Api
      BY <1>1, <2>1, <3>1, DriftAssumption
    <3>3. b \in Detectors
      BY <2>1, <3>2 DEF BaseInv, RolesInv, CallRole, Idle
    <3> QED
      BY <1>1, <2>1, <3>3 DEF PassInv
  <2> QED
    BY <2>1 DEF Asking
<1> QED
  BY <1>0, <1>1, <1>2 DEF DiskEffects, AlertInv

-----------------------------------------------------------------------------
(* Passes *)

(* A detector moves by its own steps only.                                   *)
LEMMA OthersStay ==
  ASSUME BaseInv, [DNext]_dvars, NEW d \in Detectors
  PROVE  \/ Detect(d) \/ Age
         \/ op'[d] = op[d] /\ pass'[d] = pass[d] /\ (d \in cancelled' <=> d \in cancelled)
<1>0. d \in Clients /\ d # Api
  BY DriftConstants
<1>1. CASE StoreCommit \/ StoreTicket
  <2>1. SetBegin(Api) /\ UNCHANGED <<pass, cancelled>>
    BY <1>1 DEF StoreCommit, StoreTicket, driftVars
  <2> QED
    BY <1>0, <2>1, SetBeginRole
<1>2. CASE ApiStep
  <2>1. (SetAsks(Api) \/ SetReturns(Api)) /\ UNCHANGED <<pass, cancelled>>
    BY <1>2 DEF ApiStep, driftVars
  <2> QED
    BY <1>0, <2>1, SetAsksRole, SetReturnsRole, DriftConstants
<1>3. ASSUME NEW b \in Detectors, Detect(b), b # d
      PROVE  op'[d] = op[d] /\ pass'[d] = pass[d] /\ (d \in cancelled' <=> d \in cancelled)
  <2>0. b \in Clients
    BY DriftConstants
  <2>1. CASE DetectBegin(b) \/ CommitsListed(b) \/ TicketsListed(b) \/ RaiseBegin(b)
             \/ FailsUnsent(b)
    <3>1. OwnStep(b)
      BY <2>1, DetectBeginStep, CommitsListedStep, TicketsListedStep, RaiseBeginStep,
         FailsUnsentStep
    <3>2. cancelled' = cancelled
      BY <2>1 DEF DetectBegin, CommitsListed, TicketsListed, RaiseBegin, FailsUnsent, driftVars
    <3> QED
      BY <1>0, <1>3, <3>1, <3>2 DEF OwnStep
  <2>2. CASE RaiseReturns(b) \/ DetectorAsks(b)
    <3>1. /\ UNCHANGED <<pass, cancelled>>
          /\ SetReturns(b) \/ SetAsks(b) \/ ListAsks(b)
      BY <2>2 DEF RaiseReturns, DetectorAsks, driftVars
    <3> QED
      BY <1>0, <1>3, <2>0, <3>1, SetReturnsRole, SetAsksRole, ListAsksRole
  <2>3. CASE DetectEnds(b) \/ Cancel(b) \/ NextDetector(b)
    BY <1>3, <2>3 DEF DetectEnds, Cancel, NextDetector, vars, BaseInv, DTypeOK
  <2> QED
    BY <1>3, <2>1, <2>2, <2>3 DEF Detect
<1>4. CASE NodeStep
  BY <1>4, LateArrives DEF NodeStep, NodeCrash, NodeRestart, driftVars
<1>5. CASE UNCHANGED dvars
  BY <1>5 DEF dvars, vars, driftVars
<1> QED
  BY <1>1, <1>2, <1>3, <1>4, <1>5 DEF DNext

(* Both nodes of a key are never excused at once.                            *)
LEMMA NotBoth ==
  ASSUME NEW k \in Keys, NEW B, Excused(B)
  PROVE  ~(Targets(k) \subseteq B)
BY StoreAssumption DEF Excused, Targets

(* A list that has asked every node has found what it was to find.           *)
LEMMA FoundAtEnd ==
  ASSUME NEW d, NEW k \in Keys, WillFind(d, k), op[d].todo = {}
  PROVE  op[d].found[k] # NoFact
<1> DEFINE B == {n \in Targets(k) : n \notin op[d].todo \/ disk[n][k] = NoFact}
<1>1. Targets(k) \subseteq B
  OBVIOUS
<1> QED
  BY <1>1, NotBoth DEF WillFind

(* A list that begins will find what is acknowledged.                        *)
LEMMA WillFindStarts ==
  ASSUME BaseInv, BaseInv', Effects, OneFailure', NEW d, NEW k \in Commits \cup Tickets,
         op'[d].todo = Nodes, KeptInv, acked[k] # 0
  PROVE  WillFind(d, k)'
<1> DEFINE C == {n \in Targets(k) : n \notin op'[d].todo \/ disk'[n][k] = NoFact}
<1>0. k \in Keys /\ Targets(k) \subseteq Nodes
  BY DriftConstants, StoreAssumption DEF Targets
<1>1. Excused(Lacking(k, {}))
  BY DEF KeptInv
<1>2. C \subseteq Lacking(k, {})
  BY <1>0 DEF Effects, DiskEffects, Lacking
<1>3. (Excused({n \in Targets(k) : n \notin op[d].todo \/ disk[n][k] = NoFact}))'
  BY <1>1, <1>2, ExcusedStays DEF Effects
<1> QED
  BY <1>3 DEF WillFind

(* ... and still will, whatever the others do.                               *)
LEMMA WillFindStays ==
  ASSUME BaseInv, BaseInv', Effects, OneFailure', NEW d, NEW k \in Keys,
         op'[d].todo = op[d].todo, op'[d].found = op[d].found, WillFind(d, k)
  PROVE  WillFind(d, k)'
<1> DEFINE B == {n \in Targets(k) : n \notin op[d].todo \/ disk[n][k] = NoFact}
           C == {n \in Targets(k) : n \notin op'[d].todo \/ disk'[n][k] = NoFact}
<1>1. CASE op[d].found[k] # NoFact
  BY <1>1 DEF WillFind
<1>2. CASE Excused(B)
  <2>0. Targets(k) \subseteq Nodes
    BY StoreAssumption DEF Targets
  <2>1. C \subseteq B
    BY <2>0 DEF Effects, DiskEffects
  <2>2. (Excused({n \in Targets(k) : n \notin op[d].todo \/ disk[n][k] = NoFact}))'
    BY <1>2, <2>1, ExcusedStays DEF Effects
  <2> QED
    BY <2>2 DEF WillFind
<1> QED
  BY <1>1, <1>2 DEF WillFind

(* ... and when it asks a node (replication.go:83-96).                       *)
LEMMA WillFindAsks ==
  ASSUME BaseInv, BaseInv', Effects, OneFailure', NEW d \in Detectors,
         ListAsks(d), UNCHANGED driftVars, NEW k \in op[d].prefix, WillFind(d, k)
  PROVE  WillFind(d, k)'
<1> DEFINE B == {n \in Targets(k) : n \notin op[d].todo \/ disk[n][k] = NoFact}
           C == {n \in Targets(k) : n \notin op'[d].todo \/ disk'[n][k] = NoFact}
<1>0. pass' = pass
  BY DEF driftVars
<1>1. op[d] \in Calls /\ disk' = disk /\ up' = up
  BY <1>0, ListAsksRole
<1>2. PICK n \in op[d].todo :
        /\ op'[d].todo = op[d].todo \ {n} /\ n \in Nodes
        /\ \/ /\ op'[d].found = Merge(op[d].found, disk[n], op[d].prefix)
              /\ UNCHANGED counters
           \/ op'[d].found = op[d].found /\ NodeFails(n)
  BY <1>0, ListAsksRole
<1>3. /\ k \in Keys /\ disk[n][k] \in Fact /\ op[d].found[k] \in Fact
      /\ disk[n][k] # NoFact => disk[n][k].ver > 0
  BY <1>1, <1>2 DEF BaseInv, TypeInv, TypeOK, RolesInv, Calls
<1>4. disk[n][k].ver \in Nat /\ op[d].found[k].ver \in Nat /\ NoFact.ver = 0
  BY <1>3 DEF Fact, NoFact
<1>5. C \subseteq B \cup {n}
  BY <1>1, <1>2
<1>6. CASE /\ op'[d].found = Merge(op[d].found, disk[n], op[d].prefix)
           /\ UNCHANGED counters
  <2>1. op'[d].found[k] = IF disk[n][k].ver > op[d].found[k].ver THEN disk[n][k]
                                                                ELSE op[d].found[k]
    BY <1>3, <1>6 DEF Merge
  <2>2. op[d].found[k] # NoFact \/ disk[n][k] # NoFact => op'[d].found[k] # NoFact
    BY <1>3, <1>4, <2>1
  <2>3. CASE op'[d].found[k] # NoFact
    BY <2>3 DEF WillFind
  <2>4. CASE op'[d].found[k] = NoFact
    <3>1. disk[n][k] = NoFact /\ op[d].found[k] = NoFact
      BY <2>2, <2>4
    <3>2. C \subseteq B
      BY <1>1, <1>5, <3>1
    <3>3. Excused(B)
      BY <3>1 DEF WillFind
    <3>4. (Excused({m \in Targets(k) : m \notin op[d].todo \/ disk[m][k] = NoFact}))'
      BY <3>2, <3>3, ExcusedStays DEF Effects
    <3> QED
      BY <3>4 DEF WillFind
  <2> QED
    BY <2>3, <2>4
<1>7. CASE op'[d].found = op[d].found /\ NodeFails(n)
  <2>1. CASE op[d].found[k] # NoFact
    BY <1>7, <2>1 DEF WillFind
  <2>2. CASE Excused(B)
    <3>1. (Excused({m \in Targets(k) : m \notin op[d].todo \/ disk[m][k] = NoFact}))'
      BY <1>1, <1>2, <1>5, <1>7, <2>2, FailAdds
    <3> QED
      BY <3>1 DEF WillFind
  <2> QED
    BY <2>1, <2>2 DEF WillFind
<1> QED
  BY <1>2, <1>6, <1>7

(* A ticket that is mentioned is one of the keys.                            *)
LEMMA MentionsAreKeys ==
  ASSUME BaseInv, NEW c \in Commits
  PROVE  mentions[c] \subseteq Tickets /\ mentions[c] \subseteq Keys
BY DriftConstants DEF BaseInv, DTypeOK

(* When both lists are there, a commit that is not early is not untracked:   *)
(* it was found, so a ticket it mentions was known by then, and found later  *)
(* (drift.go:42-52).                                                         *)
LEMMA NoneUntracked ==
  ASSUME BaseInv, NEW d \in Detectors \ cancelled, PassInv,
         pass[d].at = "tickets", op[d].todo = {},
         NEW c \in Commits, c \in Untracked(BothFound(d)) \cup Stale(BothFound(d))
  PROVE  c \in early
<1> SUFFICES ASSUME c \notin early PROVE FALSE
  OBVIOUS
<1>1. c \notin Tickets /\ c \in Keys /\ ListedNext = Tickets
  BY DriftConstants
<1>2. BothFound(d)[c] # NoFact /\ mentions[c] \cap Found(BothFound(d), Tickets) = {}
  BY <1>1 DEF Untracked, Stale, Found
<1>3. pass[d].found[c] # NoFact
  BY <1>1, <1>2 DEF BothFound
<1>4. PICK t \in mentions[c] : WillFind(d, t)
  BY <1>3 DEF PassInv
<1>5. t \in Tickets /\ t \in Keys
  BY MentionsAreKeys
<1>6. op[d].found[t] # NoFact
  BY <1>4, <1>5, FoundAtEnd
<1>7. BothFound(d)[t] # NoFact
  BY <1>1, <1>5, <1>6 DEF BothFound
<1> QED
  BY <1>2, <1>4, <1>5, <1>7 DEF Found

(* What PassInv says of one detector.                                        *)
PassSound(d) ==
  /\ pass[d].at = "tickets" =>
       \A c \in Commits \ early : pass[d].found[c] # NoFact =>
         \E t \in mentions[c] : WillFind(d, t)
  /\ pass[d].at = "raising" => pass[d].todo \cap Commits \subseteq early
  /\ op[d].kind = "set" => \A c \in Commits \ early : op[d].key # AlertOf[c]

LEMMA PassStays ==
  ASSUME BaseInv, BaseInv', Effects, OneFailure', NEW d \in Detectors, PassSound(d),
         pass'[d] = pass[d], op'[d].kind = "set" => op[d].kind = "set" /\ op'[d].key = op[d].key,
         \/ op'[d].kind # "list"
         \/ op'[d] = op[d]
         \/ ListAsks(d) /\ UNCHANGED driftVars
  PROVE  PassSound(d)'
<1>0. FailEffects
  BY DEF Effects
<1>1. /\ mentions' = mentions /\ early \subseteq early' /\ early' \subseteq Commits
      /\ pass'[d].at = "tickets" => op'[d].kind = "list" /\ op[d].prefix = Tickets
  BY <1>0, DriftConstants DEF FailEffects, BaseInv, RolesInv, PassRole
<1>2. ASSUME pass'[d].at = "tickets", NEW c \in Commits \ early', pass'[d].found[c] # NoFact
      PROVE  \E t \in mentions'[c] : WillFind(d, t)'
  <2>1. PICK t \in mentions[c] : WillFind(d, t)
    BY <1>1, <1>2 DEF PassSound
  <2>2. t \in Keys /\ t \in op[d].prefix
    BY <1>1, <1>2, MentionsAreKeys
  <2>3. WillFind(d, t)'
    <3>1. CASE op'[d] = op[d]
      BY <2>1, <2>2, <3>1, WillFindStays
    <3>2. CASE ListAsks(d) /\ UNCHANGED driftVars
      BY <2>1, <2>2, <3>2, WillFindAsks
    <3> QED
      BY <1>1, <1>2, <3>1, <3>2
  <2> QED
    BY <1>1, <2>1, <2>3
<1>3. pass'[d].at = "raising" => pass'[d].todo \cap Commits \subseteq early'
  BY <1>1 DEF PassSound
<1>4. op'[d].kind = "set" => \A c \in Commits \ early' : op'[d].key # AlertOf[c]
  BY <1>1 DEF PassSound
<1> QED
  BY <1>2, <1>3, <1>4 DEF PassSound

(* A pass of a detector that is not cancelled stays sound.                   *)
LEMMA PassNext ==
  ASSUME AlertsDistinct, BaseInv, BaseInv', [DNext]_dvars, Effects, OneFailure',
         KeptInv, SeenInv, PassInv
  PROVE  PassInv'
<1>0. FailEffects /\ DTypeOK /\ early \subseteq early' /\ mentions' = mentions
  BY DEF Effects, FailEffects, BaseInv
<1> SUFFICES ASSUME NEW d \in Detectors, d \notin cancelled' PROVE PassSound(d)'
  BY DEF PassInv, PassSound
<1>1. d \notin cancelled => PassSound(d)
  BY DEF PassInv, PassSound
<1>2. d \in Clients /\ d # Api
  BY DriftConstants
<1>3. CASE op'[d] = Idle /\ pass'[d].at # "raising"
  <2>1. pass'[d].at = "waiting"
    <3>1. DTypeOK' /\ op'[d].kind # "list" /\ op'[d].kind # "set"
      BY <1>3 DEF BaseInv, Idle
    <3> QED
      BY <1>3, <3>1 DEF DTypeOK, Pass
  <2> QED
    BY <1>3, <2>1 DEF PassSound, Idle
<1>4. CASE op'[d] = op[d] /\ pass'[d] = pass[d] /\ d \notin cancelled
  BY <1>1, <1>4, PassStays
<1>5. CASE Age
  BY <1>2, <1>3, <1>5, NoPassType DEF Age
<1>6. CASE Detect(d)
  <2>1. CASE DetectBegin(d)
    <3>1. op'[d].kind = "list" /\ pass'[d].at = "commits"
      BY <2>1, DetectBeginStep
    <3> QED
      BY <3>1 DEF PassSound
  <2>2. CASE CommitsListed(d)
    <3>1. /\ op[d].kind = "list" /\ op'[d].kind = "list" /\ op'[d].todo = Nodes
          /\ pass'[d].at = "tickets" /\ pass'[d].found = op[d].found
      BY <2>2, CommitsListedStep
    <3>2. ASSUME NEW c \in Commits \ early', pass'[d].found[c] # NoFact
          PROVE  \E t \in mentions'[c] : WillFind(d, t)'
      <4>1. c \in Commits \ early /\ ~Nowhere(c)
        BY <1>0, <3>1, <3>2 DEF Nowhere
      <4>2. PICK t \in mentions[c] : acked[t] # 0
        BY <4>1 DEF SeenInv, Known
      <4>3. t \in Commits \cup Tickets
        BY <4>1, <4>2, MentionsAreKeys
      <4>4. WillFind(d, t)'
        BY <3>1, <4>2, <4>3, WillFindStarts
      <4> QED
        BY <1>0, <4>2, <4>4
    <3> QED
      BY <3>1, <3>2 DEF PassSound
  <2>3. CASE TicketsListed(d)
    <3>1. /\ op[d].todo = {} /\ pass[d].at = "tickets" /\ op'[d] = Idle
          /\ pass'[d].at = "raising"
          /\ pass'[d].todo = Untracked(BothFound(d)) \cup Stale(BothFound(d))
          /\ d \notin cancelled
      BY <2>3, TicketsListedStep DEF TicketsListed
    <3>2. pass'[d].todo \cap Commits \subseteq early'
      BY <1>0, <3>1, NoneUntracked
    <3> QED
      BY <3>1, <3>2 DEF PassSound, Idle
  <2>4. CASE RaiseBegin(d)
    <3>1. /\ pass[d].at = "raising" /\ pass'[d].at = "raising" /\ op'[d].kind = "set"
          /\ d \notin cancelled
      BY <2>4, RaiseBeginStep DEF RaiseBegin
    <3>2. PICK x \in pass[d].todo :
            pass'[d].todo = pass[d].todo \ {x} /\ op'[d].key = AlertOf[x]
      BY <2>4, RaiseBeginStep
    <3>3. x \in Commits \cup Tickets
      BY <1>0, PassFields
    <3>4. pass[d].todo \cap Commits \subseteq early
      BY <1>1, <3>1 DEF PassSound
    <3>5. \A c \in Commits \ early' : op'[d].key # AlertOf[c]
      BY <1>0, <3>2, <3>3, <3>4 DEF AlertsDistinct
    <3> QED
      BY <1>0, <3>1, <3>2, <3>4, <3>5 DEF PassSound
  <2>5. CASE RaiseReturns(d)
    <3>1. pass' = pass /\ op'[d] = Idle /\ d \notin cancelled
      BY <1>2, <2>5, SetReturnsRole DEF RaiseReturns, driftVars
    <3> QED
      BY <1>1, <3>1, PassStays DEF Idle
  <2>6. CASE DetectorAsks(d)
    <3>1. pass' = pass /\ d \notin cancelled /\ UNCHANGED driftVars
      BY <2>6 DEF DetectorAsks, driftVars
    <3>2. CASE SetAsks(d)
      <4>1. op[d].kind = "set" /\ op'[d].kind = "set" /\ op'[d].key = op[d].key
        BY <1>2, <3>1, <3>2, SetAsksRole DEF SameCall
      <4> QED
        BY <1>1, <3>1, <4>1, PassStays
    <3>3. CASE ListAsks(d)
      <4>1. op'[d].kind = "list"
        BY <3>1, <3>3, ListAsksRole DEF SameCall
      <4> QED
        BY <1>1, <3>1, <3>3, <4>1, PassStays
    <3> QED
      BY <2>6, <3>2, <3>3 DEF DetectorAsks
  <2>7. CASE DetectEnds(d) \/ NextDetector(d)
    <3>1. op' = op /\ op[d] = Idle
      BY <1>0, <2>7 DEF DetectEnds, NextDetector, vars, DTypeOK
    <3>2. pass'[d].at = "waiting"
      <4>1. CASE DetectEnds(d)
        BY <1>0, <4>1, PassFields DEF DetectEnds, DTypeOK, Pass
      <4>2. CASE NextDetector(d)
        BY <1>0, <4>2, NoPassType DEF NextDetector, DTypeOK
      <4> QED
        BY <2>7, <4>1, <4>2
    <3> QED
      BY <1>3, <3>1, <3>2
  <2>8. CASE Cancel(d) \/ FailsUnsent(d)
    BY <1>2, <2>8 DEF Cancel, FailsUnsent, driftVars
  <2> QED
    BY <1>6, <2>1, <2>2, <2>3, <2>4, <2>5, <2>6, <2>7, <2>8 DEF Detect
<1> QED
  BY <1>4, <1>5, <1>6, OthersStay

LEMMA NextFalseAlarmInv ==
  ASSUME AlertsDistinct, BaseInv, FalseAlarmInv, [DNext]_dvars
  PROVE  BaseInv' /\ FalseAlarmInv'
<1>1. BaseInv'
  BY NextBaseInv
<1>2. Effects
  BY <1>1, StepEffects
<1>3. OneFailure' => OneFailure
  BY <1>2 DEF Effects, FailEffects, OneFailure, Failures
<1> QED
  BY <1>1, <1>2, <1>3, KeptNext, SeenNext, PassNext, AlertNext DEF FalseAlarmInv

LEMMA InitFalseAlarmInv == DInit => FalseAlarmInv
<1> SUFFICES ASSUME DInit PROVE FalseAlarmInv
  OBVIOUS
<1>1. /\ \A c \in Clients : op[c] = Idle
      /\ \A n \in Nodes, k \in Keys : disk[n][k] = NoFact
      /\ \A k \in Keys : acked[k] = 0
      /\ late = {} /\ \A d \in Detectors : pass[d] = NoPass
  BY DEF DInit, Init
<1>2. KeptInv
  BY <1>1, DriftConstants DEF KeptInv, Idle
<1>3. SeenInv
  BY <1>1, NoPassType, DriftConstants DEF SeenInv, Nowhere, Idle
<1>4. PassInv
  BY <1>1, NoPassType, DriftConstants DEF PassInv, Idle
<1>5. AlertInv
  BY <1>1, DriftConstants DEF AlertInv
<1> QED
  BY <1>2, <1>3, <1>4, <1>5 DEF FalseAlarmInv

(* When no two alerts have the same key (AlertsDistinct), a commit that was   *)
(* stored after a ticket it mentions was acknowledged never gets an alert,   *)
(* whatever the detectors list meanwhile, for any number of commits, tickets *)
(* and detectors, and although one request, or one node, fails.              *)
THEOREM NoFalseAlarmHolds == AlertsDistinct => (DSpec => []NoFalseAlarm)
<1> SUFFICES ASSUME AlertsDistinct PROVE DSpec => []NoFalseAlarm
  OBVIOUS
<1>1. DInit => BaseInv /\ FalseAlarmInv
  BY InitBaseInv, InitFalseAlarmInv
<1>2. BaseInv /\ FalseAlarmInv /\ [DNext]_dvars => BaseInv' /\ FalseAlarmInv'
  BY NextFalseAlarmInv
<1>3. FalseAlarmInv => NoFalseAlarm
  BY StoreAssumption, DriftConstants DEF FalseAlarmInv, AlertInv, NoFalseAlarm, AlertStored, Targets
<1> QED
  BY <1>1, <1>2, <1>3, PTL DEF DSpec

-----------------------------------------------------------------------------
(* Every untracked commit is reported *)

(* What was stored, acknowledged or not, still is.                           *)
LEMMA FactStays ==
  ASSUME BaseInv, BaseInv', Effects, NEW x \in Commits \cup Tickets
  PROVE  /\ acked[x] # 0 => acked'[x] # 0
         /\ AlertStored(x) => AlertStored(x)'
<1>1. x \in Keys /\ AlertOf[x] \in Keys /\ Targets(AlertOf[x]) \subseteq Nodes
  BY DriftConstants, StoreAssumption DEF Targets
<1> QED
  BY <1>1 DEF AlertStored, Effects, DiskEffects, AckEffects

LEMMA StoredStays ==
  ASSUME BaseInv, BaseInv', Effects
  PROVE  /\ OneFailure' => OneFailure
         /\ \A c \in Commits : /\ acked[c] # 0 => acked'[c] # 0
                               /\ Bare(c)' => Bare(c)
<1>0. DiskEffects /\ AckEffects /\ FailEffects
  BY DEF Effects
<1>1. OneFailure' => OneFailure
  BY <1>0 DEF FailEffects, OneFailure, Failures
<1>2. ASSUME NEW c \in Commits PROVE Bare(c)' => Bare(c)
  <2>1. mentions' = mentions /\ mentions[c] \subseteq Keys
    BY <1>0, MentionsAreKeys DEF FailEffects
  <2> QED
    BY <1>0, <2>1 DEF Bare, DiskEffects
<1>3. \A c \in Commits : acked[c] # 0 => acked'[c] # 0
  BY FactStays
<1> QED
  BY <1>1, <1>2, <1>3

(* An alert that is to be raised stays so while the pass goes on: it is      *)
(* stored by the time its Set has asked both nodes (drift.go:109-118).       *)
LEMMA WillRaiseStays ==
  ASSUME BaseInv, BaseInv', Effects, NEW d \in Detectors, NEW x \in Commits \cup Tickets,
         WillRaise(d, x), pass'[d] = pass[d],
         op[d].kind = "set" => op'[d].kind = "set" /\ op'[d].key = op[d].key
  PROVE  WillRaise(d, x)'
BY FactStays DEF WillRaise

LEMMA WillRaiseNext ==
  ASSUME BaseInv, BaseInv', Effects, KeptInv, NEW d \in Detectors, d \notin cancelled,
         RaiseBegin(d) \/ RaiseReturns(d) \/ DetectEnds(d),
         NEW x \in Commits \cup Tickets, WillRaise(d, x)
  PROVE  WillRaise(d, x)' /\ pass[d].at = "raising" /\ pass'[d].at \in {"raising", "waiting"}
<1>0. DTypeOK /\ d \in Clients /\ (AlertStored(x) => AlertStored(x)')
  BY DriftConstants, FactStays DEF BaseInv
<1>1. CASE RaiseBegin(d)
  <2>1. op[d] = Idle /\ pass[d].at = "raising" /\ op'[d].kind = "set" /\ pass'[d].at = "raising"
    BY <1>1, RaiseBeginStep
  <2>2. PICK y \in pass[d].todo :
          pass'[d].todo = pass[d].todo \ {y} /\ op'[d].key = AlertOf[y]
    BY <1>1, RaiseBeginStep
  <2>3. x \in pass[d].todo \/ AlertStored(x)
    BY <2>1 DEF WillRaise, Idle
  <2> QED
    BY <1>0, <2>1, <2>2, <2>3 DEF WillRaise
<1>2. CASE RaiseReturns(d)
  <2>1. /\ pass' = pass /\ pass[d].at = "raising" /\ op[d].kind = "set" /\ op[d].todo = {}
    BY <1>0, <1>2, SetReturnsRole DEF RaiseReturns, driftVars
  <2>2. op[d].key = AlertOf[x] => AlertStored(x)
    <3> SUFFICES ASSUME op[d].key = AlertOf[x] PROVE AlertStored(x)
      OBVIOUS
    <3>1. Excused(Lacking(AlertOf[x], {}))
      BY <1>0, <2>1 DEF KeptInv
    <3>2. AlertOf[x] \in Keys
      BY DriftConstants
    <3>3. ~(Targets(AlertOf[x]) \subseteq Lacking(AlertOf[x], {}))
      BY <3>1, <3>2, NotBoth
    <3> QED
      BY <3>3 DEF Lacking, AlertStored
  <2>3. x \in pass[d].todo \/ AlertStored(x)
    BY <2>1, <2>2 DEF WillRaise
  <2> QED
    BY <1>0, <2>1, <2>3 DEF WillRaise
<1>3. CASE DetectEnds(d)
  <2>1. AlertStored(x) /\ pass[d].at = "raising"
    BY <1>3 DEF WillRaise, DetectEnds, Idle
  <2>2. pass'[d].at = "waiting"
    BY <1>0, <1>3, PassFields DEF DetectEnds, DTypeOK, Pass
  <2> QED
    BY <1>0, <2>1, <2>2 DEF WillRaise
<1> QED
  BY <1>1, <1>2, <1>3

(* A step in which the pass stays where it is.                               *)
LEMMA OnItsWayStays ==
  ASSUME BaseInv, BaseInv', Effects, OneFailure', NEW d \in Detectors, NEW c \in Commits,
         Bare(c), OnItsWay(d, c), pass'[d] = pass[d],
         op[d].kind = "set" => op'[d].kind = "set" /\ op'[d].key = op[d].key,
         \/ op[d].kind # "list"
         \/ op'[d] = op[d]
         \/ ListAsks(d) /\ UNCHANGED driftVars
  PROVE  OnItsWay(d, c)'
<1>0. /\ c \in Keys /\ mentions[c] \subseteq Keys /\ mentions' = mentions
      /\ WillRaise(d, c)'
  <2>1. WillRaise(d, c)'
    BY WillRaiseStays DEF OnItsWay
  <2> QED
    BY <2>1, DriftConstants, MentionsAreKeys DEF Effects, FailEffects
<1>1. /\ pass[d].at \in {"commits", "tickets"} => op[d].kind = "list"
      /\ pass[d].at = "commits" => op[d].prefix = Commits
  BY DriftConstants DEF BaseInv, RolesInv, PassRole
<1>2. pass'[d].at = "commits" => WillFind(d, c)'
  <2>1. CASE pass[d].at = "commits"
    <3>1. WillFind(d, c) /\ c \in op[d].prefix /\ op[d].kind = "list"
      BY <1>1, <2>1 DEF OnItsWay
    <3>2. CASE op'[d] = op[d]
      BY <1>0, <3>1, <3>2, WillFindStays
    <3>3. CASE ListAsks(d) /\ UNCHANGED driftVars
      BY <3>1, <3>3, WillFindAsks
    <3> QED
      BY <3>1, <3>2, <3>3
  <2> QED
    BY <2>1
<1>3. ASSUME pass[d].at = "tickets", NEW t \in mentions[c] PROVE op'[d].found[t] = NoFact
  <2>0. t \in Keys /\ op[d].found[t] = NoFact /\ op[d].kind = "list"
    BY <1>0, <1>1, <1>3 DEF OnItsWay
  <2>1. CASE op'[d] = op[d]
    BY <2>0, <2>1
  <2>2. CASE ListAsks(d) /\ UNCHANGED driftVars
    <3>1. PICK n \in Nodes :
            \/ op'[d].found = Merge(op[d].found, disk[n], op[d].prefix)
            \/ op'[d].found = op[d].found
      BY <2>2, ListAsksRole DEF driftVars
    <3>2. disk[n][t] = NoFact
      BY <1>3 DEF Bare
    <3> QED
      BY <2>0, <3>1, <3>2 DEF Merge
  <2> QED
    BY <2>0, <2>1, <2>2
<1> QED
  BY <1>0, <1>2, <1>3 DEF OnItsWay

(* The step of a clean pass takes every such commit along: it is found, then *)
(* in todo, then its alert is set, and then it is stored.                    *)
LEMMA OnItsWayNext ==
  ASSUME BaseInv, BaseInv', Effects, OneFailure', KeptInv, NEW d \in Detectors, Detect(d),
         ~DetectBegin(d), d \notin cancelled, pass'[d].clean,
         NEW c \in Commits, Bare(c), OnItsWay(d, c)
  PROVE  OnItsWay(d, c)'
<1>0. /\ c \in Keys /\ c \notin Tickets /\ mentions[c] \subseteq Tickets /\ mentions' = mentions
      /\ mentions[c] \subseteq Keys /\ ListedNext = Tickets /\ d \in Clients
  BY DriftConstants, MentionsAreKeys DEF Effects, FailEffects
<1>1. DTypeOK
  BY DEF BaseInv
<1>2. CASE CommitsListed(d)
  <2>1. /\ pass[d].at = "commits" /\ op[d].todo = {} /\ pass'[d].at = "tickets"
        /\ pass'[d].found = op[d].found /\ op'[d].found = [k \in Keys |-> NoFact]
    BY <1>2, CommitsListedStep
  <2>2. op[d].found[c] # NoFact
    <3>1. WillFind(d, c)
      BY <2>1 DEF OnItsWay
    <3> QED
      BY <1>0, <2>1, <3>1, FoundAtEnd
  <2>3. \A t \in mentions[c] : op'[d].found[t] = NoFact
    BY <1>0, <2>1
  <2> QED
    BY <1>0, <2>1, <2>2, <2>3 DEF OnItsWay, WillRaise
<1>3. CASE TicketsListed(d)
  <2>1. /\ pass[d].at = "tickets" /\ pass'[d].at = "raising"
        /\ pass'[d].todo = Untracked(BothFound(d)) \cup Stale(BothFound(d))
    BY <1>3, TicketsListedStep
  <2>2. pass[d].found[c] # NoFact /\ \A t \in mentions[c] : op[d].found[t] = NoFact
    BY <2>1 DEF OnItsWay
  <2>3. /\ BothFound(d)[c] # NoFact
        /\ \A t \in mentions[c] : BothFound(d)[t] = NoFact
    BY <1>0, <2>2 DEF BothFound
  <2>4. c \in Untracked(BothFound(d))
    BY <2>3 DEF Untracked, Found
  <2> QED
    BY <2>1, <2>4 DEF OnItsWay, WillRaise
<1>4. CASE RaiseBegin(d) \/ RaiseReturns(d) \/ DetectEnds(d)
  BY <1>4, WillRaiseNext DEF OnItsWay
<1>5. CASE DetectorAsks(d)
  <2>1. pass' = pass /\ UNCHANGED driftVars
    BY <1>5 DEF DetectorAsks, driftVars
  <2>2. CASE SetAsks(d)
    <3>1. op[d].kind = "set" /\ op'[d].kind = "set" /\ op'[d].key = op[d].key
      BY <1>0, <2>1, <2>2, SetAsksRole DEF SameCall
    <3> QED
      BY <2>1, <3>1, OnItsWayStays
  <2>3. CASE ListAsks(d)
    <3>1. op[d].kind = "list"
      BY <2>3 DEF ListAsks
    <3> QED
      BY <2>1, <2>3, <3>1, OnItsWayStays
  <2> QED
    BY <1>5, <2>2, <2>3 DEF DetectorAsks
<1>6. CASE Cancel(d)
  <2>1. pass'[d].clean = FALSE
    BY <1>1, <1>6, PassFields DEF Cancel, DTypeOK, Pass
  <2> QED
    BY <2>1
<1>7. CASE FailsUnsent(d) \/ NextDetector(d)
  BY <1>7 DEF FailsUnsent, NextDetector
<1> QED
  BY <1>2, <1>3, <1>4, <1>5, <1>6, <1>7 DEF Detect

(* Which commits a pass is to report was settled when it began.              *)
LEMMA SameKnown ==
  ASSUME BaseInv, NEW d \in Detectors, Detect(d), ~DetectBegin(d), pass'[d].clean
  PROVE  /\ pass'[d].known = pass[d].known /\ pass[d].clean
         /\ d \in cancelled' => d \in cancelled
<1>1. DTypeOK /\ d \in Clients
  BY DriftConstants DEF BaseInv
<1>2. CASE CommitsListed(d) \/ TicketsListed(d) \/ RaiseBegin(d)
  BY <1>2, CommitsListedStep, TicketsListedStep, RaiseBeginStep
     DEF CommitsListed, TicketsListed, RaiseBegin
<1>3. CASE RaiseReturns(d) \/ DetectorAsks(d) \/ FailsUnsent(d)
  BY <1>3 DEF RaiseReturns, DetectorAsks, FailsUnsent, driftVars
<1>4. CASE DetectEnds(d)
  <2>1. pass'[d] = [pass[d] EXCEPT !.at = "waiting"] /\ cancelled' = cancelled
    BY <1>1, <1>4 DEF DetectEnds, DTypeOK
  <2> QED
    BY <1>1, <2>1, PassFields DEF Pass
<1>5. CASE Cancel(d)
  <2>1. pass'[d] = [pass[d] EXCEPT !.clean = FALSE, !.begun = 0]
    BY <1>1, <1>5 DEF Cancel, DTypeOK
  <2> QED
    BY <1>1, <2>1, PassFields DEF Pass
<1>6. CASE NextDetector(d)
  <2>1. pass'[d] = NoPass
    BY <1>1, <1>6 DEF NextDetector, DTypeOK
  <2> QED
    BY <2>1, NoPassType
<1> QED
  BY <1>2, <1>3, <1>4, <1>5, <1>6 DEF Detect

LEMMA RaisedNext ==
  ASSUME BaseInv, BaseInv', [DNext]_dvars, Effects, OneFailure => KeptInv, RaisedInv
  PROVE  RaisedInv'
<1> SUFFICES ASSUME NEW d \in Detectors, pass'[d].clean
             PROVE  /\ d \notin cancelled'
                    /\ OneFailure' => \A c \in pass'[d].known :
                         acked'[c] # 0 /\ (Bare(c)' => OnItsWay(d, c)')
  BY DEF RaisedInv
<1>1. DTypeOK /\ d \in Clients
  BY DriftConstants DEF BaseInv
<1>2. /\ OneFailure' => OneFailure
      /\ \A c \in Commits : /\ acked[c] # 0 => acked'[c] # 0
                            /\ Bare(c)' => Bare(c)
  BY StoredStays
<1>3. pass[d].known \subseteq Commits
  BY <1>1, PassFields
<1>4. CASE Age
  <2>1. pass'[d] = NoPass
    BY <1>4 DEF Age
  <2> QED
    BY <2>1, NoPassType
<1>5. CASE DetectBegin(d)
  <2>1. /\ d \notin cancelled' /\ pass'[d].known = {c \in Commits : acked[c] # 0}
        /\ pass'[d].at = "commits" /\ op'[d].todo = Nodes
    BY <1>5, DetectBeginStep DEF DetectBegin
  <2>2. ASSUME OneFailure', NEW c \in pass'[d].known
        PROVE  acked'[c] # 0 /\ OnItsWay(d, c)'
    <3>1. c \in Commits /\ acked[c] # 0
      BY <2>1, <2>2
    <3>2. WillFind(d, c)'
      BY <1>2, <2>1, <2>2, <3>1, WillFindStarts
    <3> QED
      BY <1>2, <2>1, <3>1, <3>2 DEF OnItsWay, WillRaise
  <2> QED
    BY <2>1, <2>2
<1>6. CASE Detect(d) /\ ~DetectBegin(d)
  <2>1. /\ pass'[d].known = pass[d].known /\ pass[d].clean
        /\ d \notin cancelled /\ d \notin cancelled'
    BY <1>6, SameKnown DEF RaisedInv
  <2>2. ASSUME OneFailure', NEW c \in pass'[d].known
        PROVE  acked'[c] # 0 /\ (Bare(c)' => OnItsWay(d, c)')
    <3>1. c \in Commits /\ acked[c] # 0 /\ (Bare(c) => OnItsWay(d, c))
      BY <1>2, <1>3, <2>1, <2>2 DEF RaisedInv
    <3> QED
      BY <1>2, <1>6, <2>1, <2>2, <3>1, OnItsWayNext
  <2> QED
    BY <2>1, <2>2
<1>7. CASE op'[d] = op[d] /\ pass'[d] = pass[d] /\ (d \in cancelled' <=> d \in cancelled)
  <2>1. d \notin cancelled'
    BY <1>7 DEF RaisedInv
  <2>2. ASSUME OneFailure', NEW c \in pass[d].known
        PROVE  acked'[c] # 0 /\ (Bare(c)' => OnItsWay(d, c)')
    <3>1. c \in Commits /\ acked[c] # 0 /\ (Bare(c) => OnItsWay(d, c))
      BY <1>2, <1>3, <1>7, <2>2 DEF RaisedInv
    <3> QED
      BY <1>2, <1>7, <2>2, <3>1, OnItsWayStays
  <2> QED
    BY <1>7, <2>1, <2>2
<1> QED
  BY <1>4, <1>5, <1>6, <1>7, OthersStay

(* After a pass that was not cancelled every commit that was acknowledged    *)
(* before it, and mentions no ticket known to any node, has an alert         *)
(* (drift.go:54-79), for any number of commits, tickets and detectors, and   *)
(* although one request, or one node, fails.                                 *)
THEOREM UntrackedRaisedHolds == DSpec => []UntrackedRaised
<1> DEFINE Inv == BaseInv /\ (OneFailure => KeptInv) /\ RaisedInv
<1>1. DInit => Inv
  <2> SUFFICES ASSUME DInit PROVE Inv
    OBVIOUS
  <2>1. KeptInv
    BY DriftConstants DEF DInit, Init, KeptInv, Idle
  <2>2. \A d \in Detectors : pass[d] = NoPass
    BY DEF DInit
  <2>3. RaisedInv
    BY <2>2, NoPassType DEF RaisedInv
  <2> QED
    BY <2>1, <2>3, InitBaseInv
<1>2. Inv /\ [DNext]_dvars => Inv'
  <2> SUFFICES ASSUME Inv, [DNext]_dvars PROVE Inv'
    OBVIOUS
  <2>1. BaseInv'
    BY NextBaseInv
  <2>2. Effects
    BY <2>1, StepEffects
  <2>3. OneFailure' => KeptInv'
    BY <2>1, <2>2, StoredStays, KeptNext
  <2>4. RaisedInv'
    BY <2>1, <2>2, RaisedNext
  <2> QED
    BY <2>1, <2>3, <2>4
<1>3. Inv => UntrackedRaised
  BY DEF RaisedInv, OnItsWay, WillRaise, Bare, UntrackedRaised, Cleared
<1> QED
  BY <1>1, <1>2, <1>3, PTL DEF DSpec
-----------------------------------------------------------------------------
(* Every silent ticket is reported *)

(* A step leaves a copy of a fact as it is or stores a new one, which has    *)
(* the time of the step as its version (badger.go:35-36); time goes on.      *)
LEMMA StoredNow ==
  ASSUME BaseInv, [DNext]_dvars
  PROVE  /\ clock' >= clock
         /\ \A n \in Nodes, k \in Keys :
              disk'[n][k] = disk[n][k] \/ disk'[n][k].ver = clock' + Skew[n]
<1> DEFINE Goal == /\ clock' >= clock
                   /\ \A n \in Nodes, k \in Keys :
                        disk'[n][k] = disk[n][k] \/ disk'[n][k].ver = clock' + Skew[n]
<1>0. TypeOK /\ RolesInv /\ clock \in Nat
  BY DEF BaseInv, TypeInv, TypeOK
<1>1. ASSUME UNCHANGED <<disk, clock>> PROVE Goal
  BY <1>0, <1>1
<1>2. ASSUME NEW m \in Nodes, NEW j \in Keys, NEW v, clock' = clock + Gap,
             disk' = [disk EXCEPT ![m][j] = [val |-> v, ver |-> clock + Gap + Skew[m]]]
      PROVE  Goal
  <2>1. clock' >= clock
    BY <1>0, <1>2, FactNumbers
  <2> DEFINE f == [val |-> v, ver |-> clock + Gap + Skew[m]]
  <2>2. f.ver = clock' + Skew[m] /\ disk' = [disk EXCEPT ![m][j] = f]
    BY <1>2
  <2> HIDE DEF f
  <2> QED
    BY <1>0, <2>1, <2>2 DEF TypeOK
<1>3. ASSUME NEW c \in Clients, SetAsks(c), UNCHANGED driftVars PROVE Goal
  <2>1. pass' = pass
    BY <1>3 DEF driftVars
  <2>2. PICK m \in Nodes :
          /\ op[c].key \in Keys /\ op[c].val \in 1..MaxWrites
          /\ Answered(m, op[c].key, op[c].val) \/ Errs(m, op[c].key, op[c].val)
    BY <1>3, <2>1, SetAsksRole
  <2>3. op[c].val \in 0..MaxWrites /\ op[c].val # 0
    BY <2>2
  <2> QED
    BY <1>0, <1>1, <1>2, <2>2, <2>3, RequestFacts
<1>4. ASSUME StoreCommit \/ StoreTicket PROVE Goal
  <2>1. SetBegin(Api)
    BY <1>4 DEF StoreCommit, StoreTicket
  <2> QED
    BY <1>1, <2>1 DEF SetBegin
<1>5. ASSUME ApiStep PROVE Goal
  BY <1>1, <1>3, <1>5, DriftConstants DEF ApiStep, SetReturns
<1>6. ASSUME NEW d \in Detectors, Detect(d) PROVE Goal
  <2>1. CASE DetectorAsks(d)
    BY <1>1, <1>3, <2>1, DriftConstants DEF DetectorAsks, ListAsks, ReadOnly
  <2>2. CASE ~DetectorAsks(d)
    <3>1. UNCHANGED <<disk, clock>>
      BY <1>6, <2>2 DEF Detect, DetectBegin, CommitsListed, TicketsListed, RaiseBegin,
         RaiseReturns, SetReturns, DetectEnds, Cancel, FailsUnsent, NextDetector, NodesOnly, vars
    <3> QED
      BY <1>1, <3>1
  <2> QED
    BY <2>1, <2>2
<1>7. ASSUME Age PROVE Goal
  BY <1>0, <1>7, DriftAssumption DEF Age
<1>8. ASSUME ArriveLate PROVE Goal
  <2>1. PICK r \in late : Apply(r.node, r.key, r.val)
    BY <1>8 DEF ArriveLate
  <2>2. r.node \in Nodes /\ r.key \in Keys /\ r.val # 0
    BY <1>0 DEF TypeOK, Requests, RolesInv
  <2>3. /\ clock' = clock + Gap
        /\ disk' = [disk EXCEPT ![r.node][r.key] = [val |-> r.val, ver |-> clock' + Skew[r.node]]]
    BY <2>1, <2>2, Zenon DEF Apply
  <2> QED
    BY <1>2, <2>2, <2>3
<1>9. ASSUME NodeStep PROVE Goal
  BY <1>1, <1>8, <1>9 DEF NodeStep, NodeCrash, NodeRestart
<1>10. ASSUME UNCHANGED dvars PROVE Goal
  BY <1>1, <1>10 DEF dvars, vars
<1> QED
  BY <1>4, <1>5, <1>6, <1>7, <1>9, <1>10 DEF DNext

(* When a pass began, and what its list has found.                           *)
LEMMA BegunEffects ==
  ASSUME BaseInv, [DNext]_dvars, NEW d \in Detectors
  PROVE  /\ pass'[d].begun = pass[d].begun \/ pass'[d].begun = clock \/ pass'[d].begun = 0
         /\ pass'[d].clean /\ ~DetectBegin(d) => pass'[d].begun = pass[d].begun
         /\ op'[d].kind = "list" =>
              \/ \A k \in Keys : op'[d].found[k] = NoFact
              \/ /\ op[d].kind = "list"
                 /\ \/ op'[d].found = op[d].found
                    \/ \E n \in Nodes : op'[d].found = Merge(op[d].found, disk[n], op[d].prefix)
<1>0. DTypeOK /\ d \in Clients
  BY DriftConstants DEF BaseInv
<1>1. CASE Age
  <2>1. pass'[d] = NoPass /\ op'[d] = op[d]
    BY <1>0, <1>1 DEF Age
  <2> QED
    BY <2>1, NoPassType
<1>2. CASE op'[d] = op[d] /\ pass'[d] = pass[d]
  BY <1>2
<1>3. CASE DetectBegin(d)
  <2>1. op'[d].found = [k \in Keys |-> NoFact] /\ pass'[d].begun = clock
    BY <1>3, DetectBeginStep
  <2> QED
    BY <1>3, <2>1
<1>4. CASE CommitsListed(d)
  <2>1. op'[d].found = [k \in Keys |-> NoFact] /\ pass'[d].begun = pass[d].begun
    BY <1>4, CommitsListedStep
  <2> QED
    BY <2>1
<1>5. CASE TicketsListed(d)
  BY <1>5, TicketsListedStep DEF Idle
<1>6. CASE RaiseBegin(d)
  BY <1>6, RaiseBeginStep
<1>7. CASE RaiseReturns(d) \/ DetectorAsks(d)
  <2>1. pass' = pass /\ (SetReturns(d) \/ SetAsks(d) \/ ListAsks(d))
    BY <1>7 DEF RaiseReturns, DetectorAsks, driftVars
  <2>2. CASE SetReturns(d)
    BY <1>0, <2>1, <2>2, SetReturnsRole DEF Idle
  <2>3. CASE SetAsks(d)
    BY <1>0, <2>1, <2>3, SetAsksRole DEF SameCall
  <2>4. CASE ListAsks(d)
    BY <2>1, <2>4, ListAsksRole
  <2> QED
    BY <2>1, <2>2, <2>3, <2>4
<1>8. CASE FailsUnsent(d)
  BY <1>8, FailsUnsentStep DEF SameCall
<1>9. CASE DetectEnds(d)
  <2>1. pass'[d] = [pass[d] EXCEPT !.at = "waiting"] /\ op' = op
    BY <1>0, <1>9 DEF DetectEnds, DTypeOK, vars
  <2>2. pass'[d].begun = pass[d].begun
    BY <1>0, <2>1, PassFields DEF Pass
  <2> QED
    BY <2>1, <2>2
<1>10. CASE Cancel(d)
  <2>1. pass'[d] = [pass[d] EXCEPT !.clean = FALSE, !.begun = 0] /\ op' = op
    BY <1>0, <1>10 DEF Cancel, DTypeOK, vars
  <2>2. pass'[d].begun = 0 /\ ~pass'[d].clean
    BY <1>0, <2>1, PassFields DEF Pass
  <2> QED
    BY <2>1, <2>2
<1>11. CASE NextDetector(d)
  <2>1. pass'[d] = NoPass /\ op' = op
    BY <1>0, <1>11 DEF NextDetector, DTypeOK, vars
  <2> QED
    BY <2>1, NoPassType
<1> QED
  BY <1>1, <1>2, <1>3, <1>4, <1>5, <1>6, <1>7, <1>8, <1>9, <1>10, <1>11, OthersStay DEF Detect

(* Copies get younger only, and stay as old as their versions say.           *)
LEMMA AgeNext ==
  ASSUME BaseInv, BaseInv', [DNext]_dvars, AgeInv
  PROVE  AgeInv' /\ \A n \in Nodes, k \in Keys : disk[n][k].ver <= disk'[n][k].ver
<1>0. /\ TypeOK /\ clock \in Nat /\ clock' \in Nat
      /\ \A n \in Nodes, k \in Keys : disk[n][k].ver \in Nat /\ disk'[n][k].ver \in Nat
      /\ \A n \in Nodes : Skew[n] \in Nat
  <2>1. TypeOK /\ TypeOK'
    BY DEF BaseInv, TypeInv
  <2>2. /\ disk \in [Nodes -> [Keys -> Fact]] /\ disk' \in [Nodes -> [Keys -> Fact]]
        /\ clock \in Nat /\ clock' \in Nat
    BY <2>1 DEF TypeOK
  <2> QED
    BY <2>1, <2>2, FactNumbers
<1>1. /\ clock' >= clock
      /\ \A n \in Nodes, k \in Keys :
           disk'[n][k] = disk[n][k] \/ disk'[n][k].ver = clock' + Skew[n]
  BY StoredNow
<1>2. ASSUME NEW n \in Nodes, NEW k \in Keys
      PROVE  /\ disk[n][k].ver <= disk'[n][k].ver
             /\ disk'[n][k].ver <= clock' + Skew[n]
  <2>1. PICK a \in Nat, b \in Nat, s \in Nat, t \in Nat, u \in Nat :
          /\ a = disk[n][k].ver /\ b = disk'[n][k].ver /\ s = Skew[n]
          /\ t = clock /\ u = clock'
    BY <1>0
  <2>2. a <= t + s /\ u >= t /\ (b = a \/ b = u + s)
    BY <1>1, <2>1 DEF AgeInv
  <2>3. a <= b /\ b <= u + s
    BY <2>2
  <2> QED
    BY <2>1, <2>3
<1>3. ASSUME NEW d \in Detectors PROVE pass'[d].begun <= clock'
  <2>1. pass[d].begun \in Nat /\ pass[d].begun <= clock
    BY PassFields DEF BaseInv, AgeInv
  <2>2. pass'[d].begun = pass[d].begun \/ pass'[d].begun = clock \/ pass'[d].begun = 0
    BY BegunEffects
  <2> QED
    BY <1>0, <1>1, <2>1, <2>2
<1>4. ASSUME NEW d \in Detectors, NEW k \in Keys, op'[d].kind = "list"
      PROVE  \E n \in Nodes : op'[d].found[k].ver <= disk'[n][k].ver
  <2>1. ASSUME NEW n \in Nodes, op'[d].found[k] = disk[n][k] PROVE op'[d].found[k].ver <= disk'[n][k].ver
    BY <1>2, <2>1
  <2>2. CASE op[d].kind = "list" /\ op'[d].found[k] = op[d].found[k]
    <3>1. PICK n \in Nodes : op[d].found[k].ver <= disk[n][k].ver
      BY <2>2 DEF AgeInv
    <3>2. op[d].found[k].ver \in Nat
      BY <1>0, <2>2, CallFields, FactNumbers, DriftConstants DEF Calls
    <3>3. PICK f \in Nat, a \in Nat, b \in Nat :
            f = op[d].found[k].ver /\ a = disk[n][k].ver /\ b = disk'[n][k].ver
      BY <1>0, <3>2
    <3>4. f <= a /\ a <= b
      BY <1>2, <3>1, <3>3
    <3>5. f <= b
      BY <3>4
    <3> QED
      BY <2>2, <3>3, <3>5
  <2>3. CASE op'[d].found[k] = NoFact
    <3>1. Primary[k] \in Nodes
      BY StoreAssumption
    <3> QED
      BY <1>0, <2>3, <3>1, FactNumbers
  <2>4. CASE op[d].kind = "list" /\ op'[d].found # op[d].found /\ op'[d].found[k] # NoFact
    <3>1. PICK n \in Nodes : op'[d].found = Merge(op[d].found, disk[n], op[d].prefix)
      BY <1>4, <2>4, BegunEffects
    <3>2. op'[d].found[k] = disk[n][k] \/ op'[d].found[k] = op[d].found[k]
      BY <3>1 DEF Merge
    <3> QED
      BY <2>1, <2>2, <2>4, <3>2
  <2> QED
    BY <1>4, <2>2, <2>3, <2>4, BegunEffects
<1> QED
  BY <1>2, <1>3, <1>4 DEF AgeInv
(* A ticket that is silent after a step of a clean pass was silent before.   *)
LEMMA SilentBefore ==
  ASSUME BaseInv, BaseInv', [DNext]_dvars, AgeInv, NEW d \in Detectors, NEW t \in Tickets,
         pass'[d].begun = pass[d].begun, Silent(d, t)'
  PROVE  Silent(d, t)
<1> SUFFICES ASSUME NEW n \in Nodes PROVE disk[n][t].ver + StaleAfter <= pass[d].begun
  BY DEF Silent
<1>1. t \in Keys /\ disk[n][t].ver <= disk'[n][t].ver
  BY AgeNext, DriftConstants
<1>2. disk'[n][t].ver + StaleAfter <= pass[d].begun
  BY DEF Silent
<1>3. disk[n] \in [Keys -> Fact] /\ disk'[n] \in [Keys -> Fact]
  BY DEF BaseInv, TypeInv, TypeOK
<1>4. PICK a \in Nat, b \in Nat, s \in Nat, g \in Nat :
        a = disk[n][t].ver /\ b = disk'[n][t].ver /\ s = StaleAfter /\ g = pass[d].begun
  BY <1>1, <1>3, FactNumbers, DriftAssumption, PassFields DEF BaseInv
<1>5. a + s <= g
  BY <1>1, <1>2, <1>4
<1> QED
  BY <1>4, <1>5

(* When both lists are there, a silent ticket that no commit mentions is     *)
(* stale: the copy found is no younger than those on the nodes, and all of   *)
(* them were staleAfter old when the pass began (drift.go:84-98).            *)
LEMMA SilentIsStale ==
  ASSUME BaseInv, AgeInv, NEW d \in Detectors, NEW t \in Tickets,
         pass[d].at = "tickets", op[d].todo = {},
         WillFind(d, t), Unmentioned(t), Silent(d, t)
  PROVE  t \in Stale(BothFound(d))
<1>0. /\ t \in Keys /\ ListedNext = Tickets /\ d \in Clients
      /\ op[d].kind = "list" /\ op[d] \in Calls
  BY DriftConstants, CallFields DEF BaseInv, TypeInv, RolesInv, PassRole
<1>1. op[d].found[t] # NoFact /\ BothFound(d)[t] = op[d].found[t]
  BY <1>0, FoundAtEnd DEF BothFound
<1>2. PICK n \in Nodes : op[d].found[t].ver <= disk[n][t].ver
  BY <1>0 DEF AgeInv
<1>3. /\ disk[n] \in [Keys -> Fact] /\ op[d].found \in [Keys -> Fact] /\ clock \in Nat
  BY <1>0 DEF BaseInv, TypeInv, TypeOK, Calls
<1>4. PICK f \in Nat, a \in Nat, s \in Nat, g \in Nat, u \in Nat :
        /\ f = op[d].found[t].ver /\ a = disk[n][t].ver /\ s = StaleAfter
        /\ g = pass[d].begun /\ u = clock
  BY <1>0, <1>3, FactNumbers, DriftAssumption, PassFields DEF BaseInv
<1>5. f <= a /\ a + s <= g /\ g <= u
  BY <1>2, <1>4 DEF Silent, AgeInv
<1>6. u - f >= s
  BY <1>5
<1>7. clock - BothFound(d)[t].ver >= StaleAfter
  BY <1>1, <1>4, <1>6
<1>8. t \in Found(BothFound(d), Tickets)
  BY <1>1 DEF Found
<1>9. \A c \in Found(BothFound(d), Commits) : t \notin mentions[c]
  BY DEF Unmentioned, Found
<1> HIDE DEF BothFound
<1> QED
  BY <1>7, <1>8, <1>9 DEF Stale

(* The step of a clean pass takes every such ticket along: it is found, then *)
(* in todo, then its alert is set, and then it is stored.                    *)
LEMMA SilentOnItsWayNext ==
  ASSUME BaseInv, BaseInv', Effects, OneFailure', KeptInv, AgeInv, NEW d \in Detectors,
         \/ Detect(d) /\ ~DetectBegin(d)
         \/ op'[d] = op[d] /\ pass'[d] = pass[d],
         d \notin cancelled, pass'[d].clean, NEW t \in Tickets, acked[t] # 0,
         Unmentioned(t), Silent(d, t), SilentOnItsWay(d, t)
  PROVE  SilentOnItsWay(d, t)'
<1>0. DTypeOK /\ t \in Keys /\ t \in Commits \cup Tickets /\ ListedNext = Tickets /\ d \in Clients
  BY DriftConstants DEF BaseInv
<1>1. pass[d].at = "tickets" => op[d].kind = "list" /\ op[d].prefix = Tickets
  BY <1>0 DEF BaseInv, RolesInv, PassRole
<1>2. CASE op'[d] = op[d] /\ pass'[d] = pass[d]
  <2>1. WillRaise(d, t)'
    BY <1>0, <1>2, WillRaiseStays DEF SilentOnItsWay
  <2>2. pass[d].at = "tickets" => WillFind(d, t)'
    BY <1>0, <1>2, WillFindStays DEF SilentOnItsWay
  <2> QED
    BY <1>2, <2>1, <2>2 DEF SilentOnItsWay
<1>3. CASE CommitsListed(d)
  <2>1. op'[d].todo = Nodes /\ pass'[d].at = "tickets"
    BY <1>3, CommitsListedStep
  <2>2. WillFind(d, t)'
    BY <1>0, <2>1, WillFindStarts
  <2> QED
    BY <2>1, <2>2 DEF SilentOnItsWay, WillRaise
<1>4. CASE TicketsListed(d)
  <2>1. /\ pass[d].at = "tickets" /\ op[d].todo = {} /\ pass'[d].at = "raising"
        /\ pass'[d].todo = Untracked(BothFound(d)) \cup Stale(BothFound(d))
    BY <1>4, TicketsListedStep
  <2>2. t \in Stale(BothFound(d))
    BY <2>1, SilentIsStale DEF SilentOnItsWay
  <2>3. t \in pass'[d].todo
    BY <2>1, <2>2
  <2> QED
    BY <2>1, <2>3 DEF SilentOnItsWay, WillRaise
<1>5. CASE RaiseBegin(d) \/ RaiseReturns(d) \/ DetectEnds(d)
  <2>1. WillRaise(d, t)' /\ pass'[d].at \in {"raising", "waiting"}
    BY <1>0, <1>5, WillRaiseNext DEF SilentOnItsWay
  <2> QED
    BY <2>1 DEF SilentOnItsWay
<1>6. CASE DetectorAsks(d)
  <2>1. pass' = pass /\ UNCHANGED driftVars
    BY <1>6 DEF DetectorAsks, driftVars
  <2>2. CASE SetAsks(d)
    <3>1. op[d].kind = "set" /\ op'[d].kind = "set" /\ op'[d].key = op[d].key
      BY <1>0, <2>1, <2>2, SetAsksRole DEF SameCall
    <3>2. WillRaise(d, t)'
      BY <1>0, <2>1, <3>1, WillRaiseStays DEF SilentOnItsWay
    <3> QED
      BY <1>1, <2>1, <3>1, <3>2 DEF SilentOnItsWay
  <2>3. CASE ListAsks(d)
    <3>1. op[d].kind = "list"
      BY <2>3 DEF ListAsks
    <3>2. WillRaise(d, t)'
      BY <1>0, <2>1, <3>1, WillRaiseStays DEF SilentOnItsWay
    <3>3. pass[d].at = "tickets" => WillFind(d, t)'
      BY <1>0, <1>1, <2>1, <2>3, WillFindAsks DEF SilentOnItsWay
    <3> QED
      BY <2>1, <3>2, <3>3 DEF SilentOnItsWay
  <2> QED
    BY <1>6, <2>2, <2>3 DEF DetectorAsks
<1>7. CASE Cancel(d)
  <2>1. pass'[d] = [pass[d] EXCEPT !.clean = FALSE, !.begun = 0]
    BY <1>0, <1>7 DEF Cancel, DTypeOK
  <2>2. pass'[d].clean = FALSE
    BY <1>0, <2>1, PassFields DEF Pass
  <2> QED
    BY <2>2
<1>8. CASE FailsUnsent(d) \/ NextDetector(d)
  BY <1>8 DEF FailsUnsent, NextDetector
<1> QED
  BY <1>2, <1>3, <1>4, <1>5, <1>6, <1>7, <1>8 DEF Detect

LEMMA SilentNext ==
  ASSUME BaseInv, BaseInv', [DNext]_dvars, Effects, OneFailure => KeptInv, RaisedInv,
         AgeInv, SilentInv
  PROVE  SilentInv'
<1>1. CASE Age
  <2>1. /\ acked' = acked /\ old' = old \cup {t \in Tickets : acked[t] # 0}
        /\ pass' = [d \in Detectors |-> NoPass]
    BY <1>1 DEF Age
  <2>2. \A d \in Detectors : pass'[d].clean = FALSE
    BY <2>1, NoPassType
  <2> QED
    BY <2>1, <2>2 DEF SilentInv
<1>2. CASE ~Age
  <2>0. old' = old /\ old \subseteq Tickets
    BY <1>2 DEF DNext, dvars, driftVars, StoreCommit, StoreTicket, ApiStep, NodeStep, Detect,
       DetectBegin, CommitsListed, TicketsListed, RaiseBegin, RaiseReturns, DetectEnds,
       DetectorAsks, Cancel, FailsUnsent, NextDetector, BaseInv, DTypeOK
  <2>1. \A t \in old : acked[t] # 0 /\ acked'[t] # 0
    BY <2>0, FactStays DEF SilentInv
  <2>2. ASSUME OneFailure', NEW d \in Detectors, pass'[d].clean,
               NEW t \in old, Unmentioned(t)', Silent(d, t)'
        PROVE  SilentOnItsWay(d, t)'
    <3>0. OneFailure /\ t \in Tickets /\ acked[t] # 0 /\ Unmentioned(t)
      BY <2>0, <2>1, <2>2, StoredStays DEF Unmentioned, Effects, FailEffects
    <3>1. CASE DetectBegin(d)
      <4>1. pass'[d].at = "commits"
        BY <3>1, DetectBeginStep
      <4> QED
        BY <4>1 DEF SilentOnItsWay, WillRaise
    <3>2. CASE ~DetectBegin(d)
      <4>1. \/ Detect(d) /\ pass[d].clean
            \/ op'[d] = op[d] /\ pass'[d] = pass[d]
        BY <1>2, <2>2, <3>2, OthersStay, SameKnown
      <4>2. pass[d].clean /\ d \notin cancelled
        BY <2>2, <4>1 DEF RaisedInv
      <4>3. Silent(d, t)
        BY <2>2, <3>0, <3>2, BegunEffects, SilentBefore
      <4>4. SilentOnItsWay(d, t)
        BY <3>0, <4>2, <4>3 DEF SilentInv
      <4> QED
        BY <2>2, <3>0, <3>2, <4>1, <4>2, <4>3, <4>4, SilentOnItsWayNext
    <3> QED
      BY <3>1, <3>2
  <2> QED
    BY <2>0, <2>1, <2>2 DEF SilentInv
<1> QED
  BY <1>1, <1>2

(* After a pass that was not cancelled every ticket that was acknowledged    *)
(* staleAfter ago, that no commit mentions, and of which every copy was      *)
(* staleAfter old when the pass began, has an alert (drift.go:81-101), for   *)
(* any number of commits, tickets and detectors, any staleAfter and any      *)
(* difference between the nodes' clocks, and although one request, or one    *)
(* node, fails.                                                              *)
THEOREM SilentTicketsRaisedHolds == DSpec => []SilentTicketsRaised
<1> DEFINE Inv == BaseInv /\ (OneFailure => KeptInv) /\ RaisedInv /\ AgeInv /\ SilentInv
<1>1. DInit => Inv
  <2> SUFFICES ASSUME DInit PROVE Inv
    OBVIOUS
  <2>1. KeptInv
    BY DriftConstants DEF DInit, Init, KeptInv, Idle
  <2>2. \A d \in Detectors : pass[d] = NoPass /\ op[d] = Idle
    BY DriftConstants DEF DInit, Init
  <2>3. RaisedInv /\ SilentInv
    BY <2>2, NoPassType DEF RaisedInv, SilentInv, DInit
  <2>4. AgeInv
    <3>1. clock = 0 /\ \A n \in Nodes, k \in Keys : disk[n][k] = NoFact
      BY DEF DInit, Init
    <3> QED
      BY <2>2, <3>1, NoPassType, FactNumbers DEF AgeInv, Idle
  <2> QED
    BY <2>1, <2>3, <2>4, InitBaseInv
<1>2. Inv /\ [DNext]_dvars => Inv'
  <2> SUFFICES ASSUME Inv, [DNext]_dvars PROVE Inv'
    OBVIOUS
  <2>1. BaseInv'
    BY NextBaseInv
  <2>2. Effects
    BY <2>1, StepEffects
  <2>3. OneFailure' => KeptInv'
    BY <2>1, <2>2, StoredStays, KeptNext
  <2>4. RaisedInv' /\ AgeInv' /\ SilentInv'
    BY <2>1, <2>2, RaisedNext, AgeNext, SilentNext
  <2> QED
    BY <2>1, <2>3, <2>4
<1>3. Inv => SilentTicketsRaised
  BY DEF SilentInv, SilentOnItsWay, WillRaise, SilentTicketsRaised, Cleared
<1> QED
  BY <1>1, <1>2, <1>3, PTL DEF DSpec
=============================================================================
