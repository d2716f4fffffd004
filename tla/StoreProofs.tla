---------------------------- MODULE StoreProofs ----------------------------
(***************************************************************************)
(* Proofs about ReplicatedStore for any nodes, keys and clients, and any   *)
(* numbers of calls, failing requests, late requests and crashes.          *)
(***************************************************************************)
EXTENDS ReplicatedStore, TLAPS

(* Where the loops of Set, Delete and Get are, and how many requests failed  *)
(* so far (replication.go:40-73).                                           *)
Loop(c, call) ==
  /\ call.kind \in {"set", "delete"} =>
       /\ call.key \in WritesTo[c]
       /\ \/ call.todo = Targets(call.key) /\ call.errs = 0
          \/ call.todo = {Replica[call.key]} /\ call.errs \in 0..1
          \/ call.todo = {} /\ call.errs \in 0..2
  /\ call.kind = "set" => call.val # 0
  /\ call.kind = "delete" => call.val = 0 /\ Deletes
  /\ call.kind = "get" => call.todo \subseteq Targets(call.key)

LoopInv == \A c \in Clients : Loop(c, op[c])

-----------------------------------------------------------------------------
(* Calls *)

(* The fields of a call that is under way.                                  *)
LEMMA CallFields ==
  ASSUME TypeOK, NEW c \in Clients, op[c].kind # "idle"
  PROVE  op[c] \in Calls
BY DEF TypeOK, Idle

(* What a call begins with: nothing found, and what is acknowledged.        *)
LEMMA Blank ==
  ASSUME TypeOK
  PROVE  /\ [j \in Keys |-> NoFact] \in [Keys -> Fact]
         /\ [j \in Keys |-> 0] \in [Keys -> 0..MaxWrites]
         /\ acked \in [Keys -> 0..MaxWrites]
         /\ 0 \in 0..MaxWrites
BY StoreAssumption DEF NoFact, Fact, TypeOK

LEMMA NewListCall ==
  ASSUME TypeOK, NEW prefix \in SUBSET Keys
  PROVE  /\ ListCall(prefix) \in Calls
         /\ ListCall(prefix).kind = "list" /\ ListCall(prefix).todo = Nodes
         /\ ListCall(prefix).errs = 0 /\ ListCall(prefix).missed = FALSE
         /\ ListCall(prefix).prefix = prefix /\ ListCall(prefix).floor = acked
         /\ ListCall(prefix).found = [j \in Keys |-> NoFact]
<1>1. PICK k \in Keys : ListCall(prefix) = [Call("list", k, 0, Nodes) EXCEPT !.prefix = prefix]
  BY StoreAssumption DEF ListCall
<1>2. ListCall(prefix) =
        [kind |-> "list", key |-> k, val |-> 0, todo |-> Nodes, errs |-> 0,
         prefix |-> prefix, found |-> [j \in Keys |-> NoFact], missed |-> FALSE,
         floor |-> acked]
  BY <1>1 DEF Call
<1> QED
  BY <1>2, Blank DEF Calls

(* The updates that an operation makes to its call.                         *)
LEMMA CallUpdates ==
  ASSUME NEW call \in Calls, NEW todo \in SUBSET Nodes
  PROVE  /\ [call EXCEPT !.todo = todo] \in Calls
         /\ [call EXCEPT !.todo = todo, !.missed = TRUE] \in Calls
         /\ \A f \in [Keys -> Fact] : [call EXCEPT !.todo = todo, !.found = f] \in Calls
         /\ \A e \in 0..2 : [call EXCEPT !.todo = todo, !.errs = e] \in Calls
BY DEF Calls

(* A client's own step keeps the calls well-formed if its new call is.      *)
LEMMA OneCallChanges ==
  ASSUME TypeOK, LoopInv, NEW c \in Clients, NEW call \in Calls \cup {Idle},
         Loop(c, call), op' = [op EXCEPT ![c] = call]
  PROVE  /\ op' \in [Clients -> Calls \cup {Idle}] /\ LoopInv'
         /\ op'[c] = call /\ \A d \in Clients \ {c} : op'[d] = op[d]
<1>1. /\ op' \in [Clients -> Calls \cup {Idle}]
      /\ op'[c] = call /\ \A d \in Clients \ {c} : op'[d] = op[d]
  BY DEF TypeOK
<1>2. \A d \in Clients : Loop(d, op'[d])
  BY <1>1 DEF LoopInv
<1> QED
  BY <1>1, <1>2 DEF LoopInv, Loop

LEMMA IdleLoop == ASSUME NEW c PROVE Loop(c, Idle)
BY DEF Loop, Idle

(* Forget changes what the calls should find, and nothing else.             *)
LEMMA ForgottenCall ==
  ASSUME TypeOK, LoopInv, NEW k \in Keys, NEW c \in Clients, op[c] # Idle
  PROVE  /\ op[c] \in Calls /\ Forget(k)[c] \in Calls
         /\ Forget(k)[c] # Idle /\ Loop(c, Forget(k)[c])
         /\ Forget(k)[c].kind = op[c].kind /\ Forget(k)[c].key = op[c].key
         /\ Forget(k)[c].todo = op[c].todo /\ Forget(k)[c].errs = op[c].errs
         /\ Forget(k)[c].val = op[c].val /\ Forget(k)[c].found = op[c].found
         /\ Forget(k)[c].prefix = op[c].prefix
         /\ Forget(k)[c].floor = [op[c].floor EXCEPT ![k] = 0]
<1>1. op[c] \in Calls
  BY DEF TypeOK
<1>2. Forget(k)[c] =
        [op[c] EXCEPT !.floor = [op[c].floor EXCEPT ![k] = 0],
                      !.missed = @ \/ (op[c].kind = "set" /\ op[c].key = k)]
  BY <1>1 DEF Forget, Calls
<1>3. [op[c].floor EXCEPT ![k] = 0] \in [Keys -> 0..MaxWrites]
  BY <1>1, StoreAssumption DEF Calls
<1>4. (op[c].missed \/ (op[c].kind = "set" /\ op[c].key = k)) \in BOOLEAN
  OBVIOUS
<1>5. /\ Forget(k)[c] \in Calls
      /\ Forget(k)[c].kind = op[c].kind /\ Forget(k)[c].key = op[c].key
      /\ Forget(k)[c].todo = op[c].todo /\ Forget(k)[c].errs = op[c].errs
      /\ Forget(k)[c].val = op[c].val
  BY <1>1, <1>2, <1>3, <1>4 DEF Calls
<1>6. /\ Forget(k)[c].found = op[c].found /\ Forget(k)[c].prefix = op[c].prefix
      /\ Forget(k)[c].floor = [op[c].floor EXCEPT ![k] = 0]
  BY <1>1, <1>2, <1>3, <1>4 DEF Calls
<1>7. Forget(k)[c] # Idle
  BY <1>1, <1>5 DEF Calls, Idle
<1>8. Loop(c, Forget(k)[c])
  BY <1>5 DEF LoopInv, Loop
<1> QED
  BY <1>1, <1>5, <1>6, <1>7, <1>8

(* What a Set under way stores before the delete may be gone.               *)
LEMMA ForgottenMissed ==
  ASSUME TypeOK, NEW k \in Keys, NEW c \in Clients, op[c] # Idle
  PROVE  /\ ~Forget(k)[c].missed => ~op[c].missed
         /\ op[c].kind = "set" /\ op[c].key = k => Forget(k)[c].missed
<1>1. op[c] \in Calls
  BY DEF TypeOK
<1>2. Forget(k)[c] =
        [op[c] EXCEPT !.floor = [op[c].floor EXCEPT ![k] = 0],
                      !.missed = @ \/ (op[c].kind = "set" /\ op[c].key = k)]
  BY <1>1 DEF Forget, Calls
<1>3. Forget(k)[c].missed <=> (op[c].missed \/ (op[c].kind = "set" /\ op[c].key = k))
  BY <1>1, <1>2 DEF Calls
<1> QED
  BY <1>3, Zenon

LEMMA ForgetFields ==
  ASSUME TypeOK, LoopInv, NEW k \in Keys
  PROVE  /\ Forget(k) \in [Clients -> Calls \cup {Idle}]
         /\ \A c \in Clients : Loop(c, Forget(k)[c])
         /\ \A c \in Clients : op[c] = Idle <=> Forget(k)[c] = Idle
<1>1. ASSUME NEW c \in Clients, op[c] = Idle PROVE Forget(k)[c] = Idle
  BY <1>1 DEF Forget
<1>2. ASSUME NEW c \in Clients
      PROVE  /\ Forget(k)[c] \in Calls \cup {Idle} /\ Loop(c, Forget(k)[c])
             /\ op[c] = Idle <=> Forget(k)[c] = Idle
  <2>1. CASE op[c] = Idle
    BY <1>1, <2>1, IdleLoop
  <2>2. CASE op[c] # Idle
    BY <2>2, ForgottenCall
  <2> QED
    BY <2>1, <2>2
<1>3. Forget(k) = [c \in Clients |-> Forget(k)[c]]
  BY Zenon DEF Forget
<1> QED
  BY <1>2, <1>3

-----------------------------------------------------------------------------
(* Types *)

LEMMA ApplyType ==
  ASSUME TypeOK, NEW n \in Nodes, NEW k \in Keys, NEW v \in 0..MaxWrites, Apply(n, k, v)
  PROVE  disk' \in [Nodes -> [Keys -> Fact]] /\ clock' \in Nat /\ clock' >= clock
<1>1. NoFact \in Fact /\ clock \in Nat /\ Gap \in Nat /\ Skew[n] \in Nat
  BY StoreAssumption DEF NoFact, Fact, TypeOK
<1>2. CASE v = 0
  <2>1. disk' = [disk EXCEPT ![n][k] = NoFact] /\ clock' = clock
    BY <1>2 DEF Apply
  <2> QED
    BY <1>1, <2>1 DEF TypeOK
<1>3. CASE v # 0
  <2>1. /\ clock' = clock + Gap
        /\ disk' = [disk EXCEPT ![n][k] = [val |-> v, ver |-> clock' + Skew[n]]]
    BY <1>3, Zenon DEF Apply
  <2>2. clock' \in Nat /\ clock' >= clock /\ clock' + Skew[n] \in Nat
    BY <1>1, <2>1
  <2>3. [val |-> v, ver |-> clock' + Skew[n]] \in Fact
    BY <2>2 DEF Fact
  <2>4. disk' \in [Nodes -> [Keys -> Fact]]
    BY <2>1, <2>3 DEF TypeOK
  <2> QED
    BY <2>2, <2>4
<1> QED
  BY <1>2, <1>3

LEMMA RequestType ==
  ASSUME TypeOK, NEW n \in Nodes, NEW k \in Keys, NEW v \in 0..MaxWrites,
         Answered(n, k, v) \/ Errs(n, k, v)
  PROVE  /\ disk' \in [Nodes -> [Keys -> Fact]] /\ clock' \in Nat
         /\ late' \subseteq Requests
         /\ faults' \in 0..MaxFaults /\ lates' \in 0..MaxLate /\ crashes' \in 0..MaxCrashes
<1>1. Apply(n, k, v) \/ UNCHANGED <<disk, clock>>
  BY DEF Answered, Errs
<1>2. disk' \in [Nodes -> [Keys -> Fact]] /\ clock' \in Nat
  BY <1>1, ApplyType DEF TypeOK
<1>3. [node |-> n, key |-> k, val |-> v] \in Requests
  BY DEF Requests
<1> QED
  BY <1>2, <1>3, StoreAssumption DEF TypeOK, Answered, Errs, Fault, counters

(* The node that is asked next is one of the call's.                        *)
LEMMA NextTargetInTodo ==
  ASSUME TypeOK, LoopInv, NEW c \in Clients, op[c].kind \in {"set", "delete", "get"},
         op[c].todo # {}
  PROVE  /\ op[c] \in Calls /\ op[c] # Idle
         /\ NextTarget(c) \in op[c].todo /\ NextTarget(c) \in Nodes
         /\ Asked(c, NextTarget(c)) \in SUBSET Nodes
<1>1. op[c] \in Calls
  BY CallFields
<1>2. Loop(c, op[c])
  BY DEF LoopInv
<1> QED
  BY <1>1, <1>2, StoreAssumption DEF Loop, NextTarget, Asked, Targets, Calls, Idle

(* Asking a node changes nothing of what was asked for.                     *)
SameCall(call, old) ==
  /\ call.kind = old.kind /\ call.key = old.key /\ call.val = old.val
  /\ call.floor = old.floor /\ call.prefix = old.prefix

(* Every action of a client replaces its call by another well-formed one.   *)
LEMMA SetAsksCall ==
  ASSUME TypeOK, LoopInv, NEW c \in Clients, SetAsks(c)
  PROVE  \E call \in Calls :
           /\ Loop(c, call) /\ op' = [op EXCEPT ![c] = call]
           /\ SameCall(call, op[c]) /\ call.missed = op[c].missed
           /\ call.todo = Asked(c, NextTarget(c))
           /\ \/ /\ Answered(NextTarget(c), op[c].key, op[c].val)
                 /\ call.errs = op[c].errs
              \/ /\ Errs(NextTarget(c), op[c].key, op[c].val)
                 /\ call.errs = op[c].errs + 1
<1> DEFINE n == NextTarget(c)
<1>1. /\ op[c] \in Calls /\ n \in op[c].todo /\ n \in Nodes
      /\ Asked(c, n) \in SUBSET Nodes
  BY NextTargetInTodo DEF SetAsks
<1>2. Loop(c, op[c])
  BY DEF LoopInv
<1>3. Asked(c, n) = IF op[c].todo = {Replica[op[c].key]} THEN {} ELSE {Replica[op[c].key]}
  BY <1>1, <1>2, StoreAssumption DEF SetAsks, Loop, NextTarget, Asked, Targets, Calls
<1>4. CASE Answered(n, op[c].key, op[c].val) /\ op' = [op EXCEPT ![c].todo = Asked(c, n)]
  <2> DEFINE call == [op[c] EXCEPT !.todo = Asked(c, n)]
  <2>1. op' = [op EXCEPT ![c] = call]
    BY <1>4 DEF TypeOK
  <2>2. call \in Calls
    BY <1>1, CallUpdates
  <2>3. /\ SameCall(call, op[c]) /\ call.missed = op[c].missed
        /\ call.todo = Asked(c, n) /\ call.errs = op[c].errs
    BY <1>1 DEF SameCall, Calls
  <2>4. Loop(c, call)
    BY <1>1, <1>2, <1>3, <2>3 DEF SetAsks, Loop, SameCall, Calls
  <2> QED
    BY <1>4, <2>1, <2>2, <2>3, <2>4
<1>5. CASE /\ Errs(n, op[c].key, op[c].val)
           /\ op' = [op EXCEPT ![c].todo = Asked(c, n), ![c].errs = @ + 1]
  <2>1. op[c].errs + 1 \in 0..2
    BY <1>1, <1>2, <1>3, StoreAssumption DEF SetAsks, Loop, Calls, Targets
  <2> DEFINE call == [op[c] EXCEPT !.todo = Asked(c, n), !.errs = op[c].errs + 1]
  <2>2. op' = [op EXCEPT ![c] = call]
    BY <1>5 DEF TypeOK
  <2>3. call \in Calls
    BY <1>1, <2>1, CallUpdates
  <2>4. /\ SameCall(call, op[c]) /\ call.missed = op[c].missed
        /\ call.todo = Asked(c, n) /\ call.errs = op[c].errs + 1
    BY <1>1 DEF SameCall, Calls
  <2>5. Loop(c, call)
    <3>1. /\ op[c].kind = call.kind /\ op[c].key = call.key /\ op[c].val = call.val
          /\ call.kind \in {"set", "delete"} /\ call.key \in Keys
          /\ call.errs = op[c].errs + 1 /\ call.errs \in 0..2 /\ op[c].errs \in 0..2
      BY <1>1, <2>1, <2>4 DEF SetAsks, SameCall, Calls
    <3>2. \/ call.todo = {Replica[call.key]} /\ op[c].errs = 0
          \/ call.todo = {}
      BY <1>1, <1>2, <1>3, <2>4, <3>1 DEF Loop
    <3> QED
      BY <1>2, <3>1, <3>2 DEF Loop
  <2> QED
    BY <1>5, <2>2, <2>3, <2>4, <2>5
<1> QED
  BY <1>4, <1>5 DEF SetAsks

LEMMA GetAsksCall ==
  ASSUME TypeOK, LoopInv, NEW c \in Clients, GetAsks(c)
  PROVE  \E call \in Calls :
           /\ Loop(c, call) /\ op' = [op EXCEPT ![c] = call]
           /\ SameCall(call, op[c])
           /\ \/ /\ call.missed = op[c].missed
                 /\ call.found =
                      [op[c].found EXCEPT ![op[c].key] = disk[NextTarget(c)][op[c].key]]
                 /\ call.found[op[c].key] = disk[NextTarget(c)][op[c].key]
                 /\ call.todo = IF disk[NextTarget(c)][op[c].key] # NoFact
                                  THEN {} ELSE Asked(c, NextTarget(c))
              \/ call.missed
<1> DEFINE n == NextTarget(c)
           k == op[c].key
           found == [op[c].found EXCEPT ![k] = disk[n][k]]
<1>1. /\ op[c] \in Calls /\ n \in op[c].todo /\ n \in Nodes
      /\ Asked(c, n) \in SUBSET Nodes
  BY NextTargetInTodo DEF GetAsks
<1>2. Loop(c, op[c])
  BY DEF LoopInv
<1>3. found \in [Keys -> Fact] /\ found[k] = disk[n][k] /\ {} \in SUBSET Nodes
  BY <1>1 DEF TypeOK, Calls
<1>4. op[c].kind = "get"
  BY DEF GetAsks
<1>5. ASSUME NEW call \in Calls, SameCall(call, op[c]), call.todo \in {{}, Asked(c, n)}
      PROVE  Loop(c, call)
  BY <1>2, <1>4, <1>5 DEF Loop, Asked, SameCall
<1>6. CASE op' = [op EXCEPT
                    ![c].todo = IF disk[n][k] # NoFact THEN {} ELSE Asked(c, n),
                    ![c].found[k] = disk[n][k]]
  <2> DEFINE todo == IF disk[n][k] # NoFact THEN {} ELSE Asked(c, n)
             call == [op[c] EXCEPT !.todo = todo, !.found = found]
  <2>1. op' = [op EXCEPT ![c] = call]
    BY <1>6 DEF TypeOK
  <2>2. call \in Calls
    BY <1>1, <1>3, CallUpdates
  <2>3. /\ SameCall(call, op[c]) /\ call.todo = todo
        /\ call.missed = op[c].missed /\ call.found = found
    BY <1>1 DEF Calls, SameCall
  <2>4. Loop(c, call)
    BY <1>5, <2>2, <2>3
  <2> QED
    BY <1>3, <2>1, <2>2, <2>3, <2>4
<1>7. CASE op' = [op EXCEPT ![c].todo = Asked(c, n), ![c].missed = TRUE]
  <2> DEFINE call == [op[c] EXCEPT !.todo = Asked(c, n), !.missed = TRUE]
  <2>1. op' = [op EXCEPT ![c] = call]
    BY <1>7 DEF TypeOK
  <2>2. call \in Calls
    BY <1>1, CallUpdates
  <2>3. SameCall(call, op[c]) /\ call.todo = Asked(c, n) /\ call.missed
    BY <1>1 DEF Calls, SameCall
  <2>4. Loop(c, call)
    BY <1>5, <2>2, <2>3
  <2> QED
    BY <2>1, <2>2, <2>3, <2>4
<1> QED
  BY <1>6, <1>7 DEF GetAsks

LEMMA MergeType ==
  ASSUME NEW found \in [Keys -> Fact], NEW facts \in [Keys -> Fact], NEW prefix
  PROVE  Merge(found, facts, prefix) \in [Keys -> Fact]
BY DEF Merge

LEMMA ListAsksCall ==
  ASSUME TypeOK, LoopInv, NEW c \in Clients, ListAsks(c)
  PROVE  \E call \in Calls, n \in Nodes :
           /\ Loop(c, call) /\ op' = [op EXCEPT ![c] = call]
           /\ SameCall(call, op[c]) /\ n \in op[c].todo
           /\ \/ /\ call.missed = op[c].missed /\ call.todo = Asked(c, n)
                 /\ call.found = Merge(op[c].found, disk[n], op[c].prefix)
              \/ call.missed /\ call.found = op[c].found
<1>1. op[c] \in Calls /\ op[c].kind = "list"
  BY CallFields DEF ListAsks
<1>2. PICK n \in op[c].todo :
        \/ op' = [op EXCEPT ![c].todo = Asked(c, n),
                            ![c].found = Merge(@, disk[n], op[c].prefix)]
        \/ op' = [op EXCEPT ![c].todo = Asked(c, n), ![c].missed = TRUE]
  BY DEF ListAsks
<1> DEFINE found == Merge(op[c].found, disk[n], op[c].prefix)
<1>3. Asked(c, n) \in SUBSET Nodes /\ n \in Nodes
  BY <1>1 DEF Asked, Calls
<1>4. found \in [Keys -> Fact]
  BY <1>1, <1>3, MergeType DEF TypeOK, Calls
<1>5. ASSUME NEW call \in Calls, SameCall(call, op[c]) PROVE Loop(c, call)
  BY <1>1, <1>5 DEF Loop, SameCall
<1>6. CASE op' = [op EXCEPT ![c].todo = Asked(c, n),
                            ![c].found = Merge(@, disk[n], op[c].prefix)]
  <2> DEFINE call == [op[c] EXCEPT !.todo = Asked(c, n), !.found = found]
  <2>1. op' = [op EXCEPT ![c] = call]
    BY <1>6 DEF TypeOK
  <2>2. call \in Calls
    BY <1>1, <1>3, <1>4, CallUpdates
  <2>3. /\ SameCall(call, op[c]) /\ call.missed = op[c].missed
        /\ call.todo = Asked(c, n) /\ call.found = found
    BY <1>1 DEF Calls, SameCall
  <2> QED
    BY <1>3, <1>5, <2>1, <2>2, <2>3
<1>7. CASE op' = [op EXCEPT ![c].todo = Asked(c, n), ![c].missed = TRUE]
  <2> DEFINE call == [op[c] EXCEPT !.todo = Asked(c, n), !.missed = TRUE]
  <2>1. op' = [op EXCEPT ![c] = call]
    BY <1>7 DEF TypeOK
  <2>2. call \in Calls
    BY <1>1, <1>3, CallUpdates
  <2>3. SameCall(call, op[c]) /\ call.missed /\ call.found = op[c].found
    BY <1>1 DEF Calls, SameCall
  <2> QED
    BY <1>3, <1>5, <2>1, <2>2, <2>3
<1> QED
  BY <1>2, <1>6, <1>7

(* The calls that begin.                                                    *)
LEMMA SetBeginCall ==
  ASSUME TypeOK, LoopInv, NEW c \in Clients, NEW k \in WritesTo[c], writes < MaxWrites
  PROVE  /\ k \in Keys /\ writes + 1 \in 1..MaxWrites
         /\ Call("set", k, writes + 1, Targets(k)) \in Calls
         /\ Loop(c, Call("set", k, writes + 1, Targets(k)))
         /\ Deletes => /\ Call("delete", k, 0, Targets(k)) \in Calls
                       /\ Loop(c, Call("delete", k, 0, Targets(k)))
<1>1. /\ k \in Keys /\ writes + 1 \in 1..MaxWrites /\ writes + 1 \in 0..MaxWrites
      /\ writes + 1 # 0 /\ 0 \in 0..MaxWrites
  BY StoreAssumption DEF TypeOK
<1>2. Targets(k) \in SUBSET Nodes
  BY <1>1, StoreAssumption DEF Targets
<1> DEFINE S == Call("set", k, writes + 1, Targets(k))
           D == Call("delete", k, 0, Targets(k))
<1>4. /\ S \in Calls /\ S.kind = "set" /\ S.key = k /\ S.val = writes + 1
      /\ S.todo = Targets(k) /\ S.errs = 0
  BY <1>1, <1>2, Blank DEF Call, Calls
<1>5. /\ D \in Calls /\ D.kind = "delete" /\ D.key = k /\ D.val = 0
      /\ D.todo = Targets(k) /\ D.errs = 0
  BY <1>1, <1>2, Blank DEF Call, Calls
<1> HIDE DEF S, D
<1>6. Loop(c, S)
  BY <1>1, <1>4 DEF Loop
<1>7. Deletes => Loop(c, D)
  BY <1>5 DEF Loop
<1> QED
  BY <1>1, <1>4, <1>5, <1>6, <1>7 DEF S, D

LEMMA ReadBeginCall ==
  ASSUME TypeOK, LoopInv, NEW c \in Clients
  PROVE  /\ \A k \in Keys : /\ Call("get", k, 0, Targets(k)) \in Calls
                            /\ Loop(c, Call("get", k, 0, Targets(k)))
         /\ ListCall(Keys) \in Calls /\ Loop(c, ListCall(Keys))
<1>1. ASSUME NEW k \in Keys
      PROVE  /\ Call("get", k, 0, Targets(k)) \in Calls
             /\ Loop(c, Call("get", k, 0, Targets(k)))
  <2>1. Targets(k) \in SUBSET Nodes /\ 0 \in 0..MaxWrites
    BY StoreAssumption DEF Targets
  <2> DEFINE G == Call("get", k, 0, Targets(k))
  <2>3. G \in Calls /\ G.kind = "get" /\ G.key = k /\ G.todo = Targets(k)
    BY <2>1, Blank DEF Call, Calls
  <2> HIDE DEF G
  <2>4. Loop(c, G)
    BY <2>3 DEF Loop
  <2> QED
    BY <2>3, <2>4 DEF G
<1>2. ListCall(Keys) \in Calls /\ ListCall(Keys).kind = "list"
  BY NewListCall
<1>3. Loop(c, ListCall(Keys))
  BY <1>2 DEF Loop
<1> QED
  BY <1>1, <1>2, <1>3

LEMMA DeleteBeginCalls ==
  ASSUME TypeOK, LoopInv, NEW c \in Clients, NEW k \in Keys, NEW call \in Calls,
         Loop(c, call), op' = [Forget(k) EXCEPT ![c] = call]
  PROVE  /\ op' \in [Clients -> Calls \cup {Idle}] /\ LoopInv'
         /\ op'[c] = call /\ \A d \in Clients \ {c} : op'[d] = Forget(k)[d]
<1>1. /\ op' \in [Clients -> Calls \cup {Idle}]
      /\ op'[c] = call /\ \A d \in Clients \ {c} : op'[d] = Forget(k)[d]
  BY ForgetFields
<1>2. \A d \in Clients : Loop(d, op'[d])
  BY <1>1, ForgetFields
<1> QED
  BY <1>1, <1>2 DEF LoopInv, Loop

TypeInv == TypeOK /\ LoopInv

LEMMA InitTypeInv == Init => TypeInv
<1>1. ASSUME Init PROVE TypeOK
  BY <1>1, StoreAssumption DEF Init, TypeOK, NoFact, Fact
<1>2. ASSUME Init PROVE LoopInv
  BY <1>2, IdleLoop DEF Init, LoopInv
<1> QED
  BY <1>1, <1>2 DEF TypeInv

LEMMA NextTypeInv == TypeInv /\ [Next]_vars => TypeInv'
<1> SUFFICES ASSUME TypeOK, LoopInv, [Next]_vars PROVE TypeOK' /\ LoopInv'
  BY DEF TypeInv
<1> USE DEF TypeOK, counters
<1>1. ASSUME NEW c \in Clients, SetBegin(c) PROVE TypeOK' /\ LoopInv'
  <2>1. PICK k \in WritesTo[c] :
          /\ writes < MaxWrites /\ writes' = writes + 1
          /\ op' = [op EXCEPT ![c] = Call("set", k, writes + 1, Targets(k))]
          /\ UNCHANGED <<disk, clock, up, acked, late, counters>>
    BY <1>1 DEF SetBegin, Begin
  <2>2. /\ writes + 1 \in 1..MaxWrites
        /\ Call("set", k, writes + 1, Targets(k)) \in Calls
        /\ Loop(c, Call("set", k, writes + 1, Targets(k)))
    BY <2>1, SetBeginCall
  <2>3. op' \in [Clients -> Calls \cup {Idle}] /\ LoopInv'
    BY <2>1, <2>2, OneCallChanges
  <2> QED
    BY <2>1, <2>2, <2>3
<1>2. ASSUME NEW c \in Clients, DeleteBegin(c) PROVE TypeOK' /\ LoopInv'
  <2>1. PICK k \in WritesTo[c] :
          /\ writes < MaxWrites /\ writes' = writes + 1 /\ Deletes
          /\ acked' = [acked EXCEPT ![k] = 0]
          /\ op' = [Forget(k) EXCEPT ![c] = Call("delete", k, 0, Targets(k))]
          /\ UNCHANGED <<disk, clock, up, late, counters>>
    BY <1>2 DEF DeleteBegin
  <2>2. /\ k \in Keys /\ Call("delete", k, 0, Targets(k)) \in Calls
        /\ Loop(c, Call("delete", k, 0, Targets(k))) /\ writes' \in 0..MaxWrites
    BY <2>1, SetBeginCall
  <2>3. op' \in [Clients -> Calls \cup {Idle}] /\ LoopInv'
    BY <2>1, <2>2, DeleteBeginCalls
  <2>4. acked' \in [Keys -> 0..MaxWrites]
    BY <2>1, <2>2, StoreAssumption
  <2> QED
    BY <2>1, <2>2, <2>3, <2>4
<1>3. ASSUME NEW c \in Clients, GetBegin(c) \/ ListBegin(c) PROVE TypeOK' /\ LoopInv'
  <2>1. \E call \in Calls : Loop(c, call) /\ op' = [op EXCEPT ![c] = call]
    BY <1>3, ReadBeginCall DEF GetBegin, ListBegin, Begin
  <2>2. op' \in [Clients -> Calls \cup {Idle}] /\ LoopInv'
    BY <2>1, OneCallChanges
  <2> QED
    BY <1>3, <2>2 DEF GetBegin, ListBegin, ReadOnly
<1>4. ASSUME NEW c \in Clients, SetAsks(c) PROVE TypeOK' /\ LoopInv'
  <2>1. op' \in [Clients -> Calls \cup {Idle}] /\ LoopInv'
    BY <1>4, SetAsksCall, OneCallChanges
  <2>2. op[c] \in Calls /\ NextTarget(c) \in Nodes
    BY <1>4, NextTargetInTodo DEF SetAsks
  <2>3. \/ Answered(NextTarget(c), op[c].key, op[c].val)
        \/ Errs(NextTarget(c), op[c].key, op[c].val)
    BY <1>4 DEF SetAsks
  <2>4. /\ disk' \in [Nodes -> [Keys -> Fact]] /\ clock' \in Nat
        /\ late' \subseteq Requests
        /\ faults' \in 0..MaxFaults /\ lates' \in 0..MaxLate /\ crashes' \in 0..MaxCrashes
    BY <2>2, <2>3, RequestType DEF Calls
  <2> QED
    BY <1>4, <2>1, <2>4 DEF SetAsks
<1>5. ASSUME NEW c \in Clients, SetReturns(c) PROVE TypeOK' /\ LoopInv'
  <2>1. op' \in [Clients -> Calls \cup {Idle}] /\ LoopInv'
    BY <1>5, OneCallChanges, IdleLoop DEF SetReturns, Return
  <2>2. op[c] \in Calls
    BY <1>5, CallFields DEF SetReturns
  <2>3. acked' \in [Keys -> 0..MaxWrites]
    BY <1>5, <2>2 DEF SetReturns, Calls
  <2> QED
    BY <1>5, <2>1, <2>3 DEF SetReturns
<1>6. ASSUME NEW c \in Clients, GetAsks(c) \/ ListAsks(c) PROVE TypeOK' /\ LoopInv'
  <2>1. op' \in [Clients -> Calls \cup {Idle}] /\ LoopInv'
    BY <1>6, GetAsksCall, ListAsksCall, OneCallChanges
  <2>2. ReadOnly /\ (UNCHANGED counters \/ Fault)
    BY <1>6 DEF GetAsks, ListAsks, NoAnswer
  <2> QED
    BY <2>1, <2>2, StoreAssumption DEF ReadOnly, Fault
<1>7. ASSUME NEW c \in Clients, ReadReturns(c) PROVE TypeOK' /\ LoopInv'
  <2>1. op' \in [Clients -> Calls \cup {Idle}] /\ LoopInv'
    BY <1>7, OneCallChanges, IdleLoop DEF ReadReturns, Return
  <2> QED
    BY <1>7, <2>1 DEF ReadReturns, ReadOnly
<1>8. ASSUME ArriveLate PROVE TypeOK' /\ LoopInv'
  <2>1. PICK r \in late :
          /\ Apply(r.node, r.key, r.val)
          /\ late' = late \ {r}
          /\ IF r.val = 0
               THEN acked' = [acked EXCEPT ![r.key] = 0] /\ op' = Forget(r.key)
               ELSE UNCHANGED <<acked, op>>
          /\ UNCHANGED <<up, writes, counters>>
    BY <1>8 DEF ArriveLate
  <2>2. r.node \in Nodes /\ r.key \in Keys /\ r.val \in 0..MaxWrites
    BY DEF Requests
  <2>3. disk' \in [Nodes -> [Keys -> Fact]] /\ clock' \in Nat
    BY <2>1, <2>2, ApplyType
  <2>4. acked' \in [Keys -> 0..MaxWrites]
    BY <2>1, <2>2, StoreAssumption
  <2>5. op' \in [Clients -> Calls \cup {Idle}]
    <3>1. CASE r.val = 0
      <4>1. op' = Forget(r.key)
        BY <2>1, <3>1
      <4>2. Forget(r.key) \in [Clients -> Calls \cup {Idle}]
        BY <2>2, ForgetFields
      <4> QED
        BY <4>1, <4>2
    <3>2. CASE r.val # 0
      BY <2>1, <3>2
    <3> QED
      BY <3>1, <3>2
  <2>6. \A c \in Clients : Loop(c, op'[c])
    BY <2>1, <2>2, ForgetFields DEF LoopInv
  <2>7. LoopInv'
    BY <2>6 DEF LoopInv, Loop
  <2> QED
    BY <2>1, <2>3, <2>4, <2>5, <2>7
<1>9. ASSUME NEW n \in Nodes, NodeCrash(n) \/ NodeRestart(n) PROVE TypeOK' /\ LoopInv'
  <2>1. op' = op /\ UNCHANGED <<disk, clock, writes, acked, faults, lates>>
    BY <1>9 DEF NodeCrash, NodeRestart
  <2>2. up' \subseteq Nodes /\ late' \subseteq Requests /\ crashes' \in 0..MaxCrashes
    BY <1>9, StoreAssumption DEF NodeCrash, NodeRestart
  <2>3. LoopInv'
    BY <2>1 DEF LoopInv, Loop
  <2> QED
    BY <2>1, <2>2, <2>3
<1>10. ASSUME UNCHANGED vars PROVE TypeOK' /\ LoopInv'
  BY <1>10 DEF vars, LoopInv, Loop
<1> QED
  BY <1>1, <1>2, <1>3, <1>4, <1>5, <1>6, <1>7, <1>8, <1>9, <1>10 DEF Next, ClientStep

(* Every reachable state of the store has the types of TypeOK: a call asks   *)
(* each of its two nodes at most once, so that no more than two requests     *)
(* fail (replication.go:40-48).                                              *)
THEOREM StoreTypeCorrect == Spec => []TypeOK
<1>1. TypeInv => TypeOK
  BY DEF TypeInv
<1> QED
  BY <1>1, InitTypeInv, NextTypeInv, PTL DEF Spec

-----------------------------------------------------------------------------
(* Reads find what was acknowledged *)

SoleWriter ==
  \A c, d \in Clients : c # d => WritesTo[c] \cap WritesTo[d] = {}

Has(k, d) == \E n \in Targets(k) : d[n][k] # NoFact

(* An acknowledged fact, or one that replaced it, is in the databases d.    *)
Stored(a, d) == \A k \in Keys : a[k] # 0 => Has(k, d)

(* Some node has answered the Set.                                          *)
Heard(call) ==
  \/ call.todo = {} /\ call.errs < 2
  \/ call.todo = {Replica[call.key]} /\ call.errs = 0

(* A Set that some node answered has stored a fact; a Get that has not found *)
(* what it should find has still to ask a node that holds it.               *)
Finds(call, d) ==
  /\ call.kind = "set" /\ ~call.missed /\ Heard(call) => Has(call.key, d)
  /\ call.kind = "get" /\ ~call.missed /\ call.floor[call.key] # 0 =>
       IF call.todo = {} THEN call.found[call.key] # NoFact
                         ELSE \E n \in call.todo : d[n][call.key] # NoFact

(* Nothing is expected of a key that is being deleted.                      *)
DeletesOwn(a, ops) ==
  \A c \in Clients : ops[c].kind = "delete" =>
    /\ a[ops[c].key] = 0
    /\ \A e \in Clients : ops[e] # Idle => ops[e].floor[ops[c].key] = 0

FindInv ==
  /\ Stored(acked, disk)
  /\ \A c \in Clients : Finds(op[c], disk)
  /\ DeletesOwn(acked, op)

Keeps(k, d1, d2) == \A n \in Nodes : d1[n][k] # NoFact => d2[n][k] # NoFact

LEMMA FindsIdle == ASSUME NEW d PROVE Finds(Idle, d)
BY DEF Finds, Heard, Idle

(* A call goes on to find what it should as long as its key is not deleted. *)
LEMMA FindsKept ==
  ASSUME TypeOK, NEW call \in Calls, NEW c \in Clients, Loop(c, call),
         NEW d1, NEW d2, Keeps(call.key, d1, d2), Finds(call, d1)
  PROVE  Finds(call, d2)
<1>1. Targets(call.key) \subseteq Nodes
  BY StoreAssumption DEF Targets, Calls
<1>2. Has(call.key, d1) => Has(call.key, d2)
  BY <1>1 DEF Has, Keeps
<1>3. call.todo \subseteq Nodes
  BY DEF Calls
<1> QED
  BY <1>2, <1>3 DEF Finds, Heard, Keeps

LEMMA StoredKept ==
  ASSUME NEW a1, NEW a2, NEW d1, NEW d2, Stored(a1, d1),
         \A k \in Keys : a2[k] # 0 => a1[k] # 0 /\ Keeps(k, d1, d2)
  PROVE  Stored(a2, d2)
<1>1. \A k \in Keys : Targets(k) \subseteq Nodes
  BY StoreAssumption DEF Targets
<1> QED
  BY <1>1 DEF Stored, Has, Keeps

(* A forgotten key leaves nothing to be found.                              *)
LEMMA FindsForgotten ==
  ASSUME TypeOK, LoopInv, NEW k \in Keys, NEW c \in Clients, NEW d1, NEW d2,
         \A j \in Keys \ {k} : Keeps(j, d1, d2), Finds(op[c], d1)
  PROVE  Finds(Forget(k)[c], d2)
<1>1. CASE op[c] = Idle
  BY <1>1, ForgetFields, FindsIdle
<1>2. CASE op[c] # Idle
  <2>1. /\ op[c] \in Calls /\ Forget(k)[c] \in Calls /\ Loop(c, Forget(k)[c])
        /\ Forget(k)[c].kind = op[c].kind /\ Forget(k)[c].key = op[c].key
        /\ Forget(k)[c].todo = op[c].todo /\ Forget(k)[c].errs = op[c].errs
        /\ Forget(k)[c].found = op[c].found
        /\ Forget(k)[c].floor = [op[c].floor EXCEPT ![k] = 0]
        /\ ~Forget(k)[c].missed => ~op[c].missed
        /\ op[c].kind = "set" /\ op[c].key = k => Forget(k)[c].missed
    BY <1>2, ForgottenCall, ForgottenMissed
  <2>2. op[c].key \in Keys /\ op[c].floor \in [Keys -> 0..MaxWrites]
    BY <2>1 DEF Calls
  <2>3. CASE op[c].key = k
    BY <2>1, <2>2, <2>3 DEF Finds, Heard
  <2>4. CASE op[c].key # k
    <3>1. Forget(k)[c].floor[op[c].key] = op[c].floor[op[c].key]
      BY <2>1, <2>2, <2>4
    <3>2. Finds(Forget(k)[c], d1)
      BY <2>1, <3>1 DEF Finds, Heard
    <3>3. Keeps(Forget(k)[c].key, d1, d2)
      BY <2>1, <2>2, <2>4
    <3> QED
      BY <2>1, <3>2, <3>3, FindsKept
  <2> QED
    BY <2>3, <2>4
<1> QED
  BY <1>1, <1>2

LEMMA ForgottenDeletes ==
  ASSUME TypeOK, LoopInv, DeletesOwn(acked, op), NEW k \in Keys
  PROVE  /\ DeletesOwn([acked EXCEPT ![k] = 0], Forget(k))
         /\ \A c \in Clients : Forget(k)[c] # Idle => Forget(k)[c].floor[k] = 0
<1>1. ASSUME NEW c \in Clients, op[c] # Idle
      PROVE  /\ Forget(k)[c].kind = op[c].kind /\ Forget(k)[c].key = op[c].key
             /\ op[c].key \in Keys
             /\ Forget(k)[c].floor = [op[c].floor EXCEPT ![k] = 0]
             /\ op[c].floor \in [Keys -> 0..MaxWrites]
  BY <1>1, ForgottenCall DEF Calls
<1>2. \A c \in Clients : Forget(k)[c] = Idle <=> op[c] = Idle
  BY ForgetFields
<1>3. ASSUME NEW c \in Clients, Forget(k)[c] # Idle PROVE Forget(k)[c].floor[k] = 0
  BY <1>1, <1>2, <1>3
<1> DEFINE a == [acked EXCEPT ![k] = 0]
<1>4. ASSUME NEW c \in Clients, Forget(k)[c].kind = "delete",
             NEW e \in Clients, Forget(k)[e] # Idle
      PROVE  a[Forget(k)[c].key] = 0 /\ Forget(k)[e].floor[Forget(k)[c].key] = 0
  <2>1. op[c] # Idle /\ op[e] # Idle
    BY <1>2, <1>4 DEF Idle
  <2>2. op[c].kind = "delete" /\ op[c].key = Forget(k)[c].key /\ op[c].key \in Keys
    BY <1>1, <1>4, <2>1
  <2>3. acked[op[c].key] = 0 /\ op[e].floor[op[c].key] = 0
    BY <2>1, <2>2 DEF DeletesOwn
  <2>4. a[op[c].key] = 0
    BY <2>2, <2>3 DEF TypeOK
  <2>5. Forget(k)[e].floor[op[c].key] = 0
    BY <1>1, <2>1, <2>2, <2>3
  <2> QED
    BY <2>2, <2>4, <2>5
<1>5. ASSUME NEW c \in Clients, Forget(k)[c].kind = "delete" PROVE Forget(k)[c] # Idle
  BY <1>5 DEF Idle
<1> HIDE DEF a
<1>6. DeletesOwn(a, Forget(k))
  BY <1>4, <1>5 DEF DeletesOwn
<1> QED
  BY <1>3, <1>6 DEF a

(* A step of one client that starts no Delete.                              *)
LEMMA DeletesKept ==
  ASSUME TypeOK, DeletesOwn(acked, op), NEW c \in Clients, NEW call \in Calls \cup {Idle},
         op' = [op EXCEPT ![c] = call],
         call.kind = "delete" => op[c].kind = "delete" /\ call.key = op[c].key,
         call # Idle => \/ op[c] # Idle /\ call.floor = op[c].floor
                        \/ call.floor = acked
                        \/ call.floor = [j \in Keys |-> 0]
  PROVE  DeletesOwn(acked, op')
<1>1. op'[c] = call /\ \A d \in Clients \ {c} : op'[d] = op[d]
  BY DEF TypeOK
<1>2. \A d \in Clients : op[d].kind = "delete" => op[d].key \in Keys
  BY CallFields DEF Calls
<1> QED
  BY <1>1, <1>2 DEF DeletesOwn

(* A request changes one key, and removes its fact only if it deletes.      *)
LEMMA ApplyKeeps ==
  ASSUME TypeOK, NEW n \in Nodes, NEW k \in Keys, NEW v \in 0..MaxWrites, Apply(n, k, v)
  PROVE  /\ \A j \in Keys \ {k} : Keeps(j, disk, disk')
         /\ v # 0 => Keeps(k, disk, disk') /\ disk'[n][k] # NoFact
<1>1. CASE v = 0
  <2>1. disk' = [disk EXCEPT ![n][k] = NoFact]
    BY <1>1 DEF Apply
  <2> QED
    BY <1>1, <2>1 DEF Keeps, TypeOK
<1>2. CASE v # 0
  <2>1. disk' = [disk EXCEPT ![n][k] = [val |-> v, ver |-> clock' + Skew[n]]]
    BY <1>2, Zenon DEF Apply
  <2>2. [val |-> v, ver |-> clock' + Skew[n]] # NoFact
    BY <1>2 DEF NoFact
  <2> QED
    BY <2>1, <2>2 DEF Keeps, TypeOK
<1> QED
  BY <1>1, <1>2

LEMMA RequestKeeps ==
  ASSUME TypeOK, NEW n \in Nodes, NEW k \in Keys, NEW v \in 0..MaxWrites,
         Answered(n, k, v) \/ Errs(n, k, v)
  PROVE  /\ \A j \in Keys \ {k} : Keeps(j, disk, disk')
         /\ v # 0 => Keeps(k, disk, disk')
         /\ Answered(n, k, v) /\ v # 0 => disk'[n][k] # NoFact
<1>1. Apply(n, k, v) \/ disk' = disk
  BY DEF Answered, Errs
<1>2. CASE Apply(n, k, v)
  BY <1>2, ApplyKeeps
<1>3. CASE ~Apply(n, k, v)
  <2>1. disk' = disk /\ ~Answered(n, k, v)
    BY <1>1, <1>3 DEF Answered
  <2> QED
    BY <2>1 DEF Keeps
<1> QED
  BY <1>2, <1>3

(* Only its own client sets a key that is being deleted.                    *)
LEMMA DeleteExcludes ==
  ASSUME TypeOK, LoopInv, Deletes => SoleWriter, NEW c \in Clients, NEW d \in Clients,
         op[c].kind = "delete", op[d].kind \in {"set", "delete"}, c # d
  PROVE  op[d].key # op[c].key
<1>1. Deletes /\ op[c].key \in WritesTo[c] /\ op[d].key \in WritesTo[d]
  BY DEF LoopInv, Loop
<1> QED
  BY <1>1 DEF SoleWriter

(* What the calls of the other clients find stays there.                    *)
LEMMA OthersFind ==
  ASSUME TypeOK, LoopInv, FindInv, NEW c \in Clients, NEW call \in Calls \cup {Idle},
         op' = [op EXCEPT ![c] = call], Finds(call, disk'),
         \A d \in Clients \ {c} : op[d] # Idle =>
           Keeps(op[d].key, disk, disk') \/ Finds(op[d], disk')
  PROVE  \A d \in Clients : Finds(op'[d], disk')
<1>1. op'[c] = call /\ \A d \in Clients \ {c} : op'[d] = op[d]
  BY DEF TypeOK
<1> SUFFICES ASSUME NEW d \in Clients \ {c} PROVE Finds(op[d], disk')
  BY <1>1
<1>2. CASE op[d] = Idle
  BY <1>2, FindsIdle
<1>3. CASE op[d] # Idle
  <2>1. op[d] \in Calls /\ Loop(d, op[d]) /\ Finds(op[d], disk)
    BY <1>3 DEF TypeOK, LoopInv, FindInv
  <2> QED
    BY <1>3, <2>1, FindsKept
<1> QED
  BY <1>2, <1>3

LEMMA BeginsFind ==
  ASSUME TypeOK, FindInv, NEW k \in Keys, NEW v \in 0..MaxWrites
  PROVE  /\ Finds(Call("set", k, v, Targets(k)), disk)
         /\ Call("set", k, v, Targets(k)).kind = "set"
         /\ Call("set", k, v, Targets(k)).floor = [j \in Keys |-> 0]
         /\ \A d : Finds(Call("delete", k, 0, Targets(k)), d)
         /\ Call("delete", k, 0, Targets(k)).kind = "delete"
         /\ Call("delete", k, 0, Targets(k)).key = k
         /\ Call("delete", k, 0, Targets(k)).floor = [j \in Keys |-> 0]
         /\ Finds(Call("get", k, 0, Targets(k)), disk)
         /\ Call("get", k, 0, Targets(k)).kind = "get"
         /\ Call("get", k, 0, Targets(k)).floor = acked
<1>1. Targets(k) # {} /\ Targets(k) # {Replica[k]}
  BY StoreAssumption DEF Targets
<1>2. Finds(Call("set", k, v, Targets(k)), disk)
  BY <1>1 DEF Finds, Heard, Call
<1>3. \A d : Finds(Call("delete", k, 0, Targets(k)), d)
  BY DEF Finds, Heard, Call
<1>4. Finds(Call("get", k, 0, Targets(k)), disk)
  <2> DEFINE G == Call("get", k, 0, Targets(k))
  <2>1. G.kind = "get" /\ G.key = k /\ G.todo = Targets(k) /\ G.floor = acked
    BY DEF Call
  <2>2. acked[k] # 0 => \E n \in Targets(k) : disk[n][k] # NoFact
    BY DEF FindInv, Stored, Has
  <2> HIDE DEF G
  <2>3. Finds(G, disk)
    BY <1>1, <2>1, <2>2 DEF Finds, Heard
  <2> QED
    BY <2>3 DEF G
<1> QED
  BY <1>2, <1>3, <1>4 DEF Call

LEMMA SetAsksFinds ==
  ASSUME TypeOK, LoopInv, FindInv, Deletes => SoleWriter, NEW c \in Clients, SetAsks(c)
  PROVE  /\ Stored(acked, disk') /\ DeletesOwn(acked, op')
         /\ \A d \in Clients : Finds(op'[d], disk')
<1> DEFINE n == NextTarget(c)
           k == op[c].key
           v == op[c].val
<1>1. /\ op[c] \in Calls /\ op[c] # Idle /\ n \in op[c].todo /\ n \in Nodes
      /\ op[c].kind \in {"set", "delete"} /\ Loop(c, op[c]) /\ Finds(op[c], disk)
  BY NextTargetInTodo DEF SetAsks, LoopInv, FindInv
<1>2. k \in Keys /\ v \in 0..MaxWrites /\ op[c].errs \in 0..2
  BY <1>1 DEF Calls
<1>3. PICK call \in Calls :
        /\ Loop(c, call) /\ op' = [op EXCEPT ![c] = call]
        /\ SameCall(call, op[c]) /\ call.missed = op[c].missed
        /\ call.todo = Asked(c, n)
        /\ \/ Answered(n, k, v) /\ call.errs = op[c].errs
           \/ Errs(n, k, v) /\ call.errs = op[c].errs + 1
  BY SetAsksCall
<1>4. /\ \A j \in Keys \ {k} : Keeps(j, disk, disk')
      /\ v # 0 => Keeps(k, disk, disk')
      /\ Answered(n, k, v) /\ v # 0 => disk'[n][k] # NoFact
  BY <1>1, <1>2, <1>3, RequestKeeps
<1>5. DeletesOwn(acked, op')
  <2>1. call.kind = op[c].kind /\ call.key = op[c].key /\ call.floor = op[c].floor
    BY <1>3 DEF SameCall
  <2> QED
    BY <1>1, <1>3, <2>1, DeletesKept DEF FindInv
<1>6. CASE op[c].kind = "set"
  <2>1. v # 0 /\ \A j \in Keys : Keeps(j, disk, disk')
    BY <1>1, <1>4, <1>6 DEF Loop
  <2>2. Stored(acked, disk')
    BY <2>1, StoredKept DEF FindInv
  <2>3. Finds(call, disk')
    <3>1. call.kind = "set" /\ call.key = k
      BY <1>3, <1>6 DEF SameCall
    <3>2. CASE Answered(n, k, v)
      <4>1. n \in Targets(k)
        BY <1>1, <1>2, <1>6 DEF Loop, Targets
      <4>2. Has(k, disk')
        BY <1>4, <2>1, <3>2, <4>1 DEF Has
      <4> QED
        BY <3>1, <4>2 DEF Finds, Heard
    <3>3. CASE ~Answered(n, k, v)
      <4>1. call.errs = op[c].errs + 1
        BY <1>3, <3>3
      <4>2. call.todo = {} => op[c].todo = {Replica[k]}
        BY <1>1, <1>2, <1>3, StoreAssumption DEF Asked, Loop, Targets, NextTarget
      <4>3. ~call.missed /\ call.todo = {} /\ call.errs < 2 => Has(k, disk)
        BY <1>1, <1>2, <1>3, <1>6, <4>1, <4>2 DEF Finds, Heard
      <4>4. Has(k, disk) => Has(k, disk')
        BY <1>2, <2>1, StoreAssumption DEF Has, Keeps, Targets
      <4>5. call.errs # 0
        BY <1>2, <4>1
      <4> QED
        BY <3>1, <4>3, <4>4, <4>5 DEF Finds, Heard
    <3> QED
      BY <3>2, <3>3
  <2>4. \A d \in Clients \ {c} : op[d] # Idle => Keeps(op[d].key, disk, disk')
    BY <2>1 DEF TypeOK, Calls
  <2>5. \A d \in Clients : Finds(op'[d], disk')
    BY <1>3, <2>3, <2>4, OthersFind
  <2> QED
    BY <1>5, <2>2, <2>5
<1>7. CASE op[c].kind = "delete"
  <2>1. acked[k] = 0 /\ \A e \in Clients : op[e] # Idle => op[e].floor[k] = 0
    BY <1>7 DEF FindInv, DeletesOwn
  <2>2. Stored(acked, disk')
    BY <1>4, <2>1, StoredKept DEF FindInv
  <2>3. Finds(call, disk')
    BY <1>3, <1>7 DEF SameCall, Finds, Heard
  <2>4. ASSUME NEW d \in Clients \ {c}, op[d] # Idle
        PROVE  Keeps(op[d].key, disk, disk') \/ Finds(op[d], disk')
    <3>1. op[d].key \in Keys
      BY <2>4 DEF TypeOK, Calls
    <3>2. CASE op[d].key # k
      BY <1>4, <3>1, <3>2
    <3>3. CASE op[d].key = k
      <4>1. op[d].kind # "set"
        BY <1>7, <3>3, DeleteExcludes
      <4>2. op[d].floor[op[d].key] = 0
        BY <2>1, <2>4, <3>3
      <4> QED
        BY <4>1, <4>2 DEF Finds, Heard
    <3> QED
      BY <3>2, <3>3
  <2>5. \A d \in Clients : Finds(op'[d], disk')
    BY <1>3, <2>3, <2>4, OthersFind
  <2> QED
    BY <1>5, <2>2, <2>5
<1> QED
  BY <1>1, <1>6, <1>7

LEMMA GetAsksFinds ==
  ASSUME TypeOK, LoopInv, FindInv, NEW c \in Clients, GetAsks(c)
  PROVE  DeletesOwn(acked, op') /\ \A d \in Clients : Finds(op'[d], disk')
<1> DEFINE n == NextTarget(c)
           k == op[c].key
<1>1. /\ op[c] \in Calls /\ op[c] # Idle /\ n \in op[c].todo /\ op[c].kind = "get"
      /\ Finds(op[c], disk)
  BY NextTargetInTodo DEF GetAsks, FindInv
<1>2. PICK call \in Calls :
        /\ Loop(c, call) /\ op' = [op EXCEPT ![c] = call]
        /\ SameCall(call, op[c])
        /\ \/ /\ call.missed = op[c].missed /\ call.found[k] = disk[n][k]
              /\ call.todo = IF disk[n][k] # NoFact THEN {} ELSE Asked(c, n)
           \/ call.missed
  BY GetAsksCall
<1>3. disk' = disk
  BY DEF GetAsks, ReadOnly
<1>4. call.kind = "get" /\ call.key = k /\ call.floor = op[c].floor
  BY <1>1, <1>2 DEF SameCall
<1>5. DeletesOwn(acked, op')
  BY <1>1, <1>2, <1>4, DeletesKept DEF FindInv
<1>6. Finds(call, disk)
  <2>1. CASE call.missed
    BY <1>4, <2>1 DEF Finds, Heard
  <2>2. CASE ~call.missed /\ disk[n][k] # NoFact
    BY <1>2, <1>4, <2>2 DEF Finds, Heard
  <2>3. CASE ~call.missed /\ disk[n][k] = NoFact
    <3>1. call.todo = op[c].todo \ {n}
      BY <1>2, <2>3 DEF Asked
    <3>2. call.floor[k] # 0 => \E m \in op[c].todo \ {n} : disk[m][k] # NoFact
      BY <1>1, <1>2, <1>4, <2>3 DEF Finds, Heard
    <3> QED
      BY <1>4, <3>1, <3>2 DEF Finds, Heard
  <2> QED
    BY <2>1, <2>2, <2>3
<1>7. \A d \in Clients : Finds(op'[d], disk')
  BY <1>2, <1>3, <1>6, OthersFind DEF Keeps
<1> QED
  BY <1>5, <1>7

(* A step that changes one call, and neither the databases nor acked.       *)
LEMMA QuietStep ==
  ASSUME TypeOK, LoopInv, FindInv, NEW c \in Clients, NEW call \in Calls \cup {Idle},
         op' = [op EXCEPT ![c] = call], disk' = disk, call.kind # "delete",
         Finds(call, disk),
         call # Idle => \/ op[c] # Idle /\ call.floor = op[c].floor
                        \/ call.floor = acked
                        \/ call.floor = [j \in Keys |-> 0]
  PROVE  /\ Stored(acked, disk') /\ DeletesOwn(acked, op')
         /\ \A d \in Clients : Finds(op'[d], disk')
<1>1. \A d \in Clients : Finds(op'[d], disk')
  BY OthersFind DEF Keeps
<1>2. DeletesOwn(acked, op')
  BY DeletesKept DEF FindInv
<1> QED
  BY <1>1, <1>2 DEF FindInv

(* A fact is acknowledged while its key is not being deleted.               *)
LEMMA SetReturnsFinds ==
  ASSUME TypeOK, LoopInv, FindInv, Deletes => SoleWriter, NEW c \in Clients, SetReturns(c)
  PROVE  /\ Stored(acked', disk') /\ DeletesOwn(acked', op')
         /\ \A d \in Clients : Finds(op'[d], disk')
<1> DEFINE k == op[c].key
<1>1. /\ op[c] \in Calls /\ op[c].todo = {} /\ k \in Keys
      /\ op' = [op EXCEPT ![c] = Idle] /\ disk' = disk
  BY CallFields DEF SetReturns, Return, Calls
<1>2. /\ Stored(acked, disk') /\ DeletesOwn(acked, op')
      /\ \A d \in Clients : Finds(op'[d], disk')
  BY <1>1, QuietStep, FindsIdle DEF Idle
<1>3. CASE acked' = acked
  BY <1>2, <1>3
<1>4. CASE acked' # acked
  <2>1. /\ op[c].kind = "set" /\ op[c].errs < 2 /\ ~op[c].missed
        /\ acked' = [acked EXCEPT ![k] = op[c].val]
    BY <1>4 DEF SetReturns
  <2>2. Has(k, disk)
    BY <1>1, <2>1 DEF FindInv, Finds, Heard
  <2>3. \A j \in Keys \ {k} : acked'[j] = acked[j]
    BY <2>1 DEF TypeOK
  <2>4. Stored(acked', disk')
    BY <1>1, <1>2, <2>2, <2>3 DEF Stored
  <2>5. ASSUME NEW d \in Clients, op'[d].kind = "delete"
        PROVE  op'[d].key \in Keys \ {k}
    <3>1. op'[d] = op[d] /\ d # c
      BY <1>1, <2>5 DEF TypeOK, Idle
    <3>2. op[d].key # k
      BY <2>1, <2>5, <3>1, DeleteExcludes
    <3>3. op[d] \in Calls
      BY <2>5, <3>1, CallFields
    <3> QED
      BY <3>1, <3>2, <3>3 DEF Calls
  <2>6. DeletesOwn(acked', op')
    BY <1>2, <2>3, <2>5 DEF DeletesOwn
  <2> QED
    BY <1>2, <2>4, <2>6
<1> QED
  BY <1>3, <1>4

(* A Delete that begins has its key forgotten.                              *)
LEMMA DeleteBeginFinds ==
  ASSUME TypeOK, LoopInv, FindInv, NEW c \in Clients, DeleteBegin(c)
  PROVE  /\ Stored(acked', disk') /\ DeletesOwn(acked', op')
         /\ \A d \in Clients : Finds(op'[d], disk')
<1>1. PICK k \in WritesTo[c] :
        /\ writes < MaxWrites /\ Deletes /\ disk' = disk
        /\ acked' = [acked EXCEPT ![k] = 0]
        /\ op' = [Forget(k) EXCEPT ![c] = Call("delete", k, 0, Targets(k))]
  BY DEF DeleteBegin
<1> DEFINE D == Call("delete", k, 0, Targets(k))
<1>2. /\ k \in Keys /\ D \in Calls /\ Loop(c, D)
  BY <1>1, SetBeginCall
<1>3. D.kind = "delete" /\ D.key = k /\ D.floor = [j \in Keys |-> 0] /\ Finds(D, disk)
  BY <1>2, StoreAssumption, BeginsFind DEF Call, Finds, Heard
<1>4. op' = [Forget(k) EXCEPT ![c] = D]
  BY <1>1
<1> HIDE DEF D
<1>5. op'[c] = D /\ \A d \in Clients \ {c} : op'[d] = Forget(k)[d]
  BY <1>2, <1>4, DeleteBeginCalls
<1>6. /\ DeletesOwn([acked EXCEPT ![k] = 0], Forget(k))
      /\ \A d \in Clients : Forget(k)[d] # Idle => Forget(k)[d].floor[k] = 0
  BY <1>2, ForgottenDeletes DEF FindInv
<1>7. \A d \in Clients : Finds(Forget(k)[d], disk)
  BY <1>2, FindsForgotten DEF FindInv, Keeps
<1>8. acked'[k] = 0 /\ \A j \in Keys : acked'[j] # 0 => acked[j] # 0
  BY <1>1, <1>2 DEF TypeOK
<1>9. Stored(acked', disk')
  <2>1. \A j \in Keys : Keeps(j, disk, disk')
    BY <1>1 DEF Keeps
  <2> QED
    BY <1>8, <2>1, StoredKept DEF FindInv
<1>10. ASSUME NEW d \in Clients, op'[d].kind = "delete"
       PROVE  /\ acked'[op'[d].key] = 0
              /\ \A e \in Clients : op'[e] # Idle => op'[e].floor[op'[d].key] = 0
  <2>1. CASE d = c
    BY <1>2, <1>3, <1>5, <1>6, <1>8, <2>1
  <2>2. CASE d # c
    <3>1. op'[d] = Forget(k)[d] /\ Forget(k)[d].kind = "delete"
      BY <1>5, <1>10, <2>2
    <3>2. /\ acked'[op'[d].key] = 0
          /\ \A e \in Clients : Forget(k)[e] # Idle => Forget(k)[e].floor[op'[d].key] = 0
      BY <1>1, <1>6, <3>1 DEF DeletesOwn
    <3>3. Forget(k)[d] \in Calls
      BY <1>2, <3>1, ForgetFields DEF Idle
    <3>4. D.floor[op'[d].key] = 0
      BY <1>3, <3>1, <3>3 DEF Calls
    <3> QED
      BY <1>5, <3>2, <3>4
  <2> QED
    BY <2>1, <2>2
<1>11. DeletesOwn(acked', op')
  BY <1>10 DEF DeletesOwn
<1> QED
  BY <1>1, <1>3, <1>5, <1>7, <1>9, <1>11

(* A late delete has its key forgotten, a late Set stores something.        *)
LEMMA ArriveLateFinds ==
  ASSUME TypeOK, LoopInv, FindInv, ArriveLate
  PROVE  /\ Stored(acked', disk') /\ DeletesOwn(acked', op')
         /\ \A d \in Clients : Finds(op'[d], disk')
<1>1. PICK r \in late :
        /\ Apply(r.node, r.key, r.val)
        /\ IF r.val = 0
             THEN acked' = [acked EXCEPT ![r.key] = 0] /\ op' = Forget(r.key)
             ELSE UNCHANGED <<acked, op>>
  BY DEF ArriveLate
<1>2. r.node \in Nodes /\ r.key \in Keys /\ r.val \in 0..MaxWrites
  BY DEF TypeOK, Requests
<1>3. /\ \A j \in Keys \ {r.key} : Keeps(j, disk, disk')
      /\ r.val # 0 => Keeps(r.key, disk, disk')
  BY <1>1, <1>2, ApplyKeeps
<1>4. CASE r.val = 0
  <2>1. acked' = [acked EXCEPT ![r.key] = 0] /\ op' = Forget(r.key)
    BY <1>1, <1>4
  <2>2. DeletesOwn(acked', op')
    BY <1>2, <2>1, ForgottenDeletes DEF FindInv
  <2>3. \A d \in Clients : Finds(op'[d], disk')
    BY <1>2, <1>3, <2>1, FindsForgotten DEF FindInv
  <2>4. \A j \in Keys : acked'[j] # 0 => acked[j] # 0 /\ Keeps(j, disk, disk')
    BY <1>2, <1>3, <2>1 DEF TypeOK
  <2>5. Stored(acked', disk')
    BY <2>4, StoredKept DEF FindInv
  <2> QED
    BY <2>2, <2>3, <2>5
<1>5. CASE r.val # 0
  <2>1. acked' = acked /\ op' = op /\ \A j \in Keys : Keeps(j, disk, disk')
    BY <1>1, <1>3, <1>5
  <2>2. Stored(acked', disk')
    BY <2>1, StoredKept DEF FindInv
  <2>3. ASSUME NEW d \in Clients PROVE Finds(op[d], disk')
    <3>1. CASE op[d] = Idle
      BY <3>1, FindsIdle
    <3>2. CASE op[d] # Idle
      <4>1. op[d] \in Calls /\ op[d].key \in Keys /\ Loop(d, op[d])
        BY <3>2 DEF TypeOK, LoopInv, Calls
      <4> QED
        BY <2>1, <4>1, FindsKept DEF FindInv
    <3> QED
      BY <3>1, <3>2
  <2> QED
    BY <2>1, <2>2, <2>3 DEF FindInv
<1> QED
  BY <1>4, <1>5

LEMMA ReadStepsFind ==
  ASSUME TypeOK, LoopInv, FindInv, NEW c \in Clients,
         ListBegin(c) \/ ListAsks(c) \/ ReadReturns(c)
  PROVE  /\ Stored(acked, disk') /\ DeletesOwn(acked, op')
         /\ \A d \in Clients : Finds(op'[d], disk')
<1>1. disk' = disk
  BY DEF ListBegin, ListAsks, ReadReturns, ReadOnly
<1>2. CASE ListBegin(c)
  <2>1. /\ op' = [op EXCEPT ![c] = ListCall(Keys)] /\ ListCall(Keys) \in Calls
        /\ ListCall(Keys).kind = "list" /\ ListCall(Keys).floor = acked
    BY <1>2, NewListCall DEF ListBegin, Begin
  <2>2. Finds(ListCall(Keys), disk)
    BY <2>1 DEF Finds, Heard
  <2> QED
    BY <1>1, <2>1, <2>2, QuietStep
<1>3. CASE ListAsks(c)
  <2>1. PICK call \in Calls : op' = [op EXCEPT ![c] = call] /\ SameCall(call, op[c])
    BY <1>3, ListAsksCall
  <2>2. call.kind = "list" /\ call.floor = op[c].floor /\ op[c] # Idle
    BY <1>3, <2>1 DEF SameCall, ListAsks, Idle
  <2>3. Finds(call, disk)
    BY <2>2 DEF Finds, Heard
  <2> QED
    BY <1>1, <2>1, <2>2, <2>3, QuietStep
<1>4. CASE ReadReturns(c)
  <2>1. op' = [op EXCEPT ![c] = Idle] /\ Idle.kind # "delete"
    BY <1>4 DEF ReadReturns, Return, Idle
  <2> QED
    BY <1>1, <2>1, FindsIdle, QuietStep
<1> QED
  BY <1>2, <1>3, <1>4

LEMMA InitFindInv == Init => FindInv
<1> SUFFICES ASSUME Init PROVE FindInv
  OBVIOUS
<1>1. \A c \in Clients : op[c] = Idle /\ op[c].kind = "idle"
  BY DEF Init, Idle
<1>2. \A k \in Keys : acked[k] = 0
  BY DEF Init
<1> QED
  BY <1>1, <1>2, FindsIdle DEF FindInv, Stored, DeletesOwn

LEMMA NextFindInv ==
  ASSUME Deletes => SoleWriter, TypeOK, LoopInv, FindInv, [Next]_vars
  PROVE  FindInv'
<1> SUFFICES /\ Stored(acked', disk') /\ DeletesOwn(acked', op')
             /\ \A d \in Clients : Finds(op'[d], disk')
  BY DEF FindInv, Stored, Has, Finds, Heard, DeletesOwn
<1>1. ASSUME NEW c \in Clients, SetBegin(c)
      PROVE  /\ Stored(acked', disk') /\ DeletesOwn(acked', op')
             /\ \A d \in Clients : Finds(op'[d], disk')
  <2>1. PICK k \in WritesTo[c] :
          /\ writes < MaxWrites /\ disk' = disk /\ acked' = acked
          /\ op' = [op EXCEPT ![c] = Call("set", k, writes + 1, Targets(k))]
    BY <1>1 DEF SetBegin, Begin
  <2> DEFINE S == Call("set", k, writes + 1, Targets(k))
  <2>2. k \in Keys /\ writes + 1 \in 0..MaxWrites /\ S \in Calls
    BY <2>1, SetBeginCall
  <2>3. S.kind = "set" /\ S.floor = [j \in Keys |-> 0] /\ Finds(S, disk)
    BY <2>2, BeginsFind
  <2>4. op' = [op EXCEPT ![c] = S]
    BY <2>1
  <2> HIDE DEF S
  <2> QED
    BY <2>1, <2>2, <2>3, <2>4, QuietStep
<1>2. ASSUME NEW c \in Clients, GetBegin(c)
      PROVE  /\ Stored(acked', disk') /\ DeletesOwn(acked', op')
             /\ \A d \in Clients : Finds(op'[d], disk')
  <2>1. PICK k \in Keys : op' = [op EXCEPT ![c] = Call("get", k, 0, Targets(k))]
    BY <1>2 DEF GetBegin, Begin
  <2> DEFINE G == Call("get", k, 0, Targets(k))
  <2>2. G \in Calls
    BY ReadBeginCall
  <2>3. G.kind = "get" /\ G.floor = acked /\ Finds(G, disk)
    <3>1. 0 \in 0..MaxWrites
      BY Blank
    <3> QED
      BY <3>1, BeginsFind
  <2>4. op' = [op EXCEPT ![c] = G] /\ disk' = disk /\ acked' = acked
    BY <1>2, <2>1 DEF GetBegin, ReadOnly
  <2> HIDE DEF G
  <2> QED
    BY <2>2, <2>3, <2>4, QuietStep
<1>3. ASSUME NEW c \in Clients, ListBegin(c) \/ ListAsks(c) \/ ReadReturns(c)
      PROVE  /\ Stored(acked', disk') /\ DeletesOwn(acked', op')
             /\ \A d \in Clients : Finds(op'[d], disk')
  <2>1. acked' = acked
    BY <1>3 DEF ListBegin, ListAsks, ReadReturns, ReadOnly
  <2> QED
    BY <1>3, <2>1, ReadStepsFind
<1>4. ASSUME NEW c \in Clients, SetAsks(c)
      PROVE  /\ Stored(acked', disk') /\ DeletesOwn(acked', op')
             /\ \A d \in Clients : Finds(op'[d], disk')
  <2>1. acked' = acked
    BY <1>4 DEF SetAsks
  <2> QED
    BY <1>4, <2>1, SetAsksFinds
<1>5. ASSUME NEW c \in Clients, GetAsks(c)
      PROVE  /\ Stored(acked', disk') /\ DeletesOwn(acked', op')
             /\ \A d \in Clients : Finds(op'[d], disk')
  <2>1. disk' = disk /\ acked' = acked
    BY <1>5 DEF GetAsks, ReadOnly
  <2> QED
    BY <1>5, <2>1, GetAsksFinds DEF FindInv
<1>6. ASSUME UNCHANGED <<disk, op, acked>>
      PROVE  /\ Stored(acked', disk') /\ DeletesOwn(acked', op')
             /\ \A d \in Clients : Finds(op'[d], disk')
  BY <1>6 DEF FindInv
<1>7. ASSUME NEW n \in Nodes, NodeCrash(n) \/ NodeRestart(n)
      PROVE  UNCHANGED <<disk, op, acked>>
  BY <1>7 DEF NodeCrash, NodeRestart
<1>8. UNCHANGED vars => UNCHANGED <<disk, op, acked>>
  BY DEF vars
<1> QED
  BY <1>1, <1>2, <1>3, <1>4, <1>5, <1>6, <1>7, <1>8,
     DeleteBeginFinds, SetReturnsFinds, ArriveLateFinds DEF Next, ClientStep

(* A Get both of whose nodes answer does not miss a fact that was            *)
(* acknowledged before it began, whichever nodes were down and whichever     *)
(* requests were lost or came late (replication.go:51-64), provided that no  *)
(* two clients write the same key if keys are deleted at all.                *)
THEOREM GetFindsAckedHolds ==
  ASSUME Deletes => SoleWriter
  PROVE  Spec => []GetFindsAcked
<1>1. Init => TypeInv /\ FindInv
  BY InitTypeInv, InitFindInv
<1>2. (TypeInv /\ FindInv) /\ [Next]_vars => (TypeInv /\ FindInv)'
  BY NextTypeInv, NextFindInv DEF TypeInv
<1>3. TypeInv /\ FindInv => GetFindsAcked
  BY DEF FindInv, Finds, Heard, GetFindsAcked
<1> QED
  BY <1>1, <1>2, <1>3, PTL DEF Spec

-----------------------------------------------------------------------------
(* An acknowledged fact is on a replica *)

AtLeast(k, v, d) == \E n \in Targets(k) : d[n][k].val >= v

(* The fact of a Set under way is the last of its key, and is stored once a  *)
(* node has answered.                                                       *)
Newest(call, d, a, w) ==
  call.kind = "set" =>
    /\ call.val <= w /\ a[call.key] <= call.val
    /\ \A n \in Nodes : d[n][call.key].val <= call.val
    /\ Heard(call) /\ ~call.missed => AtLeast(call.key, call.val, d)

AckInv ==
  lates = 0 =>
    /\ late = {}
    /\ \A k \in Keys : /\ acked[k] <= writes
                       /\ \A n \in Nodes : disk[n][k].val <= writes
                       /\ acked[k] # 0 => AtLeast(k, acked[k], disk)
    /\ \A c \in Clients : Newest(op[c], disk, acked, writes)

(* What AckInv says of the next state, whose late requests are the same.    *)
AckedNext ==
  /\ \A k \in Keys : /\ acked'[k] <= writes'
                     /\ \A n \in Nodes : disk'[n][k].val <= writes'
                     /\ acked'[k] # 0 => AtLeast(k, acked'[k], disk')
  /\ \A c \in Clients : Newest(op'[c], disk', acked', writes')

LEMMA NewestIdle == ASSUME NEW d, NEW a, NEW w PROVE Newest(Idle, d, a, w)
BY DEF Newest, Idle

(* A Set or a Delete under way is the only one of its key.                  *)
LEMMA OneChange ==
  ASSUME LoopInv, SoleWriter, NEW c \in Clients, NEW d \in Clients, c # d,
         op[c].kind \in {"set", "delete"}, op[d].kind \in {"set", "delete"}
  PROVE  op[c].key # op[d].key
<1>1. op[c].key \in WritesTo[c] /\ op[d].key \in WritesTo[d]
  BY DEF LoopInv, Loop
<1> QED
  BY <1>1 DEF SoleWriter

(* What a request leaves in the databases.                                  *)
LEMMA RequestChanges ==
  ASSUME TypeOK, NEW n \in Nodes, NEW k \in Keys, NEW v \in 0..MaxWrites,
         Answered(n, k, v) \/ Errs(n, k, v)
  PROVE  /\ \A m \in Nodes, j \in Keys :
              m # n \/ j # k => disk'[m][j] = disk[m][j]
         /\ disk'[n][k] = disk[n][k] \/ disk'[n][k].val = v
         /\ Answered(n, k, v) => disk'[n][k].val = v
<1>1. Apply(n, k, v) \/ disk' = disk
  BY DEF Answered, Errs
<1>2. CASE Apply(n, k, v) /\ v = 0
  <2>1. disk' = [disk EXCEPT ![n][k] = NoFact]
    BY <1>2 DEF Apply
  <2> QED
    BY <1>2, <2>1 DEF TypeOK, NoFact
<1>3. CASE Apply(n, k, v) /\ v # 0
  <2>1. disk' = [disk EXCEPT ![n][k] = [val |-> v, ver |-> clock' + Skew[n]]]
    BY <1>3, Zenon DEF Apply
  <2> QED
    BY <2>1 DEF TypeOK
<1>4. CASE ~Apply(n, k, v)
  BY <1>1, <1>4 DEF Answered
<1> QED
  BY <1>2, <1>3, <1>4

(* A step that changes one call, and neither the databases nor acked.       *)
LEMMA QuietAck ==
  ASSUME TypeOK, AckInv, lates = 0, NEW c \in Clients, NEW call \in Calls \cup {Idle},
         op' = [op EXCEPT ![c] = call], disk' = disk, acked' = acked,
         writes' \in Nat, writes' >= writes, Newest(call, disk, acked, writes')
  PROVE  AckedNext
<1>1. op'[c] = call /\ \A d \in Clients \ {c} : op'[d] = op[d]
  BY DEF TypeOK
<1>2. ASSUME NEW k \in Keys
      PROVE  acked[k] \in Nat /\ writes \in Nat /\ \A n \in Nodes : disk[n][k].val \in Nat
  BY StoreAssumption DEF TypeOK, Fact
<1>3. ASSUME NEW d \in Clients \ {c} PROVE Newest(op[d], disk, acked, writes')
  <2>1. Newest(op[d], disk, acked, writes)
    BY DEF AckInv
  <2>2. op[d].kind = "set" => op[d].val \in Nat
    BY CallFields, StoreAssumption DEF Calls
  <2> QED
    BY <1>2, <2>1, <2>2 DEF Newest, TypeOK
<1> QED
  BY <1>1, <1>2, <1>3 DEF AckInv, AckedNext

(* A Set leaves its fact, the last of its key, on the node it asks; a Delete *)
(* removes nothing that is acknowledged.                                    *)
LEMMA SetAsksAcks ==
  ASSUME TypeOK, LoopInv, FindInv, AckInv, SoleWriter, lates = 0, lates' = 0,
         NEW c \in Clients, SetAsks(c)
  PROVE  AckedNext
<1> DEFINE n == NextTarget(c)
           k == op[c].key
           v == op[c].val
<1>1. /\ op[c] \in Calls /\ op[c] # Idle /\ n \in op[c].todo /\ n \in Nodes
      /\ op[c].kind \in {"set", "delete"} /\ Loop(c, op[c])
  BY NextTargetInTodo DEF SetAsks, LoopInv
<1>2. k \in Keys /\ v \in 0..MaxWrites /\ op[c].errs \in 0..2 /\ v \in Nat /\ writes \in Nat
  BY <1>1, StoreAssumption DEF Calls, TypeOK
<1>3. PICK call \in Calls :
        /\ op' = [op EXCEPT ![c] = call]
        /\ SameCall(call, op[c]) /\ call.missed = op[c].missed
        /\ call.todo = Asked(c, n)
        /\ \/ Answered(n, k, v) /\ call.errs = op[c].errs
           \/ Errs(n, k, v) /\ call.errs = op[c].errs + 1
  BY SetAsksCall
<1>4. /\ \A m \in Nodes, j \in Keys :
           m # n \/ j # k => disk'[m][j] = disk[m][j]
      /\ disk'[n][k] = disk[n][k] \/ disk'[n][k].val = v
      /\ Answered(n, k, v) => disk'[n][k].val = v
  BY <1>1, <1>2, <1>3, RequestChanges
<1>5. acked' = acked /\ writes' = writes
  BY DEF SetAsks
<1>6. op'[c] = call /\ \A d \in Clients \ {c} : op'[d] = op[d]
  BY <1>3 DEF TypeOK
<1>7. \A j \in Keys : /\ acked[j] \in Nat /\ Targets(j) \subseteq Nodes
                      /\ \A m \in Nodes : disk[m][j].val \in Nat
  BY StoreAssumption DEF TypeOK, Fact, Targets
<1>8. /\ \A j \in Keys : /\ acked[j] <= writes
                         /\ \A m \in Nodes : disk[m][j].val <= writes
                         /\ acked[j] # 0 => AtLeast(j, acked[j], disk)
      /\ \A d \in Clients : Newest(op[d], disk, acked, writes)
  BY DEF AckInv
<1>9. ASSUME NEW d \in Clients \ {c} PROVE Newest(op[d], disk', acked, writes)
  <2>1. CASE op[d].kind # "set"
    BY <2>1 DEF Newest
  <2>2. CASE op[d].kind = "set"
    <3>1. op[d].key \in Keys \ {k}
      BY <1>1, <2>2, OneChange, CallFields DEF Calls
    <3>2. \A m \in Nodes : disk'[m][op[d].key] = disk[m][op[d].key]
      BY <1>4, <3>1
    <3> QED
      BY <1>7, <1>8, <3>1, <3>2 DEF Newest, AtLeast
  <2> QED
    BY <2>1, <2>2
<1>10. call.kind = op[c].kind /\ call.key = k /\ call.val = v
  BY <1>3 DEF SameCall
<1>11. CASE op[c].kind = "set"
  <2>1. /\ v <= writes /\ acked[k] <= v /\ \A m \in Nodes : disk[m][k].val <= v
        /\ Heard(op[c]) /\ ~op[c].missed => AtLeast(k, v, disk)
    BY <1>8, <1>11 DEF Newest
  <2>2. \A m \in Nodes : disk'[m][k].val <= v /\ disk'[m][k].val >= disk[m][k].val
    BY <1>2, <1>4, <1>7, <2>1
  <2>3. Answered(n, k, v) => AtLeast(k, v, disk')
    <3>1. n \in Targets(k)
      BY <1>1, <1>2 DEF Loop, Targets
    <3> QED
      BY <1>2, <1>4, <3>1 DEF AtLeast
  <2>4. ~Answered(n, k, v) /\ Heard(call) => Heard(op[c])
    <3>1. call.todo = {} => op[c].todo = {Replica[k]}
      BY <1>1, <1>2, <1>3, StoreAssumption DEF Asked, Loop, Targets, NextTarget
    <3> QED
      BY <1>1, <1>2, <1>3, <1>10, <3>1 DEF Heard
  <2>5. AtLeast(k, v, disk) => AtLeast(k, v, disk')
    BY <1>2, <1>4, <1>7 DEF AtLeast
  <2>6. Newest(call, disk', acked, writes)
    BY <1>3, <1>10, <2>1, <2>2, <2>3, <2>4, <2>5 DEF Newest
  <2>7. ASSUME NEW j \in Keys
        PROVE  /\ \A m \in Nodes : disk'[m][j].val <= writes
               /\ acked[j] # 0 => AtLeast(j, acked[j], disk')
    <3>1. CASE j = k
      <4>1. \A m \in Nodes : disk'[m][k].val <= writes
        BY <1>1, <1>2, <1>4, <1>7, <2>1, <2>2
      <4>2. acked[k] # 0 => AtLeast(k, acked[k], disk')
        BY <1>2, <1>4, <1>7, <1>8, <2>1 DEF AtLeast
      <4> QED
        BY <3>1, <4>1, <4>2
    <3>2. CASE j # k
      BY <1>4, <1>7, <1>8, <3>2 DEF AtLeast
    <3> QED
      BY <3>1, <3>2
  <2> QED
    BY <1>5, <1>6, <1>8, <1>9, <2>6, <2>7 DEF AckedNext
<1>12. CASE op[c].kind = "delete"
  <2>1. acked[k] = 0 /\ v = 0
    BY <1>1, <1>12 DEF FindInv, DeletesOwn, Loop
  <2>2. Newest(call, disk', acked, writes)
    BY <1>10, <1>12 DEF Newest
  <2>3. \A j \in Keys, m \in Nodes : disk'[m][j].val <= writes
    BY <1>2, <1>4, <1>7, <1>8, <2>1
  <2>4. \A j \in Keys : acked[j] # 0 => AtLeast(j, acked[j], disk')
    BY <1>4, <1>7, <1>8, <2>1 DEF AtLeast
  <2> QED
    BY <1>5, <1>6, <1>8, <1>9, <2>2, <2>3, <2>4 DEF AckedNext
<1> QED
  BY <1>1, <1>11, <1>12

LEMMA SetReturnsAcks ==
  ASSUME TypeOK, LoopInv, AckInv, SoleWriter, lates = 0, NEW c \in Clients, SetReturns(c)
  PROVE  AckedNext
<1> DEFINE k == op[c].key
           v == op[c].val
<1>1. /\ op[c] \in Calls /\ op[c].todo = {} /\ k \in Keys /\ v \in 0..MaxWrites
      /\ op' = [op EXCEPT ![c] = Idle] /\ disk' = disk /\ writes' = writes
  BY CallFields DEF SetReturns, Return, Calls
<1>2. writes \in Nat /\ writes' >= writes
  BY <1>1, StoreAssumption DEF TypeOK
<1>3. CASE acked' = acked
  BY <1>1, <1>2, <1>3, NewestIdle, QuietAck
<1>4. CASE acked' # acked
  <2>1. /\ op[c].kind = "set" /\ Heard(op[c]) /\ ~op[c].missed
        /\ acked' = [acked EXCEPT ![k] = v]
    BY <1>1, <1>4 DEF SetReturns, Heard
  <2>2. acked'[k] = v /\ \A j \in Keys \ {k} : acked'[j] = acked[j]
    BY <1>1, <2>1 DEF TypeOK
  <2>3. v <= writes /\ AtLeast(k, v, disk)
    BY <2>1 DEF AckInv, Newest
  <2>4. ASSUME NEW d \in Clients PROVE Newest(op'[d], disk, acked', writes)
    <3>1. CASE d = c
      BY <1>1, <3>1, NewestIdle DEF TypeOK
    <3>2. CASE d # c
      <4>1. op'[d] = op[d] /\ Newest(op[d], disk, acked, writes)
        BY <1>1, <3>2 DEF TypeOK, AckInv
      <4>2. op[d].kind = "set" => op[d].key \in Keys \ {k}
        BY <2>1, <3>2, OneChange, CallFields DEF Calls
      <4> QED
        BY <2>2, <4>1, <4>2 DEF Newest
    <3> QED
      BY <3>1, <3>2
  <2> QED
    BY <1>1, <2>2, <2>3, <2>4 DEF AckInv, AckedNext
<1> QED
  BY <1>3, <1>4

(* Forgetting a key asks no more of a Set.                                  *)
LEMMA NewestForgotten ==
  ASSUME TypeOK, LoopInv, NEW k \in Keys, NEW c \in Clients, op[c] # Idle,
         Newest(op[c], disk, acked, writes),
         NEW a, a[op[c].key] \in 0..acked[op[c].key], NEW w \in Nat, w >= writes
  PROVE  Newest(Forget(k)[c], disk, a, w)
<1>1. /\ op[c] \in Calls
      /\ Forget(k)[c].kind = op[c].kind /\ Forget(k)[c].key = op[c].key
      /\ Forget(k)[c].todo = op[c].todo /\ Forget(k)[c].errs = op[c].errs
      /\ Forget(k)[c].val = op[c].val
  BY ForgottenCall
<1>2. op[c].val \in Nat /\ acked[op[c].key] \in Nat /\ writes \in Nat
  BY <1>1, StoreAssumption DEF Calls, TypeOK
<1>3. Heard(Forget(k)[c]) => Heard(op[c])
  BY <1>1 DEF Heard
<1>4. ~Forget(k)[c].missed => ~op[c].missed
  BY ForgottenMissed
<1> QED
  BY <1>1, <1>2, <1>3, <1>4 DEF Newest

LEMMA DeleteBeginAcks ==
  ASSUME TypeOK, LoopInv, AckInv, lates = 0, NEW c \in Clients, DeleteBegin(c)
  PROVE  AckedNext
<1>1. PICK k \in WritesTo[c] :
        /\ writes < MaxWrites /\ writes' = writes + 1 /\ Deletes /\ disk' = disk
        /\ acked' = [acked EXCEPT ![k] = 0]
        /\ op' = [Forget(k) EXCEPT ![c] = Call("delete", k, 0, Targets(k))]
  BY DEF DeleteBegin
<1> DEFINE D == Call("delete", k, 0, Targets(k))
<1>2. k \in Keys /\ D \in Calls /\ Loop(c, D)
  BY <1>1, SetBeginCall
<1>3. D.kind = "delete"
  BY DEF Call
<1>4. op' = [Forget(k) EXCEPT ![c] = D]
  BY <1>1
<1> HIDE DEF D
<1>5. op'[c] = D /\ \A d \in Clients \ {c} : op'[d] = Forget(k)[d]
  BY <1>2, <1>4, DeleteBeginCalls
<1>6. acked'[k] = 0 /\ \A j \in Keys \ {k} : acked'[j] = acked[j]
  BY <1>1, <1>2 DEF TypeOK
<1>7. /\ writes \in Nat
      /\ \A j \in Keys : acked[j] \in Nat /\ \A m \in Nodes : disk[m][j].val \in Nat
  BY StoreAssumption DEF TypeOK, Fact
<1>8. ASSUME NEW d \in Clients \ {c} PROVE Newest(Forget(k)[d], disk, acked', writes')
  <2>1. CASE op[d] = Idle
    BY <1>2, <2>1, ForgetFields, NewestIdle
  <2>2. CASE op[d] # Idle
    <3>1. op[d].key \in Keys /\ Newest(op[d], disk, acked, writes)
      BY <2>2 DEF TypeOK, Calls, AckInv
    <3>2. acked'[op[d].key] \in 0..acked[op[d].key]
      BY <1>6, <1>7, <3>1
    <3>3. k \in Keys /\ writes' \in Nat /\ writes' >= writes
      BY <1>1, <1>2, <1>7
    <3> QED
      BY <2>2, <3>1, <3>2, <3>3, NewestForgotten
  <2> QED
    BY <2>1, <2>2
<1>9. Newest(D, disk, acked', writes')
  BY <1>3 DEF Newest
<1>10. \A j \in Keys : /\ acked'[j] <= writes'
                       /\ \A m \in Nodes : disk[m][j].val <= writes'
                       /\ acked'[j] # 0 => AtLeast(j, acked'[j], disk)
  BY <1>1, <1>6, <1>7 DEF AckInv
<1> QED
  BY <1>1, <1>5, <1>8, <1>9, <1>10 DEF AckedNext

LEMMA InitAckInv == Init => AckInv
<1> SUFFICES ASSUME Init PROVE AckInv
  OBVIOUS
<1>1. \A c \in Clients : op[c] = Idle
  BY DEF Init
<1>2. /\ late = {} /\ writes = 0
      /\ \A k \in Keys : acked[k] = 0 /\ \A n \in Nodes : disk[n][k].val = 0
  BY DEF Init, NoFact
<1> QED
  BY <1>1, <1>2, NewestIdle DEF AckInv

(* Only a request that is given up while it is under way is late.           *)
LEMMA LateStays ==
  ASSUME TypeOK, [Next]_vars
  PROVE  /\ lates' = 0 => lates = 0
         /\ lates' = 0 /\ late = {} => late' = {}
<1> USE DEF counters
<1>1. lates \in Nat
  BY StoreAssumption DEF TypeOK
<1>2. ASSUME NEW c \in Clients, SetAsks(c)
      PROVE  /\ lates' = 0 => lates = 0
             /\ lates' = 0 /\ late = {} => late' = {}
  BY <1>1, <1>2 DEF SetAsks, Answered, Errs, Fault
<1>3. ASSUME NEW c \in Clients,
             \/ SetBegin(c) \/ DeleteBegin(c) \/ GetBegin(c) \/ ListBegin(c)
             \/ SetReturns(c) \/ GetAsks(c) \/ ListAsks(c) \/ ReadReturns(c)
      PROVE  UNCHANGED <<late, lates>>
  BY <1>3 DEF SetBegin, DeleteBegin, GetBegin, ListBegin, SetReturns, GetAsks, ListAsks,
              ReadReturns, ReadOnly, NoAnswer, Fault
<1>4. ArriveLate => lates' = lates /\ late # {}
  BY DEF ArriveLate
<1>5. ASSUME NEW n \in Nodes, NodeCrash(n) \/ NodeRestart(n)
      PROVE  lates' = lates /\ (late = {} => late' = {})
  BY <1>5 DEF NodeCrash, NodeRestart
<1>6. UNCHANGED vars => UNCHANGED <<late, lates>>
  BY DEF vars
<1> QED
  BY <1>2, <1>3, <1>4, <1>5, <1>6 DEF Next, ClientStep

LEMMA NextAckInv ==
  ASSUME SoleWriter, TypeOK, LoopInv, FindInv, AckInv, [Next]_vars
  PROVE  AckInv'
<1> SUFFICES ASSUME lates = 0, lates' = 0, late = {} PROVE AckedNext
  BY LateStays DEF AckInv, AckedNext, AtLeast, Newest, Heard
<1>1. writes \in Nat
  BY StoreAssumption DEF TypeOK
<1>2. ASSUME NEW c \in Clients, SetBegin(c) PROVE AckedNext
  <2>1. PICK k \in WritesTo[c] :
          /\ writes < MaxWrites /\ disk' = disk /\ acked' = acked /\ writes' = writes + 1
          /\ op' = [op EXCEPT ![c] = Call("set", k, writes + 1, Targets(k))]
    BY <1>2 DEF SetBegin, Begin
  <2> DEFINE S == Call("set", k, writes + 1, Targets(k))
  <2>2. k \in Keys /\ S \in Calls
    BY <2>1, SetBeginCall
  <2>3. /\ S.kind = "set" /\ S.key = k /\ S.val = writes + 1 /\ S.todo = Targets(k)
        /\ S.errs = 0
    BY DEF Call
  <2>4. op' = [op EXCEPT ![c] = S]
    BY <2>1
  <2> HIDE DEF S
  <2>5. ~Heard(S)
    BY <2>2, <2>3, StoreAssumption DEF Heard, Targets
  <2>6. acked[k] \in Nat /\ \A n \in Nodes : disk[n][k].val \in Nat
    BY <2>2, StoreAssumption DEF TypeOK, Fact
  <2>7. acked[k] <= writes /\ \A n \in Nodes : disk[n][k].val <= writes
    BY <2>2 DEF AckInv
  <2>8. Newest(S, disk, acked, writes')
    BY <1>1, <2>1, <2>3, <2>5, <2>6, <2>7 DEF Newest
  <2>9. writes' \in Nat /\ writes' >= writes
    BY <1>1, <2>1
  <2> QED
    BY <2>1, <2>2, <2>4, <2>8, <2>9, QuietAck
<1>3. ASSUME NEW c \in Clients, NEW call \in Calls \cup {Idle},
             op' = [op EXCEPT ![c] = call], ReadOnly, call.kind # "set"
      PROVE  AckedNext
  <2>1. disk' = disk /\ acked' = acked /\ writes' = writes
    BY <1>3 DEF ReadOnly
  <2>2. Newest(call, disk, acked, writes')
    BY <1>3 DEF Newest
  <2>3. writes' \in Nat /\ writes' >= writes
    BY <1>1, <2>1
  <2> QED
    BY <1>3, <2>1, <2>2, <2>3, QuietAck
<1>4. ASSUME NEW c \in Clients, GetBegin(c) PROVE AckedNext
  <2>1. PICK k \in Keys : op' = [op EXCEPT ![c] = Call("get", k, 0, Targets(k))]
    BY <1>4 DEF GetBegin, Begin
  <2>2. Call("get", k, 0, Targets(k)) \in Calls
    BY ReadBeginCall
  <2>3. Call("get", k, 0, Targets(k)).kind = "get" /\ ReadOnly
    BY <1>4 DEF Call, GetBegin
  <2> QED
    BY <1>3, <2>1, <2>2, <2>3
<1>5. ASSUME NEW c \in Clients, ListBegin(c) PROVE AckedNext
  <2>1. /\ op' = [op EXCEPT ![c] = ListCall(Keys)] /\ ListCall(Keys) \in Calls
        /\ ListCall(Keys).kind = "list" /\ ReadOnly
    BY <1>5, NewListCall DEF ListBegin, Begin
  <2> QED
    BY <1>3, <2>1
<1>6. ASSUME NEW c \in Clients, GetAsks(c) \/ ListAsks(c) PROVE AckedNext
  <2>1. PICK call \in Calls : op' = [op EXCEPT ![c] = call] /\ SameCall(call, op[c])
    BY <1>6, GetAsksCall, ListAsksCall
  <2>2. call.kind # "set" /\ ReadOnly
    BY <1>6, <2>1 DEF GetAsks, ListAsks, SameCall
  <2> QED
    BY <1>3, <2>1, <2>2
<1>7. ASSUME NEW c \in Clients, ReadReturns(c) PROVE AckedNext
  <2>1. op' = [op EXCEPT ![c] = Idle] /\ Idle.kind # "set" /\ ReadOnly
    BY <1>7 DEF ReadReturns, Return, Idle
  <2> QED
    BY <1>3, <2>1
<1>8. ASSUME UNCHANGED <<disk, op, acked, writes>> PROVE AckedNext
  BY <1>8 DEF AckInv, AckedNext
<1>9. ASSUME NEW n \in Nodes, NodeCrash(n) \/ NodeRestart(n)
      PROVE  UNCHANGED <<disk, op, acked, writes>>
  BY <1>9 DEF NodeCrash, NodeRestart
<1>10. UNCHANGED vars => UNCHANGED <<disk, op, acked, writes>>
  BY DEF vars
<1>11. ~ArriveLate
  BY DEF ArriveLate
<1> QED
  BY <1>2, <1>4, <1>5, <1>6, <1>7, <1>8, <1>9, <1>10, <1>11,
     DeleteBeginAcks, SetAsksAcks, SetReturnsAcks DEF Next, ClientStep

(* "If one fails, we still succeed": with one writer per key, an             *)
(* acknowledged fact, or a later one, stays on one of its two nodes through  *)
(* crashes, restarts and failing requests of any number                     *)
(* (replication.go:37-49), until a request arrives after its client gave up. *)
THEOREM AckedOnAReplicaHolds ==
  ASSUME SoleWriter
  PROVE  Spec => []AckedOnAReplica
<1>1. Init => TypeInv /\ FindInv /\ AckInv
  BY InitTypeInv, InitFindInv, InitAckInv
<1>2. (TypeInv /\ FindInv /\ AckInv) /\ [Next]_vars => (TypeInv /\ FindInv /\ AckInv)'
  BY NextTypeInv, NextFindInv, NextAckInv DEF TypeInv
<1>3. TypeInv /\ FindInv /\ AckInv => AckedOnAReplica
  BY DEF AckInv, AtLeast, AckedOnAReplica
<1> QED
  BY <1>1, <1>2, <1>3, PTL DEF Spec

-----------------------------------------------------------------------------
(* A List finds the newest facts *)

(* The nodes' clocks are less than the time between two facts apart.        *)
ClocksClose == \A m, n \in Nodes : Skew[m] < Skew[n] + Gap

(* The facts of a key that a node holds or a List under way has found.      *)
Seen(k, d, ops) ==
  {NoFact} \cup {d[n][k] : n \in Nodes}
    \cup {ops[c].found[k] : c \in {e \in Clients : ops[e].kind = "list"}}

(* Later facts have higher versions, and any fact stored from now on, by     *)
(* whichever node, has a higher version than those there are.               *)
Ordered(S, clk, w) ==
  /\ S \subseteq Fact
  /\ \A f \in S : f.val <= w /\ \A n \in Nodes : f.ver < clk + Skew[n] + Gap
  /\ \A f, g \in S : f.val < g.val => f.ver < g.ver

(* A List has found what it should, or has still to ask a node that holds   *)
(* it.                                                                      *)
ListFinds(call, d) ==
  call.kind = "list" /\ ~call.missed =>
    \A k \in call.prefix :
      \/ call.found[k].val >= call.floor[k]
      \/ \E n \in call.todo : d[n][k].val >= call.floor[k]

ListInv ==
  lates = 0 /\ ClocksClose =>
    /\ \A k \in Keys : Ordered(Seen(k, disk, op), clock, writes)
    /\ \A c \in Clients : op[c].kind = "set" =>
         \A f \in Seen(op[c].key, disk, op) : f.val <= op[c].val
    /\ \A c \in Clients : ListFinds(op[c], disk)

(* What ListInv says of the next state.                                     *)
OrderedNext ==
  /\ \A k \in Keys : Ordered(Seen(k, disk', op'), clock', writes')
  /\ \A c \in Clients : op'[c].kind = "set" =>
       \A f \in Seen(op'[c].key, disk', op') : f.val <= op'[c].val

LEMMA FactNumbers ==
  /\ NoFact \in Fact /\ NoFact.val = 0 /\ NoFact.ver = 0
  /\ \A f \in Fact : f.val \in Nat /\ f.ver \in Nat
  /\ Gap \in Nat /\ Gap > 0 /\ \A n \in Nodes : Skew[n] \in Nat
BY StoreAssumption DEF NoFact, Fact

(* Fewer facts, or more time, keep the order.                               *)
LEMMA OrderedKept ==
  ASSUME NEW S, NEW T \in SUBSET S, NEW clk \in Nat, NEW clk2 \in Nat, clk2 >= clk,
         NEW w \in Nat, NEW w2 \in Nat, w2 >= w, Ordered(S, clk, w)
  PROVE  Ordered(T, clk2, w2)
<1>1. ASSUME NEW f \in T
      PROVE  f.val <= w2 /\ \A n \in Nodes : f.ver < clk2 + Skew[n] + Gap
  <2>1. f \in Fact /\ f.val <= w /\ \A n \in Nodes : f.ver < clk + Skew[n] + Gap
    BY DEF Ordered
  <2> QED
    BY <2>1, FactNumbers
<1>2. T \subseteq Fact /\ \A f, g \in T : f.val < g.val => f.ver < g.ver
  BY DEF Ordered
<1> QED
  BY <1>1, <1>2 DEF Ordered

(* A node stores the last fact of a key.                                    *)
LEMMA OrderedAdds ==
  ASSUME ClocksClose, NEW S, NEW clk \in Nat, NEW w \in Nat, Ordered(S, clk, w),
         NEW v \in 0..MaxWrites, v <= w, \A f \in S : f.val <= v, NEW n \in Nodes
  PROVE  Ordered(S \cup {[val |-> v, ver |-> clk + Gap + Skew[n]]}, clk + Gap, w)
<1> DEFINE new == [val |-> v, ver |-> clk + Gap + Skew[n]]
<1>1. new \in Fact /\ new.val = v /\ new.ver = clk + Gap + Skew[n]
  BY FactNumbers DEF Fact
<1>2. v \in Nat
  BY StoreAssumption
<1> HIDE DEF new
<1>3. ASSUME NEW f \in S
      PROVE  /\ f \in Fact /\ f.val <= w /\ f.val <= v /\ f.ver < new.ver
             /\ \A m \in Nodes : f.ver < clk + Gap + Skew[m] + Gap
  <2>1. f \in Fact /\ f.val <= w /\ \A m \in Nodes : f.ver < clk + Skew[m] + Gap
    BY DEF Ordered
  <2> QED
    BY <1>1, <2>1, FactNumbers
<1>4. \A m \in Nodes : new.ver < clk + Gap + Skew[m] + Gap
  BY <1>1, FactNumbers DEF ClocksClose
<1>5. \A f, g \in S \cup {new} : f.val < g.val => f.ver < g.ver
  <2>1. \A f, g \in S : f.val < g.val => f.ver < g.ver
    BY DEF Ordered
  <2>2. \A f \in S : ~(new.val < f.val)
    BY <1>1, <1>2, <1>3, FactNumbers
  <2>3. ~(new.val < new.val)
    BY <1>1, <1>2
  <2> QED
    BY <1>3, <2>1, <2>2, <2>3
<1> QED
  BY <1>1, <1>3, <1>4, <1>5 DEF Ordered, new

LEMMA SeenKept ==
  ASSUME TypeOK, ListInv, lates = 0, ClocksClose,
         \A k \in Keys : Seen(k, disk', op') \subseteq Seen(k, disk, op),
         clock' \in Nat, clock' >= clock, writes' \in Nat, writes' >= writes,
         \A c \in Clients : op'[c].kind = "set" =>
           /\ op'[c].key \in Keys
           /\ \/ op[c].kind = "set" /\ op'[c].key = op[c].key /\ op'[c].val = op[c].val
              \/ op'[c].val = writes + 1
  PROVE  OrderedNext
<1>1. clock \in Nat /\ writes \in Nat
  BY StoreAssumption DEF TypeOK
<1>2. \A k \in Keys : Ordered(Seen(k, disk, op), clock, writes)
  BY DEF ListInv
<1>3. \A k \in Keys : Ordered(Seen(k, disk', op'), clock', writes')
  BY <1>1, <1>2, OrderedKept
<1>4. ASSUME NEW c \in Clients, op'[c].kind = "set", NEW f \in Seen(op'[c].key, disk', op')
      PROVE  f.val <= op'[c].val
  <2>1. op'[c].key \in Keys /\ f \in Seen(op'[c].key, disk, op)
    BY <1>4
  <2>2. f \in Fact /\ f.val <= writes /\ f.val \in Nat
    BY <1>2, <2>1, FactNumbers DEF Ordered
  <2>3. CASE op[c].kind = "set" /\ op'[c].key = op[c].key /\ op'[c].val = op[c].val
    BY <2>1, <2>3 DEF ListInv
  <2>4. CASE op'[c].val = writes + 1
    BY <1>1, <2>2, <2>4
  <2> QED
    BY <1>4, <2>3, <2>4
<1> QED
  BY <1>3, <1>4 DEF OrderedNext

LEMMA OneCallSeen ==
  ASSUME TypeOK, NEW c \in Clients, NEW call \in Calls \cup {Idle},
         op' = [op EXCEPT ![c] = call], disk' = disk, NEW k \in Keys,
         call.kind = "list" => call.found[k] \in Seen(k, disk, op)
  PROVE  Seen(k, disk', op') \subseteq Seen(k, disk, op)
<1>1. op'[c] = call /\ \A d \in Clients \ {c} : op'[d] = op[d]
  BY DEF TypeOK
<1>2. ASSUME NEW d \in Clients, op'[d].kind = "list"
      PROVE  op'[d].found[k] \in Seen(k, disk, op)
  <2>1. CASE d = c
    BY <1>1, <1>2, <2>1
  <2>2. CASE d # c
    BY <1>1, <1>2, <2>2 DEF Seen
  <2> QED
    BY <2>1, <2>2
<1> QED
  BY <1>2 DEF Seen

(* A step that changes one call and no database.                            *)
LEMMA QuietList ==
  ASSUME TypeOK, LoopInv, ListInv, lates = 0, ClocksClose,
         NEW c \in Clients, NEW call \in Calls \cup {Idle},
         op' = [op EXCEPT ![c] = call], disk' = disk, clock' = clock,
         writes' \in Nat, writes' >= writes,
         call.kind = "set" => call.val = writes + 1,
         call.kind = "list" => \A k \in Keys : call.found[k] \in Seen(k, disk, op),
         ListFinds(call, disk)
  PROVE  OrderedNext /\ \A d \in Clients : ListFinds(op'[d], disk')
<1>1. op'[c] = call /\ \A d \in Clients \ {c} : op'[d] = op[d]
  BY DEF TypeOK
<1>2. \A k \in Keys : Seen(k, disk', op') \subseteq Seen(k, disk, op)
  BY OneCallSeen
<1>3. ASSUME NEW d \in Clients, op'[d].kind = "set"
      PROVE  /\ op'[d].key \in Keys
             /\ \/ op[d].kind = "set" /\ op'[d].key = op[d].key /\ op'[d].val = op[d].val
                \/ op'[d].val = writes + 1
  <2>1. CASE d = c
    BY <1>1, <1>3, <2>1 DEF Calls, Idle
  <2>2. CASE d # c
    BY <1>1, <1>3, <2>2, CallFields DEF Calls
  <2> QED
    BY <2>1, <2>2
<1>4. clock' \in Nat /\ clock' >= clock
  BY DEF TypeOK
<1>5. OrderedNext
  BY <1>2, <1>3, <1>4, SeenKept
<1>6. \A d \in Clients : ListFinds(op'[d], disk')
  BY <1>1 DEF ListInv
<1> QED
  BY <1>5, <1>6

(* What a request leaves in the databases, and when.                        *)
LEMMA RequestFacts ==
  ASSUME NEW n \in Nodes, NEW k \in Keys, NEW v \in 0..MaxWrites, TypeOK,
         Answered(n, k, v) \/ Errs(n, k, v)
  PROVE  \/ disk' = disk /\ clock' = clock
         \/ v = 0 /\ disk' = [disk EXCEPT ![n][k] = NoFact] /\ clock' = clock
         \/ /\ v # 0 /\ clock' = clock + Gap
            /\ disk' = [disk EXCEPT ![n][k] = [val |-> v, ver |-> clock + Gap + Skew[n]]]
<1>1. Apply(n, k, v) \/ UNCHANGED <<disk, clock>>
  BY DEF Answered, Errs
<1>2. CASE Apply(n, k, v) /\ v = 0
  BY <1>2 DEF Apply
<1>3. CASE Apply(n, k, v) /\ v # 0
  <2>1. /\ clock' = clock + Gap
        /\ disk' = [disk EXCEPT ![n][k] = [val |-> v, ver |-> clock' + Skew[n]]]
    BY <1>3, Zenon DEF Apply
  <2> QED
    BY <1>3, <2>1
<1> QED
  BY <1>1, <1>2, <1>3

(* A List finds what it should as long as no node goes back on what the List *)
(* should find.                                                             *)
LEMMA ListFindsKept ==
  ASSUME NEW call \in Calls, call.prefix \subseteq Keys, NEW d1, NEW d2,
         d1 \in [Nodes -> [Keys -> Fact]], d2 \in [Nodes -> [Keys -> Fact]],
         \A k \in Keys : \/ call.floor[k] = 0
                         \/ \A n \in Nodes : d2[n][k].val >= d1[n][k].val,
         ListFinds(call, d1)
  PROVE  ListFinds(call, d2)
<1>1. /\ call.todo \subseteq Nodes
      /\ \A k \in Keys : /\ call.floor[k] \in Nat /\ call.found[k].val \in Nat
                         /\ \A n \in Nodes : d1[n][k].val \in Nat /\ d2[n][k].val \in Nat
  BY StoreAssumption DEF Calls, Fact
<1> SUFFICES ASSUME call.kind = "list", ~call.missed, NEW k \in call.prefix
             PROVE  \/ call.found[k].val >= call.floor[k]
                    \/ \E n \in call.todo : d2[n][k].val >= call.floor[k]
  BY DEF ListFinds
<1>2. k \in Keys
  OBVIOUS
<1>3. CASE call.floor[k] = 0
  BY <1>1, <1>2, <1>3
<1>4. CASE \A n \in Nodes : d2[n][k].val >= d1[n][k].val
  <2>1. CASE call.found[k].val >= call.floor[k]
    BY <2>1
  <2>2. CASE \E n \in call.todo : d1[n][k].val >= call.floor[k]
    BY <1>1, <1>2, <1>4, <2>2
  <2> QED
    BY <2>1, <2>2 DEF ListFinds
<1> QED
  BY <1>2, <1>3, <1>4

(* A node that is asked to set or delete a key.                             *)
LEMMA SetAsksList ==
  ASSUME TypeOK, TypeOK', LoopInv, FindInv, AckInv, ListInv, SoleWriter,
         lates = 0, ClocksClose, NEW c \in Clients, SetAsks(c)
  PROVE  OrderedNext /\ \A d \in Clients : ListFinds(op'[d], disk')
<1> DEFINE n == NextTarget(c)
           k == op[c].key
           v == op[c].val
           new == [val |-> v, ver |-> clock + Gap + Skew[n]]
<1>1. /\ op[c] \in Calls /\ op[c] # Idle /\ n \in Nodes
      /\ op[c].kind \in {"set", "delete"} /\ Loop(c, op[c])
  BY NextTargetInTodo DEF SetAsks, LoopInv
<1>2. /\ k \in Keys /\ v \in 0..MaxWrites /\ v \in Nat /\ writes \in Nat /\ clock \in Nat
      /\ disk \in [Nodes -> [Keys -> Fact]] /\ disk' \in [Nodes -> [Keys -> Fact]]
  BY <1>1, StoreAssumption DEF Calls, TypeOK
<1>3. PICK call \in Calls :
        /\ op' = [op EXCEPT ![c] = call] /\ SameCall(call, op[c])
        /\ Answered(n, k, v) \/ Errs(n, k, v)
  BY SetAsksCall
<1>4. op'[c] = call /\ \A d \in Clients \ {c} : op'[d] = op[d]
  BY <1>3 DEF TypeOK
<1>5. call.kind = op[c].kind /\ call.key = k /\ call.val = v /\ writes' = writes
  BY <1>3 DEF SameCall, SetAsks
<1>6. \/ disk' = disk /\ clock' = clock
      \/ v = 0 /\ disk' = [disk EXCEPT ![n][k] = NoFact] /\ clock' = clock
      \/ v # 0 /\ clock' = clock + Gap /\ disk' = [disk EXCEPT ![n][k] = new]
  BY <1>1, <1>2, <1>3, RequestFacts
<1> HIDE DEF new
<1>7. \A d \in Clients : op'[d].kind = "set" =>
        /\ op'[d].key \in Keys /\ op[d].kind = "set"
        /\ op'[d].key = op[d].key /\ op'[d].val = op[d].val
  BY <1>1, <1>2, <1>4, <1>5, CallFields DEF Calls
<1>8. ASSUME NEW j \in Keys, NEW S,
             NoFact \in S, \A m \in Nodes : disk'[m][j] \in S, Seen(j, disk, op) \subseteq S
      PROVE  Seen(j, disk', op') \subseteq S
  <2>1. \A e \in Clients : op'[e].kind = "list" =>
          op[e].kind = "list" /\ op'[e].found[j] = op[e].found[j]
    BY <1>1, <1>4, <1>5
  <2>2. \A e \in Clients : op'[e].kind = "list" => op'[e].found[j] \in S
    BY <1>8, <2>1 DEF Seen
  <2> QED
    BY <1>8, <2>2 DEF Seen
<1>9. \A j \in Keys : /\ NoFact \in Seen(j, disk, op)
                       /\ \A m \in Nodes : disk[m][j] \in Seen(j, disk, op)
  BY DEF Seen
<1>10. ASSUME \A j \in Keys : \/ \A e \in Clients : op[e] # Idle => op[e].floor[j] = 0
                             \/ \A m \in Nodes : disk'[m][j].val >= disk[m][j].val
      PROVE  \A d \in Clients : ListFinds(op'[d], disk')
  <2>1. ListFinds(call, disk')
    BY <1>1, <1>5 DEF ListFinds
  <2>2. ASSUME NEW d \in Clients \ {c}, op[d].kind = "list" PROVE ListFinds(op[d], disk')
    <3>1. op[d] \in Calls /\ op[d].prefix \subseteq Keys /\ op[d] # Idle
      BY <2>2, CallFields DEF Calls, Idle
    <3>2. ListFinds(op[d], disk)
      BY DEF ListInv
    <3>3. \A j \in Keys : \/ op[d].floor[j] = 0
                          \/ \A m \in Nodes : disk'[m][j].val >= disk[m][j].val
      BY <1>10, <3>1
    <3> QED
      BY <1>2, <3>1, <3>2, <3>3, ListFindsKept
  <2> QED
    BY <1>4, <2>1, <2>2 DEF ListFinds
<1>11. CASE v = 0 \/ (disk' = disk /\ clock' = clock)
  <2>1. clock' = clock
    BY <1>6, <1>11
  <2>2. \A m \in Nodes, j \in Keys : disk'[m][j] \in {disk[m][j], NoFact}
    BY <1>2, <1>6, <1>11
  <2>3. \A j \in Keys : Seen(j, disk', op') \subseteq Seen(j, disk, op)
    <3>1. ASSUME NEW j \in Keys PROVE Seen(j, disk', op') \subseteq Seen(j, disk, op)
      <4>1. \A m \in Nodes : disk'[m][j] \in Seen(j, disk, op)
        BY <1>9, <2>2
      <4> QED
        BY <1>8, <1>9, <4>1
    <3> QED
      BY <3>1
  <2>4. OrderedNext
    BY <1>2, <1>5, <1>7, <2>1, <2>3, SeenKept
  <2>5. ASSUME NEW j \in Keys
        PROVE  \/ \A e \in Clients : op[e] # Idle => op[e].floor[j] = 0
               \/ \A m \in Nodes : disk'[m][j].val >= disk[m][j].val
    <3>1. CASE disk' = disk
      BY <1>2, <3>1, FactNumbers
    <3>2. CASE disk' # disk /\ j = k
      <4>1. v = 0 /\ op[c].kind = "delete"
        BY <1>1, <1>11, <3>2 DEF Loop
      <4> QED
        BY <3>2, <4>1 DEF FindInv, DeletesOwn
    <3>3. CASE disk' # disk /\ j # k
      <4>1. \A m \in Nodes : disk'[m][j] = disk[m][j]
        BY <1>2, <1>6, <3>3
      <4> QED
        BY <1>2, <4>1, FactNumbers
    <3> QED
      BY <3>1, <3>2, <3>3
  <2> QED
    BY <1>10, <2>4, <2>5
<1>12. CASE v # 0 /\ clock' = clock + Gap /\ disk' = [disk EXCEPT ![n][k] = new]
  <2>1. op[c].kind = "set"
    BY <1>1, <1>12 DEF Loop
  <2>2. /\ v <= writes /\ \A m \in Nodes : disk[m][k].val <= v
        /\ \A f \in Seen(k, disk, op) : f.val <= v
        /\ \A j \in Keys : Ordered(Seen(j, disk, op), clock, writes)
    BY <2>1 DEF AckInv, Newest, ListInv
  <2>3. Ordered(Seen(k, disk, op) \cup {new}, clock', writes')
    BY <1>1, <1>2, <1>5, <1>12, <2>2, OrderedAdds DEF new
  <2>4. /\ disk'[n][k] = new
        /\ \A m \in Nodes, j \in Keys : m # n \/ j # k => disk'[m][j] = disk[m][j]
    BY <1>1, <1>2, <1>12
  <2>5. Seen(k, disk', op') \subseteq Seen(k, disk, op) \cup {new}
    <3>1. \A m \in Nodes : disk'[m][k] \in Seen(k, disk, op) \cup {new}
      BY <1>2, <1>9, <2>4
    <3> QED
      BY <1>2, <1>8, <1>9, <3>1
  <2>6. \A j \in Keys \ {k} : Seen(j, disk', op') \subseteq Seen(j, disk, op)
    <3>1. ASSUME NEW j \in Keys \ {k}
          PROVE  Seen(j, disk', op') \subseteq Seen(j, disk, op)
      <4>1. \A m \in Nodes : disk'[m][j] \in Seen(j, disk, op)
        BY <1>9, <2>4
      <4> QED
        BY <1>8, <1>9, <4>1
    <3> QED
      BY <3>1
  <2>7. clock' \in Nat /\ clock' >= clock /\ writes' >= writes /\ writes' \in Nat
    BY <1>2, <1>5, <1>12, FactNumbers
  <2>8. Ordered(Seen(k, disk', op'), clock', writes')
    BY <2>3, <2>5, <2>7, OrderedKept
  <2>9. \A j \in Keys \ {k} : Ordered(Seen(j, disk', op'), clock', writes')
    BY <1>2, <2>2, <2>6, <2>7, OrderedKept
  <2>10. ASSUME NEW d \in Clients, op'[d].kind = "set", NEW f \in Seen(op'[d].key, disk', op')
         PROVE  f.val <= op'[d].val
    <3>1. CASE d = c
      <4>1. op'[d].key = k /\ op'[d].val = v
        BY <1>4, <1>5, <3>1
      <4>2. new.val = v
        BY DEF new
      <4> QED
        BY <1>2, <2>2, <2>5, <2>10, <4>1, <4>2
    <3>2. CASE d # c
      <4>1. op'[d] = op[d] /\ op[d].kind = "set" /\ op[d].key \in Keys \ {k}
        BY <1>4, <1>7, <2>1, <2>10, <3>2, OneChange
      <4> QED
        BY <2>6, <2>10, <4>1 DEF ListInv
    <3> QED
      BY <3>1, <3>2
  <2>11. OrderedNext
    BY <2>8, <2>9, <2>10 DEF OrderedNext
  <2>12. \A m \in Nodes, j \in Keys : disk'[m][j].val >= disk[m][j].val
    <3>1. new.val = v
      BY DEF new
    <3> QED
      BY <1>2, <2>2, <2>4, <3>1, FactNumbers
  <2> QED
    BY <1>10, <2>11, <2>12
<1> QED
  BY <1>6, <1>11, <1>12

(* A List keeps, of what it has found and what a node has, the fact that was *)
(* set last.                                                                *)
LEMMA ListAsksList ==
  ASSUME TypeOK, LoopInv, ListInv, lates = 0, ClocksClose,
         NEW c \in Clients, ListAsks(c)
  PROVE  OrderedNext /\ \A d \in Clients : ListFinds(op'[d], disk')
<1>1. PICK call \in Calls, n \in Nodes :
        /\ op' = [op EXCEPT ![c] = call] /\ SameCall(call, op[c])
        /\ \/ /\ call.missed = op[c].missed /\ call.todo = Asked(c, n)
              /\ call.found = Merge(op[c].found, disk[n], op[c].prefix)
           \/ call.missed /\ call.found = op[c].found
  BY ListAsksCall
<1>2. /\ op[c].kind = "list" /\ op[c] \in Calls
      /\ disk' = disk /\ clock' = clock /\ writes' = writes
  BY CallFields DEF ListAsks, ReadOnly
<1>3. call.kind = "list" /\ call.floor = op[c].floor /\ call.prefix = op[c].prefix
  BY <1>1, <1>2 DEF SameCall
<1>4. op[c].prefix \subseteq Keys
  BY <1>2 DEF Calls
<1>5. ASSUME NEW k \in Keys
      PROVE  call.found[k] \in Seen(k, disk, op)
  <2>1. op[c].found[k] \in Seen(k, disk, op) /\ disk[n][k] \in Seen(k, disk, op)
    BY <1>2 DEF Seen
  <2> QED
    BY <1>1, <2>1 DEF Merge
<1>6. ListFinds(call, disk)
  <2> SUFFICES ASSUME ~call.missed, NEW k \in op[c].prefix
               PROVE  \/ call.found[k].val >= op[c].floor[k]
                      \/ \E m \in call.todo : disk[m][k].val >= op[c].floor[k]
    BY <1>3 DEF ListFinds
  <2> DEFINE f == op[c].found[k]
             g == disk[n][k]
             h == call.found[k]
  <2>1. k \in Keys /\ h = IF g.ver > f.ver THEN g ELSE f
    BY <1>1, <1>4 DEF Merge
  <2>2. f \in Seen(k, disk, op) /\ g \in Seen(k, disk, op)
    BY <1>2 DEF Seen
  <2>3. Ordered(Seen(k, disk, op), clock, writes)
    BY <2>1 DEF ListInv
  <2>4. /\ f.val < g.val => f.ver < g.ver
        /\ g.val < f.val => g.ver < f.ver
        /\ f \in Fact /\ g \in Fact
    BY <2>2, <2>3 DEF Ordered
  <2>5. f.val \in Nat /\ g.val \in Nat /\ f.ver \in Nat /\ g.ver \in Nat
    BY <2>4, FactNumbers
  <2>6. op[c].floor[k] \in Nat
    BY <1>2, <2>1, StoreAssumption DEF Calls
  <2>7. \/ f.val >= op[c].floor[k]
        \/ \E m \in op[c].todo : disk[m][k].val >= op[c].floor[k]
    BY <1>1, <1>2 DEF ListInv, ListFinds
  <2> HIDE DEF f, g, h
  <2>8. h.val >= f.val /\ h.val >= g.val
    BY <2>1, <2>4, <2>5
  <2>9. h.val \in Nat
    BY <2>1, <2>5
  <2>10. CASE f.val >= op[c].floor[k]
    <3>1. h.val >= op[c].floor[k]
      BY <2>5, <2>6, <2>8, <2>9, <2>10
    <3> QED
      BY <3>1 DEF h
  <2>11. CASE g.val >= op[c].floor[k]
    <3>1. h.val >= op[c].floor[k]
      BY <2>5, <2>6, <2>8, <2>9, <2>11
    <3> QED
      BY <3>1 DEF h
  <2>12. CASE \E m \in op[c].todo \ {n} : disk[m][k].val >= op[c].floor[k]
    BY <1>1, <2>12 DEF Asked
  <2> QED
    BY <2>7, <2>10, <2>11, <2>12 DEF g
<1>7. writes' \in Nat /\ writes' >= writes
  BY <1>2, StoreAssumption DEF TypeOK
<1> QED
  BY <1>1, <1>2, <1>3, <1>5, <1>6, <1>7, QuietList

LEMMA DeleteBeginList ==
  ASSUME TypeOK, LoopInv, ListInv, lates = 0, ClocksClose,
         NEW c \in Clients, DeleteBegin(c)
  PROVE  OrderedNext /\ \A d \in Clients : ListFinds(op'[d], disk')
<1>1. PICK k \in WritesTo[c] :
        /\ writes < MaxWrites /\ writes' = writes + 1 /\ Deletes
        /\ disk' = disk /\ clock' = clock
        /\ op' = [Forget(k) EXCEPT ![c] = Call("delete", k, 0, Targets(k))]
  BY DEF DeleteBegin
<1> DEFINE D == Call("delete", k, 0, Targets(k))
<1>2. k \in Keys /\ D \in Calls /\ Loop(c, D) /\ op' = [Forget(k) EXCEPT ![c] = D]
  BY <1>1, SetBeginCall
<1>3. D.kind = "delete"
  BY DEF Call
<1> HIDE DEF D
<1>4. op'[c] = D /\ \A d \in Clients \ {c} : op'[d] = Forget(k)[d]
  BY <1>2, DeleteBeginCalls
<1>5. ASSUME NEW d \in Clients, op'[d].kind \in {"set", "list"}
      PROVE  /\ d # c /\ op[d] # Idle /\ op'[d] = Forget(k)[d]
             /\ op'[d].kind = op[d].kind /\ op[d] \in Calls
  <2>1. d # c /\ op'[d] = Forget(k)[d]
    BY <1>3, <1>4, <1>5
  <2>2. op[d] # Idle
    BY <1>2, <1>5, <2>1, ForgetFields DEF Idle
  <2>3. Forget(k)[d].kind = op[d].kind /\ op[d] \in Calls
    BY <1>2, <2>2, ForgottenCall
  <2> QED
    BY <2>1, <2>2, <2>3
<1>6. ASSUME NEW j \in Keys PROVE Seen(j, disk', op') \subseteq Seen(j, disk, op)
  <2>1. ASSUME NEW d \in Clients, op'[d].kind = "list"
        PROVE  op[d].kind = "list" /\ op'[d].found[j] = op[d].found[j]
    <3>1. op[d] # Idle /\ op'[d] = Forget(k)[d] /\ op'[d].kind = op[d].kind
      BY <1>5, <2>1
    <3>2. Forget(k)[d].found = op[d].found
      BY <1>2, <3>1, ForgottenCall
    <3> QED
      BY <2>1, <3>1, <3>2
  <2> QED
    BY <1>1, <2>1 DEF Seen
<1>7. ASSUME NEW d \in Clients, op'[d].kind = "set"
      PROVE  /\ op'[d].key \in Keys /\ op[d].kind = "set"
             /\ op'[d].key = op[d].key /\ op'[d].val = op[d].val
  <2>1. op[d] # Idle /\ op'[d] = Forget(k)[d] /\ op'[d].kind = op[d].kind /\ op[d] \in Calls
    BY <1>5, <1>7
  <2>2. Forget(k)[d].key = op[d].key /\ Forget(k)[d].val = op[d].val
    BY <1>2, <2>1, ForgottenCall
  <2>3. op[d].key \in Keys
    BY <2>1 DEF Calls
  <2> QED
    BY <1>7, <2>1, <2>2, <2>3
<1>8. /\ clock' \in Nat /\ clock' >= clock /\ writes' \in Nat /\ writes' >= writes
  BY <1>1, StoreAssumption DEF TypeOK
<1>9. OrderedNext
  BY <1>6, <1>7, <1>8, SeenKept
<1>10. ASSUME NEW d \in Clients, op'[d].kind = "list" PROVE ListFinds(op'[d], disk)
  <2>1. op[d] # Idle /\ op'[d] = Forget(k)[d] /\ op'[d].kind = op[d].kind /\ op[d] \in Calls
    BY <1>5, <1>10
  <2>2. /\ Forget(k)[d].found = op[d].found /\ Forget(k)[d].prefix = op[d].prefix
        /\ Forget(k)[d].floor = [op[d].floor EXCEPT ![k] = 0]
    BY <1>2, <2>1, ForgottenCall
  <2>3. Forget(k)[d].todo = op[d].todo
    BY <1>2, <2>1, ForgottenCall
  <2>4. ~Forget(k)[d].missed => ~op[d].missed
    BY <1>2, <2>1, ForgottenMissed
  <2>5. /\ op[d].prefix \subseteq Keys
        /\ \A j \in Keys : op[d].floor[j] \in Nat /\ op[d].found[j].val \in Nat
    BY <2>1, StoreAssumption DEF Calls, Fact
  <2>6. op[d].floor \in [Keys -> 0..MaxWrites]
    BY <2>1 DEF Calls
  <2>7. /\ [op[d].floor EXCEPT ![k] = 0][k] = 0
        /\ \A j \in Keys \ {k} : [op[d].floor EXCEPT ![k] = 0][j] = op[d].floor[j]
    BY <1>2, <2>6
  <2>8. ListFinds(op[d], disk)
    BY DEF ListInv
  <2>9. ASSUME ~Forget(k)[d].missed, NEW j \in op[d].prefix
        PROVE  \/ Forget(k)[d].found[j].val >= Forget(k)[d].floor[j]
               \/ \E m \in Forget(k)[d].todo : disk[m][j].val >= Forget(k)[d].floor[j]
    <3>1. CASE j = k
      BY <2>2, <2>5, <2>7, <3>1
    <3>2. CASE j # k
      <4>1. \/ op[d].found[j].val >= op[d].floor[j]
            \/ \E m \in op[d].todo : disk[m][j].val >= op[d].floor[j]
        BY <1>10, <2>1, <2>4, <2>8, <2>9 DEF ListFinds
      <4>2. Forget(k)[d].floor[j] = op[d].floor[j]
        BY <2>2, <2>5, <2>7, <3>2
      <4> QED
        BY <2>2, <2>3, <4>1, <4>2
    <3> QED
      BY <3>1, <3>2
  <2> QED
    BY <2>1, <2>2, <2>9 DEF ListFinds
<1>11. \A d \in Clients : ListFinds(op'[d], disk')
  BY <1>1, <1>10 DEF ListFinds
<1> QED
  BY <1>9, <1>11

LEMMA InitListInv == Init => ListInv
<1> SUFFICES ASSUME Init PROVE ListInv
  OBVIOUS
<1>1. \A c \in Clients : op[c] = Idle /\ op[c].kind = "idle"
  BY DEF Init, Idle
<1>2. \A k \in Keys : Seen(k, disk, op) = {NoFact}
  BY <1>1 DEF Init, Seen
<1>3. Ordered({NoFact}, clock, writes)
  <2>1. clock = 0 /\ writes = 0
    BY DEF Init
  <2> QED
    BY <2>1, FactNumbers DEF Ordered
<1> QED
  BY <1>1, <1>2, <1>3 DEF ListInv, ListFinds

LEMMA NextListInv ==
  ASSUME SoleWriter, TypeOK, TypeOK', LoopInv, FindInv, AckInv, ListInv, [Next]_vars
  PROVE  ListInv'
<1> DEFINE Goal == OrderedNext /\ \A d \in Clients : ListFinds(op'[d], disk')
<1> SUFFICES ASSUME lates = 0, ClocksClose, late = {} PROVE Goal
  <2>1. ListInv' <=> (lates' = 0 /\ ClocksClose => Goal)
    BY DEF ListInv, OrderedNext, Ordered, Seen, ListFinds, ClocksClose
  <2>2. lates = 0 => late = {}
    BY DEF AckInv
  <2> QED
    BY <2>1, <2>2, LateStays
<1> HIDE DEF Goal
<1>1. writes \in Nat /\ clock \in Nat
  BY StoreAssumption DEF TypeOK
<1>2. ASSUME NEW c \in Clients, NEW call \in Calls \cup {Idle},
             op' = [op EXCEPT ![c] = call], disk' = disk, clock' = clock,
             writes' \in {writes, writes + 1}, call.kind \notin {"set", "list"}
      PROVE  Goal
  <2>1. ListFinds(call, disk)
    BY <1>2 DEF ListFinds
  <2>2. writes' \in Nat /\ writes' >= writes
    BY <1>1, <1>2
  <2> QED
    BY <1>2, <2>1, <2>2, QuietList DEF Goal
<1>3. ASSUME NEW c \in Clients, SetBegin(c) PROVE Goal
  <2>1. PICK k \in WritesTo[c] :
          /\ writes < MaxWrites /\ disk' = disk /\ clock' = clock /\ writes' = writes + 1
          /\ op' = [op EXCEPT ![c] = Call("set", k, writes + 1, Targets(k))]
    BY <1>3 DEF SetBegin, Begin
  <2> DEFINE S == Call("set", k, writes + 1, Targets(k))
  <2>2. S \in Calls
    BY <2>1, SetBeginCall
  <2>3. S.kind = "set" /\ S.val = writes + 1
    BY DEF Call
  <2>4. op' = [op EXCEPT ![c] = S]
    BY <2>1
  <2> HIDE DEF S
  <2>5. ListFinds(S, disk)
    BY <2>3 DEF ListFinds
  <2>6. writes' \in Nat /\ writes' >= writes
    BY <1>1, <2>1
  <2> QED
    BY <2>1, <2>2, <2>3, <2>4, <2>5, <2>6, QuietList DEF Goal
<1>4. ASSUME NEW c \in Clients, GetBegin(c) PROVE Goal
  <2>1. PICK k \in Keys : op' = [op EXCEPT ![c] = Call("get", k, 0, Targets(k))]
    BY <1>4 DEF GetBegin, Begin
  <2>2. /\ Call("get", k, 0, Targets(k)) \in Calls
        /\ Call("get", k, 0, Targets(k)).kind = "get"
    BY ReadBeginCall DEF Call
  <2>3. disk' = disk /\ clock' = clock /\ writes' = writes
    BY <1>4 DEF GetBegin, ReadOnly
  <2> QED
    BY <1>2, <2>1, <2>2, <2>3
<1>5. ASSUME NEW c \in Clients, ListBegin(c) PROVE Goal
  <2> DEFINE L == ListCall(Keys)
  <2>1. /\ op' = [op EXCEPT ![c] = L] /\ L \in Calls /\ L.kind = "list"
        /\ L.todo = Nodes /\ L.prefix = Keys /\ L.floor = acked
        /\ L.found = [j \in Keys |-> NoFact]
    BY <1>5, NewListCall DEF ListBegin, Begin
  <2>2. disk' = disk /\ clock' = clock /\ writes' = writes
    BY <1>5 DEF ListBegin, ReadOnly
  <2> HIDE DEF L
  <2>3. \A j \in Keys : L.found[j] \in Seen(j, disk, op)
    BY <2>1 DEF Seen
  <2>4. ListFinds(L, disk)
    <3>1. ASSUME NEW j \in Keys
          PROVE  \/ L.found[j].val >= L.floor[j]
                 \/ \E n \in L.todo : disk[n][j].val >= L.floor[j]
      <4>1. CASE acked[j] = 0
        BY <2>1, <4>1, FactNumbers
      <4>2. CASE acked[j] # 0
        <5>1. AtLeast(j, acked[j], disk) /\ Targets(j) \subseteq Nodes
          BY <4>2, StoreAssumption DEF AckInv, Targets
        <5> QED
          BY <2>1, <5>1 DEF AtLeast
      <4> QED
        BY <4>1, <4>2
    <3> QED
      BY <2>1, <3>1 DEF ListFinds
  <2>5. writes' \in Nat /\ writes' >= writes
    BY <1>1, <2>2
  <2> QED
    BY <2>1, <2>2, <2>3, <2>4, <2>5, QuietList DEF Goal
<1>6. ASSUME NEW c \in Clients, SetReturns(c) \/ ReadReturns(c) PROVE Goal
  <2>1. /\ op' = [op EXCEPT ![c] = Idle] /\ Idle.kind \notin {"set", "list"}
        /\ disk' = disk /\ clock' = clock /\ writes' = writes
    BY <1>6 DEF SetReturns, ReadReturns, ReadOnly, Return, Idle
  <2> QED
    BY <1>2, <2>1
<1>7. ASSUME NEW c \in Clients, GetAsks(c) PROVE Goal
  <2>1. PICK call \in Calls : op' = [op EXCEPT ![c] = call] /\ SameCall(call, op[c])
    BY <1>7, GetAsksCall
  <2>2. /\ call.kind = "get"
        /\ disk' = disk /\ clock' = clock /\ writes' = writes
    BY <1>7, <2>1 DEF GetAsks, SameCall, ReadOnly
  <2> QED
    BY <1>2, <2>1, <2>2
<1>8. ASSUME UNCHANGED <<disk, op, clock, writes>> PROVE Goal
  BY <1>8 DEF ListInv, OrderedNext, Goal
<1>9. ASSUME NEW n \in Nodes, NodeCrash(n) \/ NodeRestart(n)
      PROVE  UNCHANGED <<disk, op, clock, writes>>
  BY <1>9 DEF NodeCrash, NodeRestart
<1>10. UNCHANGED vars => UNCHANGED <<disk, op, clock, writes>>
  BY DEF vars
<1>11. ~ArriveLate
  BY DEF ArriveLate
<1>12. \A c \in Clients : SetAsks(c) \/ ListAsks(c) \/ DeleteBegin(c) => Goal
  BY SetAsksList, ListAsksList, DeleteBeginList DEF Goal
<1> QED
  BY <1>3, <1>4, <1>5, <1>6, <1>7, <1>8, <1>9, <1>10, <1>11, <1>12 DEF Next, ClientStep

(* A List that all nodes answer returns, for every key, the fact that was    *)
(* acknowledged before it began or a later one, although the nodes are asked *)
(* one after the other, in any order, while facts are set and deleted        *)
(* (replication.go:81-101): the versions, read from the clocks of different  *)
(* nodes, order the facts of a key as they were set, if the key has one      *)
(* writer, no request comes late and the clocks are close enough.            *)
THEOREM ListFindsNewestHolds ==
  ASSUME SoleWriter
  PROVE  Spec => []ListFindsNewest
<1> DEFINE Inv == TypeInv /\ FindInv /\ AckInv /\ ListInv
<1>1. Init => Inv
  BY InitTypeInv, InitFindInv, InitAckInv, InitListInv
<1>2. Inv /\ [Next]_vars => Inv'
  <2> SUFFICES ASSUME Inv, [Next]_vars PROVE Inv'
    OBVIOUS
  <2>1. TypeInv'
    BY NextTypeInv
  <2>2. FindInv' /\ AckInv'
    BY NextFindInv, NextAckInv DEF TypeInv
  <2>3. TypeOK'
    BY <2>1 DEF TypeInv
  <2>4. ListInv'
    BY <2>3, NextListInv DEF TypeInv
  <2> QED
    BY <2>1, <2>2, <2>4
<1>3. Inv => ListFindsNewest
  BY DEF ListInv, ListFinds, ClocksClose, ListFindsNewest
<1> QED
  BY <1>1, <1>2, <1>3, PTL DEF Spec

-----------------------------------------------------------------------------
(* The nodes of a key agree *)

Writing(call) == call.kind \in {"set", "delete"}

(* The nodes that answered a Set or Delete hold what it wrote.              *)
Wrote(call, d) ==
  Writing(call) /\ call.errs = 0 =>
    \A n \in Targets(call.key) \ call.todo : d[n][call.key].val = call.val

AgreeInv ==
  lates = 0 =>
    /\ late = {}
    /\ \A c \in Clients : Wrote(op[c], disk)
    /\ faults = 0 /\ crashes = 0 =>
         /\ up = Nodes
         /\ \A c \in Clients : Writing(op[c]) => op[c].errs = 0
         /\ \A k \in Keys : ~Changing(k) =>
              disk[Primary[k]][k].val = disk[Replica[k]][k].val

(* What AgreeInv says of the next state, whose late requests are the same.  *)
AgreeNext ==
  /\ \A c \in Clients : Wrote(op'[c], disk')
  /\ faults' = 0 /\ crashes' = 0 =>
       /\ up' = Nodes
       /\ \A c \in Clients : Writing(op'[c]) => op'[c].errs = 0
       /\ \A k \in Keys : (\A c \in Clients : Writing(op'[c]) => op'[c].key # k) =>
            disk'[Primary[k]][k].val = disk'[Replica[k]][k].val

LEMMA ChangingKeys ==
  ASSUME NEW k
  PROVE  Changing(k) <=> \E c \in Clients : Writing(op[c]) /\ op[c].key = k
BY DEF Changing, Writing

(* A call that was under way, or that has not asked a node yet.             *)
SameOrFresh(call, old) ==
  Writing(call) =>
    \/ /\ call.kind = old.kind /\ call.key = old.key /\ call.val = old.val
       /\ call.todo = old.todo /\ call.errs = old.errs
    \/ call.todo = Targets(call.key) /\ call.errs = 0

(* A step that leaves the databases and the calls that write alone.         *)
LEMMA QuietAgree ==
  ASSUME TypeOK, AgreeInv, lates = 0, disk' = disk,
         \A c \in Clients : SameOrFresh(op'[c], op[c]),
         \A c \in Clients : Writing(op[c]) => Writing(op'[c]) /\ op'[c].key = op[c].key,
         faults' = 0 => faults = 0,
         crashes' = 0 => crashes = 0 /\ (up = Nodes => up' = Nodes)
  PROVE  AgreeNext
<1>1. \A c \in Clients : Wrote(op'[c], disk')
  BY DEF AgreeInv, Wrote, SameOrFresh, Writing
<1>2. ASSUME faults' = 0, crashes' = 0
      PROVE  /\ up' = Nodes
             /\ \A c \in Clients : Writing(op'[c]) => op'[c].errs = 0
             /\ \A k \in Keys : (\A c \in Clients : Writing(op'[c]) => op'[c].key # k) =>
                  disk'[Primary[k]][k].val = disk'[Replica[k]][k].val
  <2>1. /\ up = Nodes
        /\ \A c \in Clients : Writing(op[c]) => op[c].errs = 0
        /\ \A k \in Keys : ~Changing(k) =>
             disk[Primary[k]][k].val = disk[Replica[k]][k].val
    BY <1>2 DEF AgreeInv
  <2>2. \A c \in Clients : Writing(op'[c]) => op'[c].errs = 0
    BY <2>1 DEF SameOrFresh, Writing
  <2>3. ASSUME NEW k \in Keys, \A c \in Clients : Writing(op'[c]) => op'[c].key # k
        PROVE  disk'[Primary[k]][k].val = disk'[Replica[k]][k].val
    BY <2>1, <2>3, ChangingKeys
  <2> QED
    BY <1>2, <2>1, <2>2, <2>3
<1> QED
  BY <1>1, <1>2 DEF AgreeNext

(* The fields of a Forget that matter here.                                 *)
LEMMA ForgottenWrites ==
  ASSUME TypeOK, LoopInv, NEW k \in Keys, NEW c \in Clients
  PROVE  /\ SameOrFresh(Forget(k)[c], op[c])
         /\ Writing(op[c]) => Writing(Forget(k)[c]) /\ Forget(k)[c].key = op[c].key
<1>1. CASE op[c] = Idle
  <2>1. Forget(k)[c] = Idle
    BY <1>1 DEF Forget
  <2> QED
    BY <1>1, <2>1 DEF SameOrFresh, Writing, Idle
<1>2. CASE op[c] # Idle
  BY <1>2, ForgottenCall DEF SameOrFresh, Writing
<1> QED
  BY <1>1, <1>2

(* A request of a Set or Delete: when it is answered, one node more has what *)
(* the call writes, and no other call writes the key.                       *)
LEMMA SetAsksAgree ==
  ASSUME TypeOK, LoopInv, AgreeInv, SoleWriter, lates = 0, lates' = 0,
         NEW c \in Clients, SetAsks(c)
  PROVE  AgreeNext
<1> DEFINE n == NextTarget(c)
           k == op[c].key
           v == op[c].val
<1>1. /\ op[c] \in Calls /\ n \in op[c].todo /\ n \in Nodes /\ Writing(op[c])
  BY NextTargetInTodo DEF SetAsks, Writing
<1>2. k \in Keys /\ v \in 0..MaxWrites /\ op[c].errs \in 0..2
  BY <1>1 DEF Calls
<1>3. PICK call \in Calls :
        /\ op' = [op EXCEPT ![c] = call]
        /\ SameCall(call, op[c])
        /\ call.todo = Asked(c, n)
        /\ \/ Answered(n, k, v) /\ call.errs = op[c].errs
           \/ Errs(n, k, v) /\ call.errs = op[c].errs + 1
  BY SetAsksCall
<1>4. /\ \A m \in Nodes, j \in Keys :
           m # n \/ j # k => disk'[m][j] = disk[m][j]
      /\ Answered(n, k, v) => disk'[n][k].val = v
  BY <1>1, <1>2, <1>3, RequestChanges
<1>5. op'[c] = call /\ \A d \in Clients \ {c} : op'[d] = op[d]
  BY <1>3 DEF TypeOK
<1>6. /\ Writing(call) /\ call.key = k /\ call.val = v
      /\ call.todo = op[c].todo \ {n}
  BY <1>1, <1>3 DEF SameCall, Asked, Writing
<1>7. Wrote(call, disk')
  <2>1. CASE Answered(n, k, v) /\ call.errs = op[c].errs
    <3>1. ASSUME op[c].errs = 0, NEW m \in Targets(k) \ call.todo
          PROVE  disk'[m][k].val = v
      <4>1. CASE m = n
        BY <1>4, <2>1, <4>1
      <4>2. CASE m # n
        <5>1. m \in Targets(k) \ op[c].todo /\ m \in Nodes
          BY <1>2, <1>6, <3>1, <4>2, StoreAssumption DEF Targets
        <5>2. disk[m][k].val = v
          BY <1>1, <3>1, <5>1 DEF AgreeInv, Wrote
        <5> QED
          BY <1>2, <1>4, <4>2, <5>1, <5>2
      <4> QED
        BY <4>1, <4>2
    <3> QED
      BY <1>6, <2>1, <3>1 DEF Wrote
  <2>2. CASE call.errs = op[c].errs + 1
    BY <1>2, <2>2 DEF Wrote
  <2> QED
    BY <1>3, <2>1, <2>2
<1>8. ASSUME NEW d \in Clients \ {c} PROVE Wrote(op'[d], disk')
  <2> SUFFICES ASSUME Writing(op[d]), op[d].errs = 0, NEW m \in Targets(op[d].key) \ op[d].todo
               PROVE  disk'[m][op[d].key].val = op[d].val
    BY <1>5 DEF Wrote
  <2>1. op[d].key # k
    BY <1>1, OneChange DEF Writing
  <2>2. op[d].key \in Keys
    BY CallFields DEF Writing, Calls
  <2>3. m \in Nodes
    BY <2>2, StoreAssumption DEF Targets
  <2>4. disk[m][op[d].key].val = op[d].val
    BY DEF AgreeInv, Wrote
  <2> QED
    BY <1>4, <2>1, <2>2, <2>3, <2>4
<1>9. ASSUME faults' = 0, crashes' = 0
      PROVE  /\ up' = Nodes
             /\ \A d \in Clients : Writing(op'[d]) => op'[d].errs = 0
             /\ \A j \in Keys : (\A d \in Clients : Writing(op'[d]) => op'[d].key # j) =>
                  disk'[Primary[j]][j].val = disk'[Replica[j]][j].val
  <2>1. faults = 0 /\ crashes = 0 /\ up' = up
    <3>1. faults \in Nat
      BY StoreAssumption DEF TypeOK
    <3> QED
      BY <1>3, <1>9, <3>1 DEF SetAsks, Answered, Errs, Fault, counters
  <2>2. /\ up = Nodes
        /\ \A d \in Clients : Writing(op[d]) => op[d].errs = 0
        /\ \A j \in Keys : ~Changing(j) =>
             disk[Primary[j]][j].val = disk[Replica[j]][j].val
    BY <2>1 DEF AgreeInv
  <2>3. ~Errs(n, k, v)
    BY <1>1, <1>9, <2>1, <2>2 DEF Errs, Fault
  <2>4. \A d \in Clients : Writing(op'[d]) => op'[d].errs = 0
    BY <1>1, <1>3, <1>5, <2>2, <2>3
  <2>5. ASSUME NEW j \in Keys, \A d \in Clients : Writing(op'[d]) => op'[d].key # j
        PROVE  disk'[Primary[j]][j].val = disk'[Replica[j]][j].val
    <3>1. j # k
      BY <1>5, <1>6, <2>5
    <3>2. ~Changing(j)
      BY <1>1, <1>5, <2>5, <3>1, ChangingKeys
    <3>3. Primary[j] \in Nodes /\ Replica[j] \in Nodes
      BY StoreAssumption
    <3> QED
      BY <1>4, <2>2, <3>1, <3>2, <3>3
  <2> QED
    BY <2>1, <2>2, <2>4, <2>5
<1>10. \A d \in Clients : Wrote(op'[d], disk')
  BY <1>5, <1>7, <1>8
<1> QED
  BY <1>9, <1>10 DEF AgreeNext

(* A Set or Delete returns: if both nodes answered, they have the same.     *)
LEMMA SetReturnsAgree ==
  ASSUME TypeOK, LoopInv, AgreeInv, lates = 0, NEW c \in Clients, SetReturns(c)
  PROVE  AgreeNext
<1>1. /\ Writing(op[c]) /\ op[c].todo = {} /\ op' = [op EXCEPT ![c] = Idle]
      /\ disk' = disk /\ up' = up /\ faults' = faults /\ crashes' = crashes
  BY DEF SetReturns, Return, Writing, counters
<1>2. op'[c] = Idle /\ \A d \in Clients \ {c} : op'[d] = op[d]
  BY <1>1 DEF TypeOK
<1>3. ~Writing(Idle)
  BY DEF Writing, Idle
<1>4. \A d \in Clients : Wrote(op'[d], disk')
  BY <1>1, <1>2, <1>3 DEF AgreeInv, Wrote
<1>5. ASSUME faults' = 0, crashes' = 0
      PROVE  /\ up' = Nodes
             /\ \A d \in Clients : Writing(op'[d]) => op'[d].errs = 0
             /\ \A k \in Keys : (\A d \in Clients : Writing(op'[d]) => op'[d].key # k) =>
                  disk'[Primary[k]][k].val = disk'[Replica[k]][k].val
  <2>1. /\ up = Nodes
        /\ \A d \in Clients : Writing(op[d]) => op[d].errs = 0
        /\ \A k \in Keys : ~Changing(k) =>
             disk[Primary[k]][k].val = disk[Replica[k]][k].val
    BY <1>1, <1>5 DEF AgreeInv
  <2>2. \A n \in Targets(op[c].key) : disk[n][op[c].key].val = op[c].val
    BY <1>1, <2>1 DEF AgreeInv, Wrote
  <2>3. ASSUME NEW k \in Keys, \A d \in Clients : Writing(op'[d]) => op'[d].key # k
        PROVE  disk'[Primary[k]][k].val = disk'[Replica[k]][k].val
    <3>1. CASE k = op[c].key
      BY <1>1, <2>2, <3>1 DEF Targets
    <3>2. CASE k # op[c].key
      <4>1. ~Changing(k)
        BY <1>2, <2>3, <3>2, ChangingKeys
      <4> QED
        BY <1>1, <2>1, <4>1
    <3> QED
      BY <3>1, <3>2
  <2> QED
    BY <1>1, <1>2, <1>3, <2>1, <2>3
<1> QED
  BY <1>4, <1>5 DEF AgreeNext

LEMMA InitAgreeInv == Init => AgreeInv
<1> SUFFICES ASSUME Init PROVE AgreeInv
  OBVIOUS
<1>1. \A c \in Clients : op[c] = Idle /\ ~Writing(op[c])
  BY DEF Init, Writing, Idle
<1>2. \A k \in Keys : disk[Primary[k]][k].val = disk[Replica[k]][k].val
  BY StoreAssumption DEF Init, NoFact
<1> QED
  BY <1>1, <1>2 DEF AgreeInv, Wrote, Init

LEMMA NextAgreeInv ==
  ASSUME SoleWriter, TypeOK, LoopInv, AgreeInv, [Next]_vars
  PROVE  AgreeInv'
<1> SUFFICES ASSUME lates = 0, lates' = 0, late = {} PROVE AgreeNext
  BY LateStays DEF AgreeInv, AgreeNext, Wrote, Writing, Changing
<1>1. faults \in Nat /\ crashes \in Nat
  BY StoreAssumption DEF TypeOK
<1>2. ASSUME NEW c \in Clients, NEW call \in Calls \cup {Idle}, op' = [op EXCEPT ![c] = call],
             disk' = disk, up' = up, crashes' = crashes, faults' \in {faults, faults + 1},
             ~Writing(op[c]), Writing(call) => call.todo = Targets(call.key) /\ call.errs = 0
      PROVE  AgreeNext
  <2>1. op'[c] = call /\ \A d \in Clients \ {c} : op'[d] = op[d]
    BY <1>2 DEF TypeOK
  <2>2. \A d \in Clients : SameOrFresh(op'[d], op[d])
    BY <1>2, <2>1 DEF SameOrFresh
  <2>3. \A d \in Clients : Writing(op[d]) => Writing(op'[d]) /\ op'[d].key = op[d].key
    BY <1>2, <2>1
  <2>4. faults' = 0 => faults = 0
    BY <1>1, <1>2
  <2> QED
    BY <1>2, <2>2, <2>3, <2>4, QuietAgree
<1>3. ~Writing(Idle)
  BY DEF Writing, Idle
<1>4. ASSUME NEW c \in Clients, SetBegin(c) PROVE AgreeNext
  <2>1. PICK k \in WritesTo[c] :
          /\ writes < MaxWrites /\ op[c] = Idle
          /\ op' = [op EXCEPT ![c] = Call("set", k, writes + 1, Targets(k))]
          /\ UNCHANGED <<disk, up, faults, crashes>>
    BY <1>4 DEF SetBegin, Begin, counters
  <2> DEFINE S == Call("set", k, writes + 1, Targets(k))
  <2>2. S \in Calls
    BY <2>1, SetBeginCall
  <2>3. S.key = k /\ S.todo = Targets(k) /\ S.errs = 0
    BY DEF Call
  <2> QED
    BY <1>2, <1>3, <2>1, <2>2, <2>3
<1>5. ASSUME NEW c \in Clients, DeleteBegin(c) PROVE AgreeNext
  <2>1. PICK k \in WritesTo[c] :
          /\ writes < MaxWrites /\ op[c] = Idle /\ Deletes
          /\ op' = [Forget(k) EXCEPT ![c] = Call("delete", k, 0, Targets(k))]
          /\ UNCHANGED <<disk, up, faults, crashes>>
    BY <1>5 DEF DeleteBegin, counters
  <2> DEFINE D == Call("delete", k, 0, Targets(k))
  <2>2. k \in Keys /\ D \in Calls /\ Loop(c, D)
    BY <2>1, SetBeginCall
  <2>3. D.key = k /\ D.todo = Targets(k) /\ D.errs = 0
    BY DEF Call
  <2>4. op'[c] = D /\ \A d \in Clients \ {c} : op'[d] = Forget(k)[d]
    BY <2>1, <2>2, DeleteBeginCalls
  <2>5. \A d \in Clients : SameOrFresh(op'[d], op[d])
    BY <2>2, <2>3, <2>4, ForgottenWrites DEF SameOrFresh
  <2>6. \A d \in Clients : Writing(op[d]) => Writing(op'[d]) /\ op'[d].key = op[d].key
    BY <1>3, <2>1, <2>2, <2>4, ForgottenWrites
  <2> QED
    BY <2>1, <2>5, <2>6, QuietAgree
<1>6. ASSUME NEW c \in Clients, NEW call \in Calls \cup {Idle},
             op' = [op EXCEPT ![c] = call], ReadOnly, ~Writing(op[c]), ~Writing(call),
             UNCHANGED counters \/ Fault
      PROVE  AgreeNext
  <2>1. disk' = disk /\ up' = up /\ crashes' = crashes /\ faults' \in {faults, faults + 1}
    BY <1>6 DEF ReadOnly, Fault, counters
  <2> QED
    BY <1>2, <1>6, <2>1
<1>7. ASSUME NEW c \in Clients, GetBegin(c) \/ ListBegin(c) PROVE AgreeNext
  <2>1. PICK call \in Calls : op' = [op EXCEPT ![c] = call] /\ ~Writing(call)
    <3>1. CASE GetBegin(c)
      <4>1. PICK k \in Keys : op' = [op EXCEPT ![c] = Call("get", k, 0, Targets(k))]
        BY <3>1 DEF GetBegin, Begin
      <4>2. Call("get", k, 0, Targets(k)) \in Calls
        BY ReadBeginCall
      <4>3. ~Writing(Call("get", k, 0, Targets(k)))
        BY DEF Call, Writing
      <4> QED
        BY <4>1, <4>2, <4>3
    <3>2. CASE ListBegin(c)
      BY <3>2, NewListCall DEF ListBegin, Begin, Writing
    <3> QED
      BY <1>7, <3>1, <3>2
  <2>2. op[c] = Idle /\ ReadOnly /\ UNCHANGED counters
    BY <1>7 DEF GetBegin, ListBegin, Begin
  <2> QED
    BY <1>3, <1>6, <2>1, <2>2
<1>8. ASSUME NEW c \in Clients, GetAsks(c) \/ ListAsks(c) PROVE AgreeNext
  <2>1. PICK call \in Calls : op' = [op EXCEPT ![c] = call] /\ SameCall(call, op[c])
    BY <1>8, GetAsksCall, ListAsksCall
  <2>2. ReadOnly /\ ~Writing(op[c]) /\ (UNCHANGED counters \/ Fault)
    BY <1>8 DEF GetAsks, ListAsks, NoAnswer, Writing
  <2> QED
    BY <1>6, <2>1, <2>2 DEF SameCall, Writing
<1>9. ASSUME NEW c \in Clients, ReadReturns(c) PROVE AgreeNext
  <2>1. /\ op' = [op EXCEPT ![c] = Idle] /\ ReadOnly /\ ~Writing(op[c])
        /\ UNCHANGED counters
    BY <1>9 DEF ReadReturns, Return, Writing
  <2> QED
    BY <1>3, <1>6, <2>1
<1>10. ASSUME op' = op, disk' = disk, faults' = faults,
              crashes' = 0 => crashes = 0 /\ (up = Nodes => up' = Nodes)
       PROVE  AgreeNext
  <2>1. \A c \in Clients : SameOrFresh(op'[c], op[c])
    BY <1>10 DEF SameOrFresh
  <2> QED
    BY <1>10, <2>1, QuietAgree
<1>11. ASSUME NEW n \in Nodes, NodeCrash(n) \/ NodeRestart(n) PROVE AgreeNext
  BY <1>1, <1>10, <1>11 DEF NodeCrash, NodeRestart, counters
<1>12. ASSUME UNCHANGED vars PROVE AgreeNext
  BY <1>10, <1>12 DEF vars, counters
<1>13. ~ArriveLate
  BY DEF ArriveLate
<1> QED
  BY <1>4, <1>5, <1>7, <1>8, <1>9, <1>11, <1>12, <1>13, SetAsksAgree, SetReturnsAgree
  DEF Next, ClientStep

(* The nodes of a key, which one client writes, agree on its fact: always    *)
(* when nobody changes it and no request failed, and after any failures and  *)
(* crashes from the first Set or Delete on that both answer                 *)
(* (replication.go:37-49, 66-78), until a request arrives after its client   *)
(* gave up.                                                                 *)
THEOREM NodesAgreeHolds ==
  ASSUME SoleWriter
  PROVE  Spec => []NodesAgree
<1>1. Init => TypeInv /\ AgreeInv
  BY InitTypeInv, InitAgreeInv
<1>2. (TypeInv /\ AgreeInv) /\ [Next]_vars => (TypeInv /\ AgreeInv)'
  BY NextTypeInv, NextAgreeInv DEF TypeInv
<1>3. TypeInv /\ AgreeInv => NodesAgree
  BY DEF AgreeInv, Wrote, Writing, NodesAgree
<1> QED
  BY <1>1, <1>2, <1>3, PTL DEF Spec
=============================================================================
