---------------------------- MODULE AtomicStore ----------------------------
(***************************************************************************)
(* ReplicatedStore implements KVStore until a request fails: two nodes     *)
(* that are written and read one after the other look like one.  Crashes   *)
(* and restarts between the requests do not count, the databases persist.  *)
(***************************************************************************)
EXTENDS ReplicatedStore

VARIABLES
  intact,   \* every request so far was answered, and no List met a Delete
  held      \* KVStore's held, while intact

hvars == <<vars, intact, held>>

(* A Set takes effect at the primary.  A Delete does at the replica: until   *)
(* then Get goes on to the replica's fact.                                   *)
Holds(k) == IF disk[Primary[k]][k] # NoFact THEN disk[Primary[k]][k].val
                                            ELSE disk[Replica[k]][k].val

Done(call) == IF call.kind = "set" THEN Primary[call.key] \notin call.todo
                                   ELSE call.todo = {}

Result(call) ==
  [k \in Keys |-> IF call.kind \in {"get", "list"} /\ Done(call)
                    THEN call.found[k].val ELSE 0]

AbstractCall(call) ==
  IF call = Idle THEN Idle
  ELSE [kind |-> call.kind, key |-> call.key, val |-> call.val,
        done |-> Done(call), result |-> Result(call)]

KV == INSTANCE KVStore WITH
        Vals  <- 1..MaxWrites,
        data  <- [k \in Keys |-> Holds(k)],
        calls <- [c \in Clients |-> AbstractCall(op[c])]

Unanswered(call) == call # Idle /\ (call.errs > 0 \/ call.missed)

(* A List that asks the replica of a key before a Set reaches it, and the    *)
(* primary after the Delete that follows, returns a fact that was            *)
(* overwritten before the List began.                                        *)
ListMeetsDelete(ops) ==
  \E c, d \in Clients : ops[c].kind = "list" /\ ops[d].kind = "delete"

HInit ==
  /\ Init
  /\ intact = TRUE
  /\ held = [c \in Clients |-> [k \in Keys |-> {}]]

HNext ==
  /\ Next
  /\ intact' = /\ intact
               /\ \A c \in Clients : ~Unanswered(op'[c])
               /\ ~ListMeetsDelete(op')
  /\ IF intact'
       THEN KV!Witness
       ELSE held' = [c \in Clients |-> [k \in Keys |-> {}]]

HSpec == HInit /\ [][HNext]_hvars

(* "ReplicatedStore implements Store" (replication.go:14): as long as every  *)
(* request is answered, a key has one writer, the nodes' clocks are less than *)
(* Gap apart and no List meets a Delete, each step of the replicated store is *)
(* a step of KVStore or changes nothing there: Gets never go back, and no     *)
(* read returns a fact before its Set takes effect or after the next call on  *)
(* its key has returned.                                                     *)
ImplementsKVStore ==
  KV!Init /\ [][intact' => [KV!Next]_(KV!vars)]_hvars
=============================================================================
