------------------------------ MODULE KVStore ------------------------------
(***************************************************************************)
(* What a Store promises (store/kv.go): a call takes effect at one moment  *)
(* between its beginning and its end.  MemoryStore does, with every method *)
(* under its lock, and ReplicatedStore should (module AtomicStore).         *)
(*                                                                          *)
(* A read may return what its key held at any moment of the call; List is   *)
(* not asked for one moment that is the same for all keys.                  *)
(***************************************************************************)
EXTENDS Integers

CONSTANTS
  Keys,      \* the fact keys
  Clients,   \* the goroutines that call the store
  Vals       \* the facts that are set

NoVal == 0   \* no fact: not one of Vals

VARIABLES
  data,      \* MemoryStore.data: the fact under each key, or NoVal
  calls,     \* the call every client is in
  held       \* what every key has held since a client began its read

vars == <<data, calls, held>>

Nothing == [k \in Keys |-> NoVal]

(* result: the fact found under every key.                                  *)
Idle == [kind |-> "idle"]
Call(kind, k, v) ==
  [kind |-> kind, key |-> k, val |-> v, done |-> FALSE, result |-> Nothing]

Reading(call) == call.kind \in {"get", "list"}
Pending(c)    == calls[c] # Idle /\ ~calls[c].done

Init ==
  /\ data = Nothing
  /\ calls = [c \in Clients |-> Idle]
  /\ held = [c \in Clients |-> [k \in Keys |-> {}]]

(* Faulty variant: what earlier reads saw is remembered, as in a cache.     *)
Witness_Cached ==
  held' = [c \in Clients |-> [k \in Keys |->
             IF Reading(calls'[c]) THEN held[c][k] \cup {data'[k]} ELSE held[c][k]]]

(* The readers see what the keys hold now.                                  *)
Witness ==
  held' = [c \in Clients |-> [k \in Keys |->
             IF Reading(calls'[c]) THEN held[c][k] \cup {data'[k]} ELSE {}]]

Begins(c, call) ==
  /\ calls[c] = Idle
  /\ calls' = [calls EXCEPT ![c] = call]
  /\ UNCHANGED data
  /\ Witness

Begin(c) ==
  \E k \in Keys :
    \/ \E v \in Vals : Begins(c, Call("set", k, v))
    \/ \E kind \in {"delete", "get", "list"} : Begins(c, Call(kind, k, NoVal))

(* Set and Delete.                                                          *)
Write(c) ==
  /\ Pending(c) /\ calls[c].kind \in {"set", "delete"}
  /\ data' = [data EXCEPT ![calls[c].key] = calls[c].val]
  /\ calls' = [calls EXCEPT ![c].done = TRUE]
  /\ Witness

Get(c) ==
  /\ Pending(c) /\ calls[c].kind = "get"
  /\ \E v \in held[c][calls[c].key] :
       calls' = [calls EXCEPT ![c].done = TRUE, ![c].result[calls[c].key] = v]
  /\ UNCHANGED data
  /\ Witness

List(c) ==
  /\ Pending(c) /\ calls[c].kind = "list"
  /\ \E r \in [Keys -> Vals \cup {NoVal}] :
       /\ \A k \in Keys : r[k] \in held[c][k]
       /\ calls' = [calls EXCEPT ![c].done = TRUE, ![c].result = r]
  /\ UNCHANGED data
  /\ Witness

Return(c) ==
  /\ calls[c] # Idle /\ calls[c].done
  /\ calls' = [calls EXCEPT ![c] = Idle]
  /\ UNCHANGED data
  /\ Witness

Next == \E c \in Clients : Begin(c) \/ Write(c) \/ Get(c) \/ List(c) \/ Return(c)

Spec == Init /\ [][Next]_vars
=============================================================================
