--------------------------- MODULE DashboardProofs ---------------------------
(***************************************************************************)
(* Proofs about the web page and the API server behind it, for any keys,   *)
(* any facts, any number of polls under way and any bounds.                *)
(***************************************************************************)
EXTENDS Dashboard, TLAPS

(* Facts of a key are numbered as they are set: <= is "not newer".         *)
NotNewer(a, b) == \A k \in Keys : a[k] <= b[k]

FetchSet == [at : {"none", "sent", "handled", "modelled", "answered", "failed"},
             facts : Contents, base : Contents, run : 0..stops, baseRun : 0..stops]

ListCalls == [kind : {"list"}, key : Keys, val : {NoVal}, done : BOOLEAN, result : Contents]
SetCalls  == [kind : {"set"}, key : Keys, val : Vals, done : BOOLEAN, result : Contents]

(* A handler lists, the consumer sets a fact newer than the stored one.    *)
CallsInv ==
  /\ calls \in [Clients -> {Idle} \cup ListCalls \cup SetCalls]
  /\ \A f \in Fetches : calls[f] # Idle => calls[f] \in ListCalls
  /\ calls[Consumer] # Idle => calls[Consumer] \in SetCalls
  /\ Pending(Consumer) => calls[Consumer].val > data[calls[Consumer].key]

(* What a handler may see under a key has been stored, and not after now.  *)
HeldInv ==
  /\ held \in [Clients -> [Keys -> SUBSET (Vals \cup {NoVal})]]
  /\ \A c \in Clients, k \in Keys : ~Reading(calls[c]) => held[c][k] = {}
  /\ \A c \in Clients, k \in Keys : \A v \in held[c][k] : v <= data[k]

(* Within one run of the API, the page is not newer than the store.        *)
PageInv ==
  /\ pageRun \in 0..stops
  /\ pageRun = stops => NotNewer(page, data)

(* What the page showed when a poll was sent is not newer than what the    *)
(* handler may see, than what it has listed and than what it answers.      *)
PollInv(f) ==
  /\ fetches[f].at # "modelled"
  /\ fetches[f].at \in {"sent", "handled"} /\ fetches[f].baseRun = stops =>
       NotNewer(fetches[f].base, data)
  /\ fetches[f].at = "handled" /\ fetches[f].baseRun = stops =>
       /\ \A k \in Keys : \A v \in held[f][k] : fetches[f].base[k] <= v
       /\ calls[f].done => NotNewer(fetches[f].base, calls[f].result)
  /\ fetches[f].at = "handled" /\ calls[f].done => NotNewer(calls[f].result, data)
  /\ fetches[f].at = "answered" =>
       /\ fetches[f].run >= fetches[f].baseRun
       /\ fetches[f].run = fetches[f].baseRun => NotNewer(fetches[f].base, fetches[f].facts)
       /\ fetches[f].run = stops => NotNewer(fetches[f].facts, data)

(* Only the last question is under way, and only while the panel waits.    *)
AskInv == \A f \in Asks : fetches[f].at # "none" => f = asked /\ loading

DInv ==
  /\ DTypeOK /\ CallsInv /\ HeldInv
  /\ PageInv /\ \A f \in Polls : PollInv(f)

-----------------------------------------------------------------------------

LEMMA DInvTypes ==
  ASSUME DInv
  PROVE  /\ data \in Contents /\ page \in Contents
         /\ fetches \in [Fetches -> FetchSet]
         /\ \A k \in Keys : data[k] \in Int /\ page[k] \in Int
         /\ Vals \cup {NoVal} \subseteq Nat
         /\ stops \in Nat /\ asked \in Nat
         /\ Fetches \subseteq Clients /\ Consumer \in Clients /\ Consumer \notin Fetches
<1>1. Vals \cup {NoVal} \subseteq Nat
  BY DashboardAssumption DEF NoVal
<1>2. /\ data \in Contents /\ page \in Contents /\ stops \in Nat /\ asked \in Nat
  BY DashboardAssumption DEF DInv, DTypeOK
<1>3. \A k \in Keys : data[k] \in Int /\ page[k] \in Int
  BY <1>1, <1>2 DEF Contents
<1>4. fetches \in [Fetches -> FetchSet]
  BY DEF DInv, DTypeOK, FetchSet
<1> QED
  BY <1>1, <1>2, <1>3, <1>4, DashboardAssumption

LEMMA DInvInit == DInit => DInv /\ AskInv
<1> SUFFICES ASSUME DInit PROVE DInv /\ AskInv
  OBVIOUS
<1> USE DashboardAssumption DEF DInit, Init, NoFetch
<1>1. Nothing \in Contents /\ NotNewer(Nothing, Nothing)
  BY DEF Nothing, Contents, NotNewer, NoVal
<1>2. DTypeOK
  BY <1>1 DEF DTypeOK, Fetches
<1>3. CallsInv
  BY DEF CallsInv, Pending, Fetches
<1>4. HeldInv
  BY DEF HeldInv
<1>5. PageInv /\ AskInv /\ \A f \in Polls : PollInv(f)
  BY <1>1 DEF PageInv, AskInv, PollInv, Fetches
<1> QED
  BY <1>2, <1>3, <1>4, <1>5 DEF DInv

(* A reader sees what its keys held before and what they hold now.         *)
LEMMA HeldInvStep ==
  ASSUME DInv, Witness, data' \in Contents, NotNewer(data, data')
  PROVE  HeldInv'
<1>1. \A k \in Keys : data'[k] \in Vals \cup {NoVal} /\ data'[k] \in Int /\ data[k] \in Int
                      /\ data[k] <= data'[k]
  BY DInvTypes DEF Contents, NotNewer
<1>2. ASSUME NEW c \in Clients, NEW k \in Keys
      PROVE  /\ held'[c][k] = IF Reading(calls'[c]) THEN held[c][k] \cup {data'[k]} ELSE {}
             /\ held'[c][k] \subseteq Vals \cup {NoVal}
             /\ \A v \in held'[c][k] : v <= data'[k]
  <2>1. held'[c][k] = IF Reading(calls'[c]) THEN held[c][k] \cup {data'[k]} ELSE {}
    BY DEF Witness
  <2>2. held[c][k] \subseteq Vals \cup {NoVal} /\ \A v \in held[c][k] : v <= data[k]
    BY DEF DInv, HeldInv
  <2>3. \A v \in Vals \cup {NoVal} : v \in Int
    BY DInvTypes
  <2> QED
    BY <1>1, <2>1, <2>2, <2>3
<1>3. held' \in [Clients -> [Keys -> SUBSET (Vals \cup {NoVal})]]
  BY <1>2 DEF Witness
<1> QED
  BY <1>2, <1>3 DEF HeldInv

(* Steps of others: facts are only added to the store.                     *)
LEMMA PollInvKept ==
  ASSUME DInv, NEW q \in Polls,
         fetches'[q] = fetches[q], calls'[q] = calls[q], stops' = stops,
         data' \in Contents, NotNewer(data, data'), Witness \/ UNCHANGED held
  PROVE  PollInv(q)'
<1> DEFINE f == fetches[q]
<1>1. f \in FetchSet /\ q \in Clients /\ q \in Fetches
  BY DInvTypes DEF Fetches
<1>2. \A k \in Keys : /\ data'[k] \in Int /\ data[k] \in Int /\ data[k] <= data'[k]
                      /\ f.base[k] \in Int /\ f.facts[k] \in Int
  BY <1>1, DInvTypes DEF Contents, NotNewer, FetchSet
<1>3. PollInv(q)
  BY DEF DInv
<1>4. ASSUME f.at \in {"sent", "handled"}, f.baseRun = stops
      PROVE  NotNewer(f.base, data')
  BY <1>2, <1>3, <1>4 DEF PollInv, NotNewer
<1>5. ASSUME f.at = "handled", f.baseRun = stops, NEW k \in Keys, NEW v \in held'[q][k]
      PROVE  f.base[k] <= v
  <2>1. v \in held[q][k] \/ v = data'[k]
    BY <1>1, <1>5 DEF Witness
  <2> QED
    BY <1>3, <1>4, <1>5, <2>1 DEF PollInv, NotNewer
<1>6. ASSUME f.at = "handled", calls[q].done
      PROVE  NotNewer(calls[q].result, data')
  <2>1. calls[q] \in ListCalls
    BY <1>1, <1>6 DEF DInv, DTypeOK, CallsInv
  <2>2. \A k \in Keys : calls[q].result[k] \in Int
    BY <2>1, DInvTypes DEF ListCalls, Contents
  <2> QED
    BY <1>2, <1>3, <1>6, <2>2 DEF PollInv, NotNewer
<1>7. ASSUME f.at = "answered", f.run = stops
      PROVE  NotNewer(f.facts, data')
  BY <1>2, <1>3, <1>7 DEF PollInv, NotNewer
<1> QED
  BY <1>3, <1>4, <1>5, <1>6, <1>7 DEF PollInv

(* The consumer only stores facts newer than the ones that are there.      *)
LEMMA ConsumeStep ==
  ASSUME DInv, Consume
  PROVE  DInv'
<1>0. /\ CallsInv /\ DTypeOK /\ PageInv
      /\ calls \in [Clients -> {Idle} \cup ListCalls \cup SetCalls]
      /\ Consumer \in Clients /\ Consumer \notin Fetches /\ Fetches \subseteq Clients
      /\ data \in Contents /\ \A k \in Keys : data[k] \in Int
  BY DInvTypes DEF DInv, CallsInv
<1> USE DEF pageVars, counters
<1>1. UNCHANGED <<apiUp, fetches, page, loading, answer, asked, pageRun, faults, stops>> /\ Witness
  BY DEF Consume, Begins, Write, Return
<1> DEFINE Stored ==
      /\ calls' \in [Clients -> {Idle} \cup ListCalls \cup SetCalls]
      /\ calls'[Consumer] # Idle => calls'[Consumer] \in SetCalls
      /\ ~calls'[Consumer].done /\ calls'[Consumer] # Idle =>
           calls'[Consumer].val > data'[calls'[Consumer].key]
      /\ \A c \in Clients : c # Consumer => calls'[c] = calls[c]
      /\ data' \in Contents /\ NotNewer(data, data')
<1>2. Stored
  <2>1. ASSUME NEW k \in Keys, NEW v \in Vals, v > data[k], Begins(Consumer, Call("set", k, v))
        PROVE  Stored
    <3> DEFINE call == Call("set", k, v)
    <3>1. Nothing \in Contents
      BY DEF Nothing, Contents
    <3>2. call \in SetCalls /\ call.val = v /\ call.key = k
      BY <3>1 DEF Call, SetCalls
    <3> HIDE DEF call
    <3>3. calls' = [calls EXCEPT ![Consumer] = call] /\ data' = data
      BY <2>1 DEF Begins, call
    <3>4. NotNewer(data, data')
      BY <1>0, <3>3 DEF NotNewer
    <3> QED
      BY <1>0, <2>1, <3>2, <3>3, <3>4
  <2>2. CASE Write(Consumer)
    <3> DEFINE call == calls[Consumer]
    <3>1. call \in SetCalls /\ call.val > data[call.key]
      BY <2>2 DEF Write, Pending, DInv, CallsInv
    <3>2. [call EXCEPT !.done = TRUE] \in SetCalls /\ [call EXCEPT !.done = TRUE].done
      BY <3>1 DEF SetCalls
    <3>3. call.key \in Keys /\ call.val \in Vals /\ call.val \in Int
      BY <3>1, DInvTypes DEF SetCalls
    <3>4. data' = [data EXCEPT ![call.key] = call.val]
          /\ calls' = [calls EXCEPT ![Consumer] = [call EXCEPT !.done = TRUE]]
      BY <2>2 DEF Write
    <3> HIDE DEF call
    <3>5. data' \in Contents /\ NotNewer(data, data')
      BY <1>0, <3>1, <3>3, <3>4 DEF Contents, NotNewer
    <3> QED
      BY <1>0, <3>2, <3>4, <3>5
  <2>3. CASE Return(Consumer)
    <3>1. calls' = [calls EXCEPT ![Consumer] = Idle] /\ data' = data
      BY <2>3 DEF Return
    <3> QED
      BY <1>0, <3>1 DEF NotNewer
  <2> QED
    BY <2>1, <2>2, <2>3 DEF Consume
<1>3. CallsInv'
  BY <1>0, <1>2 DEF CallsInv, Pending
<1>4. HeldInv'
  BY <1>1, <1>2, HeldInvStep
<1>5. DTypeOK'
  BY <1>0, <1>1, <1>2 DEF DTypeOK
<1>6. PageInv'
  <2>1. \A k \in Keys : page[k] \in Int /\ data[k] \in Int /\ data'[k] \in Int
    BY <1>2, DInvTypes DEF Contents
  <2> QED
    BY <1>0, <1>1, <1>2, <2>1 DEF PageInv, NotNewer
<1>7. ASSUME NEW q \in Polls PROVE PollInv(q)'
  <2>1. q \in Clients /\ q # Consumer
    BY <1>0 DEF Fetches
  <2> QED
    BY <1>1, <1>2, <2>1, PollInvKept
<1> QED
  BY <1>3, <1>4, <1>5, <1>6, <1>7 DEF DInv

(* A handler gets from Begins to Return: the facts of its list are none    *)
(* that it cannot have seen.                                               *)
LEMMA HandlerStep ==
  ASSUME DInv, NEW f \in Fetches, HandlerLists(f) \/ HandlerResponds(f)
  PROVE  DInv'
<1>0. /\ CallsInv /\ DTypeOK /\ PageInv /\ HeldInv
      /\ calls \in [Clients -> {Idle} \cup ListCalls \cup SetCalls]
      /\ f \in Clients /\ f # Consumer /\ Consumer \in Clients /\ Fetches \subseteq Clients
      /\ data \in Contents /\ fetches \in [Fetches -> FetchSet]
      /\ \A k \in Keys : data[k] \in Int
      /\ Polls \subseteq Fetches
      /\ stops \in Nat
  BY DInvTypes DEF DInv, CallsInv, Fetches
<1> USE DEF pageVars, counters
<1>1. /\ UNCHANGED <<apiUp, page, loading, answer, asked, pageRun, faults, stops, data>>
      /\ Witness
  BY DEF HandlerLists, HandlerResponds, Begins, List, Return
<1>2. NotNewer(data, data') /\ data' \in Contents
  BY <1>0, <1>1 DEF NotNewer
<1> DEFINE Handled(call, g) ==
      /\ calls' = [calls EXCEPT ![f] = call] /\ (call = Idle \/ call \in ListCalls)
      /\ fetches' = [fetches EXCEPT ![f] = g] /\ g \in FetchSet
      /\ g.at = "handled" <=> call # Idle
      /\ f \in Polls => PollInv(f)'
<1>3. \E call, g : Handled(call, g)
  <2>0. /\ f \in Polls => PollInv(f)
        /\ fetches[f] \in FetchSet
    BY <1>0 DEF DInv
  <2>1. CASE /\ fetches[f].at = "sent"
             /\ \E k \in Keys : Begins(f, Call("list", k, NoVal))
             /\ fetches' = [fetches EXCEPT ![f].at = "handled"]
    <3>1. PICK k \in Keys : Begins(f, Call("list", k, NoVal))
      BY <2>1
    <3> DEFINE call == Call("list", k, NoVal)
    <3> DEFINE g == [fetches[f] EXCEPT !.at = "handled"]
    <3>2. call \in ListCalls /\ call # Idle /\ ~call.done /\ call.kind = "list"
      <4>1. Nothing \in Contents
        BY DEF Nothing, Contents
      <4> QED
        BY <4>1 DEF Call, ListCalls, Idle
    <3>3. g \in FetchSet /\ g.at = "handled" /\ g.base = fetches[f].base /\ g.baseRun = fetches[f].baseRun
      BY <2>0 DEF FetchSet
    <3>4. calls[f] = Idle /\ calls' = [calls EXCEPT ![f] = call]
      BY <3>1 DEF Begins
    <3>5. fetches' = [fetches EXCEPT ![f] = g]
      BY <2>1
    <3> HIDE DEF call, g
    <3>6. ASSUME f \in Polls PROVE PollInv(f)'
      <4>1. ASSUME NEW j \in Keys, NEW v \in held'[f][j] PROVE v = data[j]
        <5>1. ~Reading(calls[f])
          BY <3>4 DEF Reading, Idle
        <5>2. held[f][j] = {}
          BY <1>0, <5>1 DEF HeldInv
        <5>3. v \in held[f][j] \cup {data'[j]}
          BY <1>0, <1>1, <4>1 DEF Witness
        <5> QED
          BY <1>1, <5>2, <5>3
      <4>2. calls'[f] = call /\ fetches'[f] = g /\ data' = data /\ stops' = stops
        BY <1>0, <1>1, <3>4, <3>5
      <4>3. fetches[f].baseRun = stops => NotNewer(fetches[f].base, data)
        BY <2>0, <2>1, <3>6 DEF PollInv
      <4> QED
        BY <3>2, <3>3, <4>1, <4>2, <4>3 DEF PollInv, NotNewer
    <3> QED
      BY <3>2, <3>3, <3>4, <3>5, <3>6
  <2>2. CASE List(f) /\ UNCHANGED fetches
    <3>1. PICK r \in [Keys -> Vals \cup {NoVal}] :
            /\ \A k \in Keys : r[k] \in held[f][k]
            /\ calls' = [calls EXCEPT ![f].done = TRUE, ![f].result = r]
      BY <2>2 DEF List
    <3>2. calls[f] \in ListCalls /\ calls[f] # Idle
      BY <2>2, <1>0 DEF List, Pending, CallsInv
    <3> DEFINE call == [calls[f] EXCEPT !.done = TRUE, !.result = r]
    <3>3. call \in ListCalls /\ call # Idle /\ call.result = r
      BY <3>1, <3>2 DEF ListCalls, Contents, Idle
    <3>4. calls' = [calls EXCEPT ![f] = call]
      BY <1>0, <3>1
    <3> HIDE DEF call
    <3>5. fetches[f].at = "handled"
      BY <1>0, <3>2 DEF DTypeOK
    <3>6. ASSUME f \in Polls PROVE PollInv(f)'
      <4>1. calls'[f] = call /\ fetches'[f] = fetches[f] /\ data' = data /\ stops' = stops
        BY <1>0, <1>1, <2>2, <3>4
      <4>2. NotNewer(r, data)
        BY <1>0, <3>1 DEF HeldInv, NotNewer
      <4>3. fetches[f].baseRun = stops => NotNewer(fetches[f].base, r)
        BY <2>0, <3>1, <3>5, <3>6 DEF PollInv, NotNewer
      <4>4. fetches[f].baseRun = stops => NotNewer(fetches[f].base, data)
        BY <2>0, <3>5, <3>6 DEF PollInv
      <4>5. ASSUME fetches[f].baseRun = stops, NEW k \in Keys, NEW v \in held'[f][k]
            PROVE  fetches[f].base[k] <= v
        <5>1. v \in held[f][k] \/ v = data[k]
          BY <1>0, <1>1, <4>5 DEF Witness
        <5> QED
          BY <2>0, <3>5, <3>6, <4>4, <4>5, <5>1 DEF PollInv, NotNewer
      <4> QED
        BY <3>3, <3>5, <4>1, <4>2, <4>3, <4>4, <4>5 DEF PollInv
    <3> QED
      BY <1>0, <2>0, <2>2, <3>3, <3>4, <3>5, <3>6
  <2>3. CASE HandlerResponds(f)
    <3> DEFINE g == [fetches[f] EXCEPT !.at = IF f \in Asks THEN "modelled" ELSE "answered",
                                       !.facts = calls[f].result, !.run = stops]
    <3>1. calls[f] \in ListCalls /\ calls[f].done /\ calls[f] # Idle
      BY <1>0, <2>3 DEF HandlerResponds, Return, CallsInv
    <3> DEFINE answered == IF f \in Asks THEN "modelled" ELSE "answered"
    <3>a. /\ answered \in {"modelled", "answered"}
          /\ stops \in 0..stops /\ calls[f].result \in Contents
      BY <1>0, <3>1 DEF ListCalls
    <3>2. /\ g \in FetchSet /\ g.at = (IF f \in Asks THEN "modelled" ELSE "answered")
          /\ g.facts = calls[f].result /\ g.run = stops
          /\ g.base = fetches[f].base /\ g.baseRun = fetches[f].baseRun
      BY <2>0, <3>a DEF FetchSet
    <3>3. calls' = [calls EXCEPT ![f] = Idle]
      BY <2>3 DEF HandlerResponds, Return
    <3>4. fetches' = [fetches EXCEPT ![f] = g]
      BY <1>0, <2>3 DEF HandlerResponds
    <3> HIDE DEF g
    <3>5. ASSUME f \in Polls PROVE PollInv(f)'
      <4>1. f \notin Asks
        BY <3>5, DashboardAssumption
      <4>2. /\ calls'[f] = Idle /\ fetches'[f] = g /\ data' = data /\ stops' = stops
            /\ g.at = "answered"
        BY <1>0, <1>1, <3>2, <3>3, <3>4, <4>1
      <4>3. fetches[f].at = "handled"
        BY <1>0, <3>1 DEF DTypeOK
      <4>4. NotNewer(calls[f].result, data)
        BY <2>0, <3>1, <3>5, <4>3 DEF PollInv
      <4>5. fetches[f].baseRun = stops => NotNewer(fetches[f].base, calls[f].result)
        BY <2>0, <3>1, <3>5, <4>3 DEF PollInv
      <4>6. fetches[f].baseRun \in 0..stops
        BY <2>0 DEF FetchSet
      <4> QED
        BY <1>0, <3>2, <4>2, <4>4, <4>5, <4>6 DEF PollInv
    <3> QED
      BY <3>2, <3>3, <3>4, <3>5
  <2> QED
    BY <2>1, <2>2, <2>3 DEF HandlerLists
<1>4. PICK call, g : Handled(call, g)
  BY <1>3
<1>5. CallsInv'
  BY <1>0, <1>1, <1>4 DEF CallsInv, Pending
<1>6. HeldInv'
  BY <1>1, <1>2, HeldInvStep
<1>7. DTypeOK'
  <2>1. fetches' \in [Fetches -> FetchSet]
    BY <1>0, <1>4
  <2>2. \A q \in Fetches : fetches'[q].at = "handled" <=> calls'[q] # Idle
    BY <1>0, <1>4 DEF DTypeOK
  <2> QED
    BY <1>0, <1>1, <2>1, <2>2 DEF DTypeOK, FetchSet
<1>8. PageInv'
  BY <1>0, <1>1 DEF PageInv
<1>9. ASSUME NEW q \in Polls PROVE PollInv(q)'
  <2>1. CASE q # f
    <3>1. fetches'[q] = fetches[q] /\ calls'[q] = calls[q]
      BY <1>0, <1>4, <2>1
    <3> QED
      BY <1>1, <1>2, <3>1, PollInvKept
  <2> QED
    BY <1>4, <2>1
<1> QED
  BY <1>5, <1>6, <1>7, <1>8, <1>9 DEF DInv

(* Whatever changes about one fetch outside the API process.               *)
LEMMA PageStep ==
  ASSUME DInv, NEW f \in Fetches, NEW g \in FetchSet,
         fetches' = [fetches EXCEPT ![f] = g],
         g.at # "handled", fetches[f].at # "handled",
         UNCHANGED <<vars, stops>>, page' \in Contents,
         faults' \in 0..MaxFaults, asked' \in 0..MaxAsks, answer' \in 0..asked',
         PageInv', f \in Polls => PollInv(f)'
  PROVE  DInv'
<1>0. /\ CallsInv /\ DTypeOK /\ HeldInv
      /\ fetches \in [Fetches -> FetchSet] /\ data \in Contents
      /\ \A k \in Keys : data[k] \in Int
      /\ Polls \subseteq Fetches
  BY DInvTypes DEF DInv, Fetches
<1>1. CallsInv' /\ HeldInv'
  BY <1>0 DEF CallsInv, HeldInv, Pending, vars
<1>2. DTypeOK'
  <2>1. fetches' \in [Fetches -> FetchSet]
    BY <1>0
  <2>2. \A q \in Fetches : fetches'[q].at = "handled" <=> calls'[q] # Idle
    BY <1>0 DEF DTypeOK, vars
  <2> QED
    BY <1>0, <2>1, <2>2 DEF DTypeOK, FetchSet, vars
<1>3. ASSUME NEW q \in Polls PROVE PollInv(q)'
  <2>1. CASE q # f
    <3>1. fetches'[q] = fetches[q] /\ calls'[q] = calls[q] /\ data' = data
      BY <1>0, <2>1 DEF vars
    <3>2. NotNewer(data, data') /\ UNCHANGED held
      BY <1>0, <3>1 DEF NotNewer, vars
    <3> QED
      BY <1>0, <3>1, <3>2, PollInvKept
  <2> QED
    BY <2>1
<1> QED
  BY <1>1, <1>2, <1>3 DEF DInv

LEMMA EmptyFetches ==
  ASSUME NEW n \in Nat
  PROVE  /\ Failed.at = "failed" /\ NoFetch.at = "none"
         /\ {Failed, NoFetch} \subseteq
              [at : {"none", "sent", "handled", "modelled", "answered", "failed"},
               facts : Contents, base : Contents, run : 0..n, baseRun : 0..n]
<1>1. Nothing \in Contents
  BY DEF Nothing, Contents
<1> QED
  BY <1>1 DEF Failed, NoFetch

(* The page, the model and the network change one fetch at a time.         *)
LEMMA FetchStep ==
  ASSUME DInv, NEW f \in Fetches,
         \/ ModelAnswers(f) \/ RequestFails(f)
         \/ f \in Polls /\ (PollSends(f) \/ PollEnds(f))
         \/ f \in Asks /\ AskInv /\ (Ask(f) \/ AskEnds(f))
  PROVE  DInv'
<1>0. /\ DTypeOK /\ PageInv /\ fetches[f] \in FetchSet /\ fetches \in [Fetches -> FetchSet]
      /\ data \in Contents /\ page \in Contents
      /\ stops \in Nat /\ Failed \in FetchSet /\ NoFetch \in FetchSet
      /\ Failed.at = "failed" /\ NoFetch.at = "none"
  BY DInvTypes, EmptyFetches DEF DInv, FetchSet
<1>1. /\ page \in Contents /\ faults \in 0..MaxFaults
      /\ asked \in 0..MaxAsks /\ answer \in 0..asked
  BY <1>0 DEF DTypeOK
<1> USE DEF pageVars, counters
<1>2. CASE ModelAnswers(f)
  <2>1. PICK g \in {[fetches[f] EXCEPT !.at = "answered"], Failed} :
          fetches' = [fetches EXCEPT ![f] = g]
    BY <1>2 DEF ModelAnswers
  <2>2. g \in FetchSet /\ g.at \in {"answered", "failed"}
    BY <1>0, <2>1 DEF FetchSet
  <2>3. f \notin Polls
    BY <1>2 DEF ModelAnswers, DInv, PollInv
  <2> QED
    BY <1>0, <1>1, <1>2, <2>1, <2>2, <2>3, PageStep DEF ModelAnswers, PageInv, vars
<1>3. CASE RequestFails(f)
  <2>1. PollInv(f)' /\ fetches' = [fetches EXCEPT ![f] = Failed]
    BY <1>0, <1>3 DEF RequestFails, PollInv
  <2>2. faults' \in 0..MaxFaults
    BY <1>1, <1>3, DashboardAssumption DEF RequestFails
  <2> QED
    BY <1>0, <1>1, <1>3, <2>1, <2>2, PageStep DEF RequestFails, PageInv, vars
<1>4. CASE f \in Polls /\ PollSends(f)
  <2> DEFINE g == Fetch
  <2>1. g \in FetchSet /\ g.at = "sent" /\ g.base = page /\ g.baseRun = pageRun
    BY <1>0 DEF Fetch, FetchSet, NoFetch, PageInv
  <2>2. fetches' = [fetches EXCEPT ![f] = g] /\ UNCHANGED <<vars, page, pageRun, stops>>
    BY <1>4 DEF PollSends
  <2> HIDE DEF g
  <2>3. fetches'[f] = g /\ data' = data /\ stops' = stops
    BY <1>0, <2>2 DEF vars
  <2>4. PollInv(f)' /\ PageInv'
    BY <1>0, <2>1, <2>2, <2>3 DEF PollInv, PageInv
  <2> QED
    BY <1>1, <1>4, <2>1, <2>2, <2>4, PageStep DEF PollSends
<1>5. CASE f \in Polls /\ PollEnds(f)
  <2>1. fetches' = [fetches EXCEPT ![f] = NoFetch] /\ UNCHANGED <<vars, stops>>
    BY <1>5 DEF PollEnds
  <2>2. PollInv(f)'
    BY <1>0, <2>1 DEF PollInv
  <2>3. PageInv' /\ page' \in Contents
    <3>1. CASE fetches[f].at = "answered"
      <4>1. fetches[f].run = stops => NotNewer(fetches[f].facts, data)
        BY <1>5, <3>1 DEF DInv, PollInv
      <4>2. page' = fetches[f].facts /\ pageRun' = fetches[f].run /\ data' = data /\ stops' = stops
        BY <1>5, <3>1 DEF PollEnds, vars
      <4> QED
        BY <1>0, <4>1, <4>2 DEF PageInv, FetchSet
    <3>2. CASE fetches[f].at # "answered"
      BY <1>0, <1>5, <3>2 DEF PollEnds, PageInv, vars
    <3> QED
      BY <3>1, <3>2
  <2> QED
    BY <1>0, <1>1, <1>5, <2>1, <2>2, <2>3, PageStep DEF PollEnds
<1>6. CASE f \in Asks /\ AskInv /\ (Ask(f) \/ AskEnds(f))
  <2>1. f \notin Polls
    BY <1>6, DashboardAssumption
  <2>2. CASE Ask(f)
    <3>1. fetches[f].at = "none"
      BY <1>6, <2>2 DEF Ask, AskInv
    <3>2. [fetches[f] EXCEPT !.at = "sent"] \in FetchSet /\ [fetches[f] EXCEPT !.at = "sent"].at = "sent"
      BY <1>0 DEF FetchSet
    <3>3. asked' \in 0..MaxAsks /\ answer' \in 0..asked'
      BY <1>1, <1>6, <2>2, DashboardAssumption DEF Ask, Asks
    <3> QED
      BY <1>0, <1>1, <2>1, <2>2, <3>1, <3>2, <3>3, PageStep DEF Ask, PageInv, vars
  <2>3. CASE AskEnds(f)
    <3>1. answer' \in 0..asked
      <4>1. fetches[f].at # "none"
        BY <2>3 DEF AskEnds
      <4> QED
        BY <1>1, <1>6, <2>3, <4>1, DashboardAssumption DEF AskEnds, AskInv, Asks
    <3> QED
      BY <1>0, <1>1, <2>1, <2>3, <3>1, PageStep DEF AskEnds, PageInv, vars
  <2> QED
    BY <1>6, <2>2, <2>3
<1> QED
  BY <1>2, <1>3, <1>4, <1>5, <1>6

(* The store is empty in the next run, but whatever is on the page or on   *)
(* its way comes from an earlier one.                                      *)
LEMMA ApiStep ==
  ASSUME DInv, ApiEnds \/ ApiStarts
  PROVE  DInv'
<1>0. /\ DTypeOK /\ PageInv /\ fetches \in [Fetches -> FetchSet]
      /\ data \in Contents /\ stops \in Nat /\ Polls \subseteq Fetches /\ Fetches \subseteq Clients
  BY DInvTypes DEF DInv, Fetches
<1>1. CASE ApiStarts
  <2>1. UNCHANGED <<vars, fetches, pageVars, counters>>
    BY <1>1 DEF ApiStarts
  <2>2. DTypeOK' /\ CallsInv' /\ HeldInv' /\ PageInv'
    BY <2>1 DEF DInv, DTypeOK, CallsInv, HeldInv, PageInv, Pending, vars, pageVars, counters
  <2>3. ASSUME NEW q \in Polls PROVE PollInv(q)'
    <3>1. NotNewer(data, data) /\ data' = data
      BY <2>1, DInvTypes DEF NotNewer, vars
    <3> QED
      BY <1>0, <2>1, <3>1, PollInvKept DEF vars, counters
  <2> QED
    BY <2>2, <2>3 DEF DInv
<1>2. CASE ApiEnds
  <2>1. /\ stops' = stops + 1 /\ stops' \in 0..MaxStops
        /\ data' = Nothing /\ calls' = [c \in Clients |-> Idle] /\ Witness
        /\ UNCHANGED <<pageVars, faults>>
    BY <1>0, <1>2, DashboardAssumption DEF ApiEnds, DTypeOK
  <2>2. data' \in Contents
    BY <2>1 DEF Nothing, Contents
  <2>3. /\ Failed \in FetchSet' /\ Failed.at = "failed" /\ FetchSet \subseteq FetchSet'
    BY <1>0, <2>1, EmptyFetches DEF FetchSet
  <2>4. ASSUME NEW f \in Fetches
        PROVE  /\ fetches'[f] \in FetchSet'
               /\ fetches'[f].at \notin {"handled", "modelled"}
               /\ fetches'[f] = Failed \/ fetches'[f] = fetches[f]
    BY <1>0, <1>2, <2>3 DEF ApiEnds
  <2>5. fetches' \in [Fetches -> FetchSet']
    BY <1>2, <2>4 DEF ApiEnds
  <2>6. DTypeOK'
    BY <1>0, <2>1, <2>2, <2>4, <2>5 DEF DTypeOK, FetchSet, pageVars
  <2>7. CallsInv'
    BY <1>0, <2>1, DashboardAssumption DEF CallsInv, Pending, Idle
  <2>8. HeldInv'
    <3>1. \A c \in Clients : ~Reading(calls'[c])
      BY <2>1 DEF Reading, Idle
    <3> QED
      BY <2>1, <3>1 DEF HeldInv, Witness
  <2>9. PageInv'
    BY <1>0, <2>1 DEF PageInv, pageVars
  <2>10. ASSUME NEW f \in Polls PROVE PollInv(f)'
    <3>1. CASE fetches'[f] = Failed
      BY <2>3, <3>1 DEF PollInv
    <3>2. CASE fetches'[f] = fetches[f]
      <4>1. PollInv(f) /\ fetches[f] \in FetchSet
        BY <1>0 DEF DInv
      <4>2. fetches[f].run \in 0..stops /\ fetches[f].baseRun \in 0..stops
        BY <4>1 DEF FetchSet
      <4> QED
        BY <1>0, <2>1, <2>4, <3>2, <4>1, <4>2 DEF PollInv
    <3> QED
      BY <1>0, <2>4, <3>1, <3>2
  <2> QED
    BY <2>6, <2>7, <2>8, <2>9, <2>10 DEF DInv
<1> QED
  BY <1>1, <1>2

(* The panel asks one question at a time and waits for the last one only.  *)
LEMMA AskInvStep ==
  ASSUME DInv, AskInv, AnswerIsForLastAsk, [DNext]_dvars
  PROVE  AskInv' /\ AnswerIsForLastAsk'
<1>0. /\ fetches \in [Fetches -> FetchSet]
      /\ Asks \subseteq Fetches /\ Polls \subseteq Fetches /\ Polls \cap Asks = {}
      /\ asked \in Nat
  BY DInvTypes, DashboardAssumption DEF Fetches
<1> USE DEF AskInv, AnswerIsForLastAsk, pageVars, counters
<1>1. ASSUME NEW f \in Fetches,
             \/ HandlerLists(f) \/ HandlerResponds(f) \/ ModelAnswers(f) \/ RequestFails(f)
             \/ f \in Polls /\ (PollSends(f) \/ PollEnds(f))
      PROVE  AskInv' /\ AnswerIsForLastAsk'
  <2>1. UNCHANGED <<loading, asked, answer>>
    BY <1>1 DEF HandlerLists, HandlerResponds, ModelAnswers, RequestFails, PollSends, PollEnds
  <2>2. \A g \in Asks : g # f => fetches'[g] = fetches[g]
    BY <1>0, <1>1
       DEF HandlerLists, HandlerResponds, ModelAnswers, RequestFails, PollSends, PollEnds
  <2>3. f \in Asks => fetches[f].at # "none"
    <3>1. calls[f] # Idle => fetches[f].at = "handled"
      BY DEF DInv, DTypeOK
    <3> QED
      BY <1>0, <1>1, <3>1
         DEF HandlerLists, HandlerResponds, ModelAnswers, RequestFails, List, Pending
  <2> QED
    BY <2>1, <2>2, <2>3
<1>2. ASSUME NEW f \in Asks, Ask(f) PROVE AskInv' /\ AnswerIsForLastAsk'
  BY <1>0, <1>2 DEF Ask
<1>3. ASSUME NEW f \in Asks, AskEnds(f) PROVE AskInv' /\ AnswerIsForLastAsk'
  BY <1>0, <1>3, EmptyFetches DEF AskEnds
<1>4. CASE Consume \/ ApiStarts \/ UNCHANGED dvars
  BY <1>4 DEF Consume, ApiStarts, dvars
<1>5. CASE ApiEnds
  BY <1>0, <1>5 DEF ApiEnds
<1> QED
  BY <1>0, <1>1, <1>2, <1>3, <1>4, <1>5 DEF DNext, Respond

LEMMA DInvStep ==
  ASSUME DInv, AskInv, [DNext]_dvars
  PROVE  DInv'
<1>1. CASE UNCHANGED dvars
  <2>1. ASSUME NEW q \in Polls PROVE PollInv(q)'
    BY <1>1 DEF DInv, PollInv, dvars, vars, counters
  <2> QED
    BY <1>1, <2>1
       DEF DInv, DTypeOK, CallsInv, HeldInv, PageInv, Pending, dvars, vars, pageVars, counters
<1>2. Polls \subseteq Fetches /\ Asks \subseteq Fetches
  BY DEF Fetches
<1> QED
  BY <1>1, <1>2, ConsumeStep, HandlerStep, FetchStep, ApiStep DEF DNext, Respond

LEMMA DashboardInvariant == DSpec => [](DInv /\ AskInv /\ AnswerIsForLastAsk)
<1>1. DInit => AnswerIsForLastAsk
  BY DEF DInit, AnswerIsForLastAsk
<1> QED
  BY <1>1, DInvInit, DInvStep, AskInvStep, PTL DEF DSpec

-----------------------------------------------------------------------------

(* The requests of the page and the calls of the API server have the types *)
(* of DTypeOK in every reachable state, and a handler is in a store call   *)
(* exactly while its request is "handled", though the API ends and starts. *)
THEOREM DTypeCorrect == DSpec => []DTypeOK
BY DashboardInvariant, PTL DEF DInv

(* For any number of overlapping polls: the facts a poll gets are not      *)
(* older than the ones on the page when it was sent, within one run of the *)
(* API (page.tsx:29-46, server.go).                                        *)
THEOREM ResponsesLookForwardHolds == DSpec => []ResponsesLookForward
<1>1. DInv => ResponsesLookForward
  <2> SUFFICES ASSUME DInv, NEW f \in Polls, fetches[f].at = "answered"
               PROVE  \/ fetches[f].run > fetches[f].baseRun
                      \/ /\ fetches[f].run = fetches[f].baseRun
                         /\ \A k \in Keys : fetches[f].facts[k] >= fetches[f].base[k]
    BY DEF ResponsesLookForward
  <2>1. PollInv(f) /\ fetches[f] \in FetchSet
    BY DInvTypes DEF DInv, Fetches
  <2>2. \A k \in Keys : fetches[f].facts[k] \in Int /\ fetches[f].base[k] \in Int
    <3>1. fetches[f].facts \in Contents /\ fetches[f].base \in Contents
      BY <2>1 DEF FetchSet
    <3>2. \A v \in Vals \cup {NoVal} : v \in Int
      BY DInvTypes
    <3> QED
      BY <3>1, <3>2 DEF Contents
  <2>3. fetches[f].run \in Int /\ fetches[f].baseRun \in Int
    BY <2>1, DInvTypes DEF FetchSet
  <2> QED
    BY <2>1, <2>2, <2>3 DEF PollInv, NotNewer
<1> QED
  BY <1>1, DashboardInvariant, PTL

(* An answer on the page is the one to the last question, for any number   *)
(* of questions and whatever is lost (page.tsx:161-188).                   *)
THEOREM AnswerIsForLastAskHolds == DSpec => []AnswerIsForLastAsk
BY DashboardInvariant, PTL
=============================================================================
