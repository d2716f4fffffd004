# Mini Company Brain: specification and proofs

TLA+ models of the company brain (Go, with Redis Streams, a Redis lease and a
small replicated key-value store), the TLC runs that check them and the TLAPS
proofs of the results that matter most. Paths such as `queue/streams.go:69`
are relative to the root of the repository.

## 1. The system

    ingestion workers --Publish--> Redis Stream --Consume--> API process
                                                              |  store.Consumer
    coordinators --lease in Redis--> one leader               v
       leader: drift detector --List / Set--> ReplicatedStore --HTTP--> 3 store nodes
    dashboard --polls, asks--> API --List--> MemoryStore, or ReplicatedStore (Badger)

| Component | Source | State | Operations | What is hard about it |
|---|---|---|---|---|
| Ingestion workers | `ingestion/*/worker.go`, `cmd/ingestion` | none | poll or receive, then `Publish` | a failed publish drops the event; Linear publishes every ticket again each minute |
| Event queue | `queue/streams.go`, `store/consumer.go`, `cmd/api` | stream, consumer group with its last-delivered ID and pending entries; the batch in hand | `Publish`, `Consume` (group, read, handler, ack) | a crash between delivery and ack, lost replies, handler errors, malformed entries, Redis restarts, several consumers |
| Hash ring | `store/partition.go` | `nodes`, `sorted` | `AddNode`, `RemoveNode`, `Lookup`, `Replicas` | two representations that must agree, wrap-around, collisions |
| Replicated store | `store/replication.go`, `nodeclient.go`, `nodeserver.go`, `badger.go` | one database per node; the operation in flight | `Set`, `Get`, `Delete`, `List` | partial writes, timeouts whose request is applied later, node crashes, reads between the writes to two nodes |
| Leader election | `coordinator/election.go` | the lease in Redis with its TTL; `isLeader`, `token`, ticker | `tryAcquire`, `renew`, release | time, pauses, two commands where one is needed, lost replies, crash and restart |
| Coordinator | `cmd/coordinator` | `detectorCancel`, the detectors that run | `onLeader`, `onFollower` | unordered goroutines that share a variable |
| Drift detector | `coordinator/drift.go` | none of its own; alerts in the store | `detect`, `raise` | reads an incomplete, moving picture |
| API | `api/server.go`, `query.go`, `cmd/api` | requests in handlers | handlers over `Get`/`List`, the language model | it ends while requests are served; the model has no time limit |
| In-memory store | `store/kv.go` | a map under a lock | as the replicated store | lost on restart |
| Dashboard | `web/app/page.tsx` | the last response, the state of the query panel | polling, asking | overlapping polls, late answers, lost responses |
| Store node | `cmd/store` | none of its own | start, shutdown | the process ends while requests are served |

What makes each component correct: the queue never settles an event that is not
stored and never lets one event block another; the ring sends a key to the
nearest clockwise point and to distinct replicas, and moves only the keys it has
to; the store keeps what it has acknowledged and reads find it; at most one
process leads, it owns the lease it renews or deletes, and leadership comes back
in bounded time; the leader, and nobody else, runs a detector; the detector
reports what it should and accuses no commit that has its ticket; the page ends
up showing what the store holds, and its query panel is never stuck.
`PROJECT.json`
lists, under `hazards`, each way this can go wrong with its line and the
properties that cover it.

## 2. The modules

| Module | Models | Checked by |
|---|---|---|
| `Election` | `coordinator/election.go` | `election_paused` |
| `ElectionProofs` | theorems about `Election` | TLAPS |
| `Coordinator` (EXTENDS `Election`) | `cmd/coordinator/main.go` around `Elector.Run` | `coordinator_*` |
| `ElectionTiming` (EXTENDS `Coordinator`) | the coordinators with a stopwatch | `coordinator_prompt` |
| `CoordinatorProofs` | theorems about `Coordinator` and `ElectionTiming` | TLAPS |
| `EventQueue` | `queue/streams.go`, `store/consumer.go`, the consumer goroutine of `cmd/api/main.go` | `queue_*` |
| `EventQueueProofs` | theorems about `EventQueue` | TLAPS |
| `KVStore` | what a store promises, which is what `store/kv.go` does | through the next one, and `dashboard_polls` |
| `ReplicatedStore` | `store/replication.go` over `nodeclient.go`, `nodeserver.go`, `badger.go`, `cmd/store` | `store_partial` |
| `StoreProofs` | theorems about `ReplicatedStore` | TLAPS |
| `AtomicStore` (EXTENDS `ReplicatedStore`, INSTANCE `KVStore`) | the refinement mapping from the one to the other | `store_partial` |
| `AtomicProofs` | proof of the refinement | TLAPS |
| `Drift` (EXTENDS `ReplicatedStore`) | `coordinator/drift.go`, with the facts that `ingestion/*` publishes | `drift_*` |
| `DriftProofs` | theorems about `Drift` | TLAPS |
| `Dashboard` (EXTENDS `KVStore`) | `web/app/page.tsx` over `api/server.go`, `api/query.go`, `cmd/api` | `dashboard_polls` |
| `DashboardProofs` | theorems about `Dashboard` | TLAPS |
| `Ring` | `store/partition.go` | `ring_changes` |
| `RingProofs` | theorems about `Ring` | TLAPS |
| `MC...` | instances for TLC | |

Definitions named `X_Y` and marked "Faulty variant" are not part of any
specification: each stands for a plausible bug in the definition `X`, and the
property listed with it under `mutants` in `PROJECT.json` fails when `X` is
replaced by it.

### Election

Each Redis command is one atomic step, so `renew` is two steps (`RenewGet`, then
`RenewExpire`) and `tryAcquire` is SET NX followed by the processing of its
answer (`AcquireWins`, `BecomeLeader`); the process may be delayed, signalled or
killed in between, and each command may fail before or after it took effect
(`AcquireFails`, `RenewGetFails`, `RenewExpireFails`). `lease` and `ttl` are the
Redis key, `isLeader` and `token` the variables of `Run` and of the `Elector`,
`ctxDone` the cancelled context, `timer` and `tick` the ticker with its buffer of
one. `OwnsKey` compares host names, as the code does. `Stop` deletes the key
without looking at it, as the code does.

Time is discrete: `Tick` ages the key and runs the tickers. `Prompt` is the set
of processes that serve each tick within `MaxLag` units; others may be paused
for any time. With `LeaseTTL` 5, `RenewInterval` 2 and `MaxLag` 1 the runs keep
the order of the code's 10 s and 4 s; the proofs need only
`RenewInterval + MaxLag < LeaseTTL` and `MaxLag < RenewInterval`.

### Coordinator

`Run` starts `onLeader` and `onFollower` as goroutines; `callbacks` are those
that still run. `onFollower` takes three steps (check, call, clear), because
`detectorCancel` is unprotected; when another `onFollower` clears it in between,
the call of nil panics and the process dies (`OnFollowerPanics`). A term, the
number of a won election, names the detector that was started for it. A detector
that is not cancelled may send an alert at any time (`Raise`): `put` is one such
PUT, any one, from its sending until a node applies it (`PutApplied`), which it
does whatever became of the sender meanwhile. What is written, and what becomes
of it at several nodes, is the subject of `Drift` and `ReplicatedStore`. `ElectionTiming` is the same process with a history
variable, `vacancy`, so that one run over three coordinators checks the election
and what `main` makes of it.

### EventQueue

A Redis state (`redis`, and `saved`, the last snapshot) has the IDs in the
stream, the group's last-delivered ID and its pending IDs. `Consume` goes through
the locations starting, reading and handling; `batch` is what it was
given and has not processed. The handler of the first entry of a batch writes its
fact to `Replicas` nodes one after the other (`Put`, `PutFails`; `asked` counts them
and `heard` says whether one has answered), and then the entry is acknowledged
(`Ack`) or, if none has, left pending (`HandleFails`). A PUT that fails was applied,
never will be, or is applied later (`late`, `ArriveLate`), as is one that its process
leaves behind when it ends (`Crash`). `facts` has for each node and key the entry
whose payload is there; a node that goes down keeps its database, and is to the
handler a PUT that fails. `Replicas = 0` is the API without `STORE_NODES`: the fact
goes to the memory of the process, always with success, and `Crash` empties it.
Entries are numbered; an entry is its fact key or
`Malformed`, and a fact is the number of the entry that wrote it, so that two
events of one ticket are told apart by age. All processes of the group use the
consumer name "api-1", which matters to nothing here because only ">" is read.

### ReplicatedStore

A call asks its nodes one at a time, as the loops of `replication.go` do. A
request may be answered; may fail before or after it was applied; may meet a
node that is down; or may be given up by the client and be applied later
(`late`, `ArriveLate`: Badger ignores the context). A node that is shut down ends
as abruptly as one that crashes (`NodeCrash`): `main` returns when `Shutdown`
begins. Facts are numbered by their `Set` call. A fact's version is the time of
its node, which is ahead by `Skew[n]`, and two stored facts are at least `Gap`
apart. `acked` remembers the last fact for which `Set` returned nil, and `floor`
what was acknowledged when a read began; both are history variables. `List` has
a prefix, for `Drift`.

### KVStore and AtomicStore

In `KVStore` a `Set` or `Delete` changes the map in one step, and a read returns
what its key held at some moment of the call (`held`); a `List` need not take one
moment for all keys. `AtomicStore` says which map two nodes stand for: what the
primary holds, or else what the replica holds (`Holds`); hence a `Set` takes
effect at the primary and a `Delete` at the replica (`Done`). The mapping is
checked and proved step by step (`ImplementsKVStore`) as long as every request is
answered (`intact`): after a partial write `Get` finds the older fact, which is the
price `docs/04-replication.md:46` names. The premise that no `List` meets a
`Delete` is needed too: TLC finds a `List` that asks the replica before a `Set`
reaches it and the primary after the `Delete` that follows, and returns a fact
that was overwritten before the `List` began. Nothing in the repository calls
`Delete`.

### Drift

One pass is `DetectBegin`, `CommitsListed`, `TicketsListed`, then one `Set` for
each alert and `DetectEnds`; between them every request to a node is a step of
`ReplicatedStore`, so nodes crash and facts are stored while a pass goes on.
Errors of `List` are ignored, as in the code. `Cancel` is the loss of leadership:
from then on every request fails unsent (`FailsUnsent`) and `detect` goes on with
what it has. `StoreCommit` and `StoreTicket` are the stream consumer's `Set` of
what the workers publish at every poll. A commit's message is the set of tickets
it mentions; `Age` lets `StaleAfter` pass. All tickets are in progress. Of a
pass the model remembers what was acknowledged and at what time it began
(`known`, `begun`: history variables), since what it must find depends on that.

### Dashboard

The page, the API process and its `MemoryStore` (an extension of `KVStore`).
`Polls` are the fetches of `usePolling` that overlap; `Asks` the questions of the
query panel, one at a time. A fetch is sent, handled (a `List` of the store),
for a question passed to the language model, answered and received; it fails when
the API is down, when it is lost on the way, or when the API ends with the request
in a handler (`ApiEnds`, a crash as well as a signal: `main` leaves while requests
drain). A restarted API has an empty store, and its consumer group does not
deliver the events again.

### Ring

`Init` chooses any placement of the virtual nodes, so results hold whatever
SHA-256 does; `Sort` and `InOrder` give the result of `sort.Slice` by rank; `nodes` and `sorted` are kept separately, as in the code.
`RemoveNode`, which no program calls, is documented as the reaction to a failed
health check (`docs/04-replication.md:61`) and is modelled for that.

## 3. The runs

| Run | Shows | Bounds |
|---|---|---|
| `coordinator_prompt` | types; at most one leader; the leader holds the lease under its token; the election's inductive invariant; EXPIRE and DEL touch only the process's own lease; after the last failure the vacancy is at most `LeaseTTL + RenewInterval - 1 + 2 * MaxLag`; one detector at most; followers have none; no alert is sent next to another process's lease | 3 prompt processes whose callbacks finish within a unit, 1 Redis error, 2 stops, 2 wins per process run |
| `election_paused` | two leaders do not stay leaders for ever; leadership comes back | 2 processes with unbounded pauses, 1 error, 1 stop, 1 loss of the key |
| `coordinator_any_order` | callbacks late and in any order: a leader still comes to have a detector | 1 process, 3 terms, 1 error, 1 stop, 1 lost key |
| `coordinator_follower_runs` | **violated**: a follower keeps a detector | 2 processes with pauses |
| `queue_one_api` | what is acknowledged is on a node, until a PUT is applied late; its inductive invariant; entries are abandoned only by failures; until Redis restarts only a late PUT replaces a fact by an older one | 1 process, 2 nodes, 3 entries, 2 keys, batches of 2, 2 failures, 1 late PUT, 1 crash, 1 Redis restart |
| `queue_delivers` | no entry blocks the ones behind it | 2 processes, 2 nodes, 3 entries, 2 failures, 1 crash |
| `queue_redelivers` | **violated**: a pending entry is not delivered again | 1 process with its facts in memory, 2 entries, 1 crash |
| `store_partial` | an acknowledged fact is on one of its nodes; the nodes of a key agree, or will after the next call that both answer; Get finds a fact, List the newest; until a request fails, every step is one of `KVStore` | 1 writer, 1 reader, 3 calls that set or delete, 1 failing request, 1 that is applied late, 1 crash, clocks 1 apart with a `Gap` of 2 |
| `drift_passes` | no tracked commit is reported; a pass that is not cancelled reports every untracked commit and every ticket that was old when it began; all with one failure of any kind | 2 nodes, 1 commit, 1 ticket, 2 `Set`s, 2 passes, `StaleAfter` passes once |
| `drift_stale` | **violated**: an old ticket in progress has an alert | as above, without failures |
| `dashboard_polls` | a poll gets nothing older than what the page showed when it was sent; in the end the page shows the store, unless the API stays down; an answer belongs to the last question; the panel is freed | 1 key, 2 overlapping polls, 2 questions, 1 lost message, 1 end of the API |
| `ring_changes` | Lookup is the clockwise successor; replicas are distinct; only the keys of a node that joins or leaves move; they go to their second replica | 3 nodes with 2 virtual nodes, 6 hashes, at most 1 collision |

Why the bounds are enough for the cases that matter: three coordinators give two
rivals for a vacant lease, and one error plus two stops combine an orphaned lease
with a crash of the leader; a batch of two with three entries has an entry before
or after a batch that is cut short by a crash, two keys make a shared and a
distinct key, and two failures let both PUTs of an entry fail (`queue_one_api` was
also run with one node, and with four entries for facts in memory); a fault and a
crash let a write miss either replica and the other one go down later, and with
fewer than three calls no `Set` follows a `Delete`; one fact tells an old page
from a new one, as a restart empties the store; two `Set`s let a commit and its
ticket come in either order, or a ticket twice; a second pass meets what the
first, perhaps cancelled, has left; six points on six hashes, with fewer present
at any time, exercise the wrap-around and gaps of any size, and two points per
node make neighbours of one owner. `MaxToken`, `MaxEntries`, `MaxWrites` and the
like bound only how long TLC goes on; the guards that use them model no code. A
process that has used up `MaxToken` no longer competes (`AcquireLoses`), and
`LeadershipRecovers` says so. `MaxCollisions` is a bound too: with a 32-bit hash
and 150 virtual nodes collisions are rare but possible.

The vacancy bound is exact: with one unit less TLC finds a counterexample, in
which the lease expires just after a follower's try.

`drift_passes` looks at all behaviours with a single failure (`OneFailure`, also
the run's constraint): a crash of a node, a lost request or reply, or a request
applied late.

`CHECK_DEADLOCK FALSE` is set for the queue, where nothing more happens when all
entries are consumed and the failures used up, or the consumer has returned, and
for `drift_*`, where the bounds on passes and `Set`s run out.

### Fairness

`election_paused` and `coordinator_any_order`: time passes, a `Run` loop that can
take a step takes one (goroutines are scheduled, Redis commands return or time
out), and a cancelled context is noticed in the end (a `select` with several
ready cases picks one at random). No process is assumed to restart, and nothing
is assumed about signals, crashes or lost keys. `queue_delivers`: a consumer goes
on with its loop; nothing makes a worker publish or a process restart, hence the
premise that some `Consume` keeps running. Callbacks that were started run
(`coordinator_any_order`). `dashboard_polls`: the timer of the page fires, a
request is answered or its connection ends, the language model answers or its
connection ends (`callAnthropic` sets no time limit of its own). Nothing starts
the API again, hence the premise of `PageConverges`. The consumer stops storing at
some time, since the facts are bounded; a store that changes for ever is always
ahead of the page.

## 4. What is proved

`ElectionProofs`, for any set of processes, any hosts and any TTL, interval and
lag within `TimingAssumption`:

- `TypeCorrect`: `Spec => []TypeOK`, with no further assumption.
- `PromptInvariant`, for `Prompt = Procs` and `MaxLosses = 0`: `TypeOK` and
  `RenewalInTime` always hold. `AtMostOneLeader` is not inductive: that a leader
  is the only one depends on its key still existing, hence on the time left.
  `RenewalInTime` says where the time goes: `ControlInv` ties the place of `Run` to
  the ticker (a process that serves a tick has `timer + lag = RenewInterval`) and
  `LeaseInv` ties it to the key (a leader at rest has `ttl > timer + MaxLag`, a
  busy one `ttl > MaxLag - lag`, a process that has just won
  `ttl + lag >= LeaseTTL`), so the key outlives the next renewal.
- `LeaderHoldsLeaseHolds`, `AtMostOneLeaderHolds`, `RenewExtendsOwnLeaseHolds` and
  `ReleasesOwnLeaseHolds` follow from it.

The two assumptions are needed: TLC refutes the properties with a paused process
or a lost key (see section 6).

`CoordinatorProofs`, for any set of processes:

- `CTypeCorrect`: `CSpec => []CTypeOK`, for every order and delay of the callbacks.
  Types alone are not inductive: `TokenInv` adds that a process which is about to
  lead has a term left.
- The others assume `Prompt = Procs`, `MaxLosses = 0` and callbacks that finish
  before the next unit of time (`PromptCallbacks`); with late callbacks the code
  does keep a detector on a follower (`coordinator_follower_runs`).
  `OneDetectorHolds`, `FollowersPauseHolds` and `DeposedLeaderSendsNothingHolds`
  follow from `PromptInv`: `RenewalInTime` of the election, and `DetectorInv`, which
  says that one callback runs at a time, that it belongs to the current term, what
  `detectorCancel` holds before and after it, and that a detector which is not
  cancelled has the lease of its process. The call of a nil `detectorCancel` is
  impossible then (`NoPanic`).
- `CoordinatorImplementsElection`, under the same assumptions: `CSpec => Spec`. Every
  step of `main` and its callbacks is a step of `Election` or a stutter.
- `FailoverBoundedHolds`, also under `MaxFaults < MaxToken` (no process that may lead
  runs out of the terms that are modelled): `TSpec => []FailoverBounded`. The
  invariant `VacancyInv` names, while nobody leads, one process that will: either it
  has won (`WillLead`), or its next try comes when the key is gone, and the vacancy
  so far plus the time to that try stays below the bound (`WillTry`).

`EventQueueProofs`, for any keys, entries, batch size, failures, late PUTs, crashes
and restarts of Redis, with facts in memory or on one or two nodes:

- `QueueTypeCorrect`: `Spec => []TypeOK`, for any number of API processes. That a
  process which is not handling an entry has asked nobody is `LoopInv`.
- `SettledBeforeBatchHolds`, for one API process. The entries in hand come after
  everything that is settled, in Redis now or in the snapshot it may fall back to:
  without this a second delivery after a restart could overwrite a settled entry
  with an older one, and the handling of an entry could not be shown to keep the
  others reflected. That part holds whatever happens. The rest holds while the
  store is `Reliable`: no PUT was applied late, and no in-memory store has ended
  with its process. Then what is settled, and the entry that a node has answered
  for, is reflected: some node holds its fact or a later one.
- `AckImpliesStoredHolds`, for one API process, follows: every delivered entry that
  is no longer pending is reflected while the store is `Reliable`.
- `FactsNeverRegressHolds`, for one API process: until Redis goes back to a
  snapshot, no step but a late PUT or the end of an in-memory store replaces a fact
  by an older event's; this includes the PUTs sent after one that came late. The
  invariant behind it, `FactsBehindBatch`, orders facts, late PUTs, batch and
  last-delivered ID.
- `AbandonedOnlyByFailuresHolds`, for any finite number of API processes: how many
  entries can be delivered and then worked on by nobody. `AbandonedInv` bounds a
  batch, and what the snapshot holds: the entries that were abandoned when it was
  taken and those then in hand. An entry counts as lost from the moment a PUT of its
  handler fails until another is answered (`Lost`, `Doomed`). The sum over the
  processes is bounded without induction, by mapping pairs of a process and a number
  onto the union of the batches (`UnionBounded`).

`StoreProofs`, for any nodes, keys, clients, placement of the replicas, clocks, and
numbers of calls, failing requests, late requests and crashes:

- `StoreTypeCorrect`: `Spec => []TypeOK`. The bound on `errs` needs `LoopInv`: a
  loop asks each of its two nodes once.
- `GetFindsAckedHolds`, if keys that are deleted have one writer
  (`Deletes => SoleWriter`): a `Get` that both nodes answer finds a fact. The
  invariant `FindInv` says that an acknowledged fact is stored on a node of its
  key, that a `Set` some node answered is too, that a `Get` which has not found its
  fact has still to ask a node that holds one, and that nothing is expected of a
  key while it is being deleted. The last part is where one writer is needed: a
  `Set` of another client that starts during a `Delete` may be acknowledged and then
  deleted.
- `AckedOnAReplicaHolds`, if every key has one writer (`SoleWriter`), until a
  request is applied late: `AckInv` adds that the fact of the `Set` under way is the
  last of its key, so whatever node it reaches keeps at least what was
  acknowledged.
- `NodesAgreeHolds`, with `SoleWriter`, until a request is applied late: as long as
  every request is answered, the nodes of a key differ only while a call on it is
  under way; after failures and crashes they agree again with the first `Set` or
  `Delete` that both answer. Agreement is not inductive, a call changes one node
  after the other: `AgreeInv` says that the nodes a call has got an answer from hold
  what it writes (`Wrote`), which no other call changes, and that with no failure
  all nodes are up and no call has an error.
- `ListFindsNewestHolds`, with `SoleWriter`, until a request is applied late, and
  for clocks less than `Gap` apart: the difficulty is that versions come from
  different clocks, and that `List` sees each node at another moment. `ListInv`
  therefore orders all facts of a key that exist anywhere (`Seen`: in a database, or
  in what some `List` has found) by version as they were set, and bounds their
  versions by what any node would give the next one. A `List` then has found what it
  should, or has still to ask a node that holds it.

`AtomicProofs`, for any nodes, keys, clients, placement of the replicas, calls and
crashes, if every key has one writer and the clocks are less than `Gap` apart:

- `AtomicImplements`: `HSpec => ImplementsKVStore`, until a request fails or a `List`
  meets a `Delete`. What a step maps to depends on what the calls have done so far,
  so the invariant, `HInv`, says, while the history is `intact`: the two nodes of a
  key hold the same fact, except for the one call that is halfway (`Agree`); no
  version is ahead of its node's clock (`Sound`), so what a `Set` stores at the
  primary is newer than what the replica has; a `Get` that goes on to the replica
  finds there what the key held since the call began (`Gets`); and a `List` has
  found, or can still find at the nodes it did not ask, something that the key held
  since the `List` began (`Lists`, key by key in `ListsKey`). Each action then has one lemma (`...Good`): it
  keeps the invariant and is a step of `KVStore`, or a stutter. `Lists` is the part
  that fails when a `Delete` comes in between, `WriteKey` needs the clocks and the
  one writer. TLC checked `HInv` on the instance of `store_partial` before.

`DriftProofs`, for any nodes, clocks, commits, tickets, detectors, passes and
failures (the properties themselves speak of the states with one failure at most):

- `DTypeCorrect`: `DSpec => []DTypeOK`. Its invariant, `BaseInv`, has the types of the
  store below it and `RolesInv`: who sets and lists what, that a list has the prefix
  of its phase, and that with one crash there is one node down.
- `NoFalseAlarmHolds`, if no two facts have their alerts under one key
  (`AlertsDistinct`: the key is made of seven digits of the commit's SHA, so in the
  code this is likely and not certain). A state that has no false alarm may be about
  to raise one, so `FalseAlarmInv` follows the evidence: what is acknowledged is on
  its nodes, up to the one that failed (`KeptInv`); a commit that is not early is
  nowhere, in no database, no late request and no list, until a ticket it mentions
  is acknowledged (`SeenInv`); and a detector whose list has such a commit has found
  one of its tickets, or has still to ask a node that holds it (`PassInv`, with
  `WillFind`).
- `UntrackedRaisedHolds`, without a further assumption: `OnItsWay` says where a commit
  that must be reported is in each phase of the pass: still to be found, found, to
  be raised, being stored, stored.
- `SilentTicketsRaisedHolds`, without a further assumption, for any difference of the
  clocks and any length of a pass: a ticket of which every copy was `StaleAfter` old
  when the pass began has an alert. The detector compares the version it finds with
  the time at which it has both lists (`drift.go:87`). `AgeInv` therefore says that no
  copy is younger than its node's clock allows, that no pass began in the future,
  and that no list has found a version above those the nodes have by now: versions
  only grow, so a ticket that is silent was so whenever a node was asked, and what
  was found of it is stale (`SilentIsStale`). A copy that is stored during the pass
  ends the silence. `SilentInv` says where the ticket is, as `OnItsWay` does for a
  commit (`WillFind`, then `WillRaise`, which both share).
- All three rest on `StepEffects`: what each of the steps of the store and the detectors
  does to databases, acknowledgements, calls and lists, stated once.

`DashboardProofs`, for any keys, numbers of polls, questions, lost messages and ends
of the API:

- `DTypeCorrect`: `DSpec => []DTypeOK`.
- `ResponsesLookForwardHolds`. `DInv` follows a poll from the page it started from to
  the response: what the page showed is not newer than what the handler may see
  under each key, than what it has listed and than what is answered, as long as the
  API has not started again; a handler may see only what was stored (`HeldInv`).
- `AnswerIsForLastAskHolds`, from `AskInv`: only the last question is under way, and
  only while the panel waits.

`RingProofs`, for any nodes, any number of virtual nodes and any hashes, which may
collide, and any sequence of `AddNode` and `RemoveNode`:

- `RTypeCorrect`: `Spec => []TypeOK`. The invariant `RingInv` adds that `sorted` is in
  ascending order and that its points are those of `nodes`. Sorting is defined by
  rank, since a recursive sort is beyond the prover; that every rank is taken
  (`RankOnto`) follows by counting: ranks are distinct, and as many as elements.
- `LookupIsSuccessorHolds` and `ReplicasDistinctHolds`, from the walk: the positions
  that `Replicas` visits, from the one `Search` finds, meet every point
  (`WalkMeetsAll`) in the clockwise order of the hashes (`WalkAscends`). The distinct
  owners are counted by the positions at which they are met first (`Firsts`).
- `OnlyOwnKeysMoveHolds` and `SuccessorTakesOverHolds`, for rings in which no two
  virtual nodes collide. `OwnInv` says that a node of the ring then owns all its
  points and no other; it needs that the points are apart (`PointsApart`, by
  counting). A step adds points of one owner or takes them all away (`StepEffects`),
  and a key keeps its point unless it goes or a nearer one comes (`PointKept`).

The assumptions are those under which TLC finds the properties to hold; section 6
describes what happens without them.

Only model-checked:

- all liveness properties: the prover handles no fairness. Every invariant and
  every action property of the passing runs is stated by a theorem.

## 5. What is not modelled, and why

- The loops of the ingestion workers: a ticker, and a stub that returns fixed
  events. What they publish is in `EventQueue` (any sequence) and `Drift`
  (commits and tickets again and again).
- `GET` of one fact and of the health: they change nothing, and the page does not
  use them. What the language model makes of the facts.
- Tickets that are not in progress, or that leave this state; the texts in which
  `detect` looks for IDs (see section 6 for what that hides).
- Induction over data and `ENABLED` are out of the prover's reach, so
  the models are written without recursive operators, and sums over sets are bounded
  by bijections.
- `Ring` and `ReplicatedStore` together: the programs build the ring once, at
  start, so the nodes of a key are constants of `ReplicatedStore`.
- The retries inside go-redis, beyond what the failing commands already show.
- The text of keys, alerts and messages; JSON and HTTP encoding beyond what
  succeeds or fails.

## 6. Where the code and its documents differ

Shown by runs, as `findings` in `PROJECT.json`:

- `coordinator_follower_runs`: "followers pause automatically on leadership loss"
  (`README.md:117`). `onFollower` may run before the `onLeader` it follows; the
  detector then starts on a follower.
- `queue_redelivers`: an unacknowledged message "stays in the pending list and
  will be redelivered" (`docs/02-redis-streams.md:42`). Only ">" is read.
- `drift_stale`: "stale in-progress tickets (7+ days)" (`README.md:118`). A
  ticket's age is counted from its last `Set` (`badger.go:36`), and the Linear
  worker publishes every ticket again each minute: no ticket that Linear reports
  gets seven days old.

Met while modelling; each can be seen by giving the named module the values in
parentheses and stating the property:

- A pause between GET and EXPIRE (`election.go:84-91`) lets a process extend its
  successor's lease and stay leader (`Election`, `Prompt = {}`,
  `RenewExtendsOwnLease`), although "renew extends the lease only if this node's
  token still matches" (`election.go:81`).
- A leader paused past its lease deletes its successor's when it stops
  (`election.go:47`; `Prompt = {}`, one stop, `ReleasesOwnLease`).
- Two coordinators on one host (`election.go:27`) can write equal values and then
  renew one key for ever (`Host <- OneHost`, `SplitBrainHeals`).
- Tokens count the wins of one process run (`election.go:75`): consecutive leases
  may carry equal tokens, and nothing reads them, although
  `docs/05-leader-election.md:47` calls them monotonic and has the storage nodes
  check them. So an alert that is under way when its leader stops, which deletes
  the lease, is applied after a peer has won, with every process prompt and nothing
  failing (`Coordinator`, two prompt processes, 1 win each, 1 stop,
  `DeposedLeaderWritesNothing`).
- "max gap = lease TTL = 10s" (`docs/05-leader-election.md:40`): the gap is up to
  the TTL plus a renewal interval less one unit plus twice the lag of a tick,
  counted while some process runs that was not told to stop (`FailoverBounded`,
  `FailoverBoundedHolds`).
- When Redis restarts from a snapshot older than the group, every XREADGROUP fails
  and the loop goes on for ever (`streams.go:80`); when XGROUP CREATE fails once,
  the API serves on without a consumer (`cmd/api/main.go:44`).
- Two API processes may store two events of one key in the opposite order
  (`EventQueue`, two consumers, `FactsNeverRegress`); `Set` overwrites, although
  `docs/04-replication.md:49` calls facts append-only.
- A PUT that is applied after its sender gave up on it puts an older event's payload
  over a newer, acknowledged one, with a single API process and whether the key has
  one node or two (`EventQueue`, `MaxLates` 1, `AckImpliesStored` without `Reliable`,
  `FactsNeverRegress` without `lates' = lates`): "we use the event `ID` field as a
  deduplication key in the store" (`docs/02-redis-streams.md:44`), but nothing
  compares events.
- "You can lose any 1 node and still read every fact"
  (`docs/04-replication.md:9`): not after a partial write, which line 30 admits and
  nothing repairs (`ReplicatedStore`, 2 crashes, `GetFindsAcked` without `~missed`).
- `Get` may return the older of two facts after a partial write, from the node
  that missed the last one.
- Clocks of two nodes that differ by as much as the time between two `Set`s of a
  key make `List` keep the older fact (`Skew` and `Gap` both 1, `ListFindsNewest`).
- A request applied after its client gave up can overwrite the acknowledged fact
  on the one replica that held it (`ReplicatedStore`, `MaxLate` 1,
  `AckedOnAReplica`).
- Two writers of one key leave its nodes different for good with no failure at
  all (`replication.go:37`; "replicas catch up within milliseconds",
  `docs/04-replication.md:47`; `ReplicatedStore`, two writers, `NodesAgree`).
- `Delete` returns nil whatever the nodes answered (`replication.go:75`): the key
  comes back from a node that did not delete it.
- `List` returns no error, so a detector takes nodes that are down for empty ones.
  One failure does no harm (`NoFalseAlarm`); two are enough for a false alert: a
  ticket that reached one node only, and that node down (`Drift`, 1 fault and 1
  crash, `NoFalseAlarm` without `OneFailure`). Nothing removes an alert, although
  `docs/06-drift-detection.md:54` has it resolved "when commit/ticket gap closes";
  a commit that was stored before its ticket stays reported, too.
- A ticket is stale after 14 days in `docs/06-drift-detection.md:19`, after 7 in
  the code (`drift.go:84`).
- `detect` looks for the ID as a substring, so `eng-42` mentions `eng-4`; alerts on
  two commits whose hashes agree in seven digits share a key.
- Polls of the page that overlap may take it back to an older response until the
  next poll (`page.tsx:33`; `Dashboard`, `page'` against `page`).
- The page parses every response to a question as JSON, but the API reports errors
  as plain text: the panel shows "Could not reach API" for each of them.
- On a signal `ListenAndServe` returns at once (`cmd/api/main.go:51`), so the API
  exits with status 1 while requests drain. With the in-memory store all facts are
  lost, and their events are acknowledged (`EventQueue`, `Replicas` 0, 1 crash,
  `AckImpliesStored` without `Reliable`): they come back only if a worker publishes
  them again, and a message on Slack is published once.

## 7. Plan

In this order:

1. *done* `Election` with its proofs, `Coordinator`, `EventQueue` with its proofs,
   `ReplicatedStore`, `Ring`.
2. *done* `KVStore` and the refinement by `ReplicatedStore`; clocks per node.
3. *done* `Drift`; `Dashboard`, with the ends of the API and of a store node.
4. *done* `StoreProofs`: types, `GetFindsAcked`, `AckedOnAReplica`,
   `ListFindsNewest`.
5. *done* `CoordinatorProofs` with the bound on the vacancy, `DriftProofs`,
   `DashboardProofs`, `RingProofs`, and the number of abandoned entries in
   `EventQueueProofs`.
6. *done* `AtomicProofs`: the refinement of `KVStore`, step by step.
7. *done* `SilentTicketsRaised` in `DriftProofs`, for passes of any length;
   `NodesAgree` in `StoreProofs`.
8. *done* The writes to the nodes in `EventQueue`, with requests applied late, and its
   in-memory mode; the PUT of an alert under way in `Coordinator`; their proofs.
