# Formal model of the Mojaloop event-driven switch (poc-architecture)

TLA+ modules, TLC configurations and TLAPS proofs for the transfer switch under
`src/modules`. The reference is the code; every definition that models code is
listed with its lines in `PROJECT.json` ("map"). Paths below are relative to
`src/modules` unless they start with `src/`.

- [1. The system](#1-the-system)
- [2. The modules and the code](#2-the-modules-and-the-code)
- [3. What the runs check](#3-what-the-runs-check)
- [4. What is proved](#4-what-is-proved)
- [5. What is not modelled](#5-what-is-not-modelled)
- [6. Plan](#6-plan)

## 1. The system

The switch moves a transfer between two participants (FSPs). Each service is a
Node process that consumes Kafka topics, one message at a time, and publishes to
other topics; the aggregates keep their state in a per-process cache and in
redis, and publish state events to topics of their own.

```
FSP -> ml-api-adapter -> MLIngressEvents
   TransferPrepareRequestedEvt -> [transfers evt handler] -> PrepareTransferCmd
      -> [transfers cmd handler]  TransferPrepareAcceptedEvt
   -> [participants evt handler] -> ReservePayerFundsCmd
      -> [participants cmd handler]  PayerFundsReservedEvt | NetCapLimitExceededEvt | InvalidParticipantEvt
   -> [transfers evt handler] -> AckPayerFundsReservedCmd
      -> [transfers cmd handler]  TransferPreparedEvt -> payee FSP (or the simulator)
   TransferFulfilRequestedEvt -> FulfilTransferCmd -> TransferFulfilAcceptedEvt
   -> CommitPayeeFundsCmd -> PayeeFundsCommittedEvt
   -> AckPayeeFundsCommittedCmd -> TransferFulfilledEvt
```

The deployment's configuration (`src/docker-compose.yml`, the `.env` files)
takes node-rdkafka with synchronous manual commits, the `cachedpersistedredis`
repositories, the sharded redis set of duplicates and an expiry of transfers in
redis. The command handlers are modelled in depth for that choice; the other
choices (Kafka clients, repositories, duplicate sets) are modelled beside it.

### Inventory

| component | state | operations | interacts with | hard behaviour |
|---|---|---|---|---|
| participants command handler and aggregate (`participants/src/application/participantCmdHandler.ts`, `domain/participants_agg.ts`, `participant_entity.ts`, `libDomain/src/base_es_aggregate.ts`, `cachedpersistedredis_participant_repo.ts`) | position of each participant in a per-process Map, redis, state events, snapshots | create, reserve, commit, snapshot | consumer, producer, redis, recovery | position moved in place before publishing; store after publishing; a store left to the next tick; stale Map after a rebalance |
| participants event handler (`participantEvtHandler.ts`) | none | turns transfer events into Reserve/Commit commands, to the partition recorded for the participant | redis, producer | duplicated and redelivered events |
| participants snapshot operator (`participantSnapshotOperator.ts`) | counters per participant, saved to redis | counts state events, asks for snapshots | consumer, producer, redis | counters, timer and save interleave |
| participants state event handler (`participantStateEvtHandler.ts`) | read side in mongo | insert, update position | consumer, mongo | redelivered or early events |
| transfers command handler and aggregate (`transferCmdHandler.ts`, `transfers_agg.ts`, `transfer_entity.ts`, `libDomain/src/base_aggregate.ts`, `cachedpersistedredis_transfer_repo.ts`) | status of each transfer in node-cache and redis, both expiring; set of duplicate ids | prepare, acknowledge reservation, fulfil, acknowledge commitment | consumer, producer, redis | id registered before anything is published; cached object changed in place; expiry |
| transfers event handler (`transferEvtHandler.ts`) | none | turns events into transfer commands | consumer, producer | events without a consumer: a refused reservation ends nowhere |
| transfers state event handler (`transferStateEvtHandler.ts`) | read side in mongo | insert, update status | consumer, mongo | redelivered or early events |
| event-sourcing recovery (`libInfrastructure/src/eventsourcing_repo.ts`, `rdkafka_fetcher.ts`, `redis_messageoffset_repo.ts`) | partition of an aggregate's snapshots, in redis | load a snapshot, replay state events | Kafka, redis | which message is "last"; when a topic is at its end |
| repositories (`participants/src/infrastructure`, `transfers/src/infrastructure`, `*duplicate*_repo.ts`) | state of an aggregate in a Map, a node-cache, redis or two of them; ids of prepared transfers | init, load, store, add, getAllIds, destroy | redis | each survives other failures; a cache in front of a redis nobody writes |
| rdkafka consumer and producer (`rdkafka_consumer.ts`, `rdkafka_producer.ts`) | position, committed offset; local queue, reports awaited | consume, filter by name, commit; send a batch | Kafka group | redelivery, loss of a partition, an exception that ends the loop; some of several messages fail; a full queue |
| other Kafka clients (`kafka_generic_*.ts`, `kafka_stream_consumer.ts`, `kafkajs_*.ts`) | own queues and buffers, pause state | the same interfaces | Kafka group | a commit that covers waiting messages; a start at the latest offset; a rebalance with messages in the buffer |
| ml-api-adapter (`api/transfers/handler.js`, `domain/transfer`, `handlers/notification`) with central-services-stream (`kafka/consumer.js`, `kafka/producer.js`, `util/producer.js`) | list of producers by topic | prepare, fulfil, error and query of a transfer; callbacks to the FSPs | HTTP, Kafka | 202 before the brokers have the request; a producer made twice; a callback that fails |
| simulator (`devtools/src/simulator`) | none | answers a prepared transfer as its payee | consumer, producer | redelivered events |
| service processes (`*/application/index.ts`, `simulator/index.ts`, `ml-api-adapter/src/shared/setup.js`, `api_server.ts`) | handlers, open clients, API server | start, SIGINT | all of the above | start that fails half-way; destroy that nobody awaits |
| messages, enums, configuration, metrics; performance tools, dashboards, charts | – | – | – | – |

### What makes each component correct

- **Participants**: a position never exceeds the net debit cap, in any copy; the
  copies agree between commands; what is persisted was published; a command
  whose offset is committed was answered; all of it looks like one ledger whose
  steps are indivisible.
- **Transfers**: a transfer is accepted at most once and goes through its
  statuses in order; a fulfilment is accepted only of a reserved transfer; what
  is persisted was announced; nothing takes a transfer back.
- **Switch**: no FSP is told of what did not happen; nobody is paid without a
  hold and a fulfilment; transfers and participants, which share no store,
  agree; every accepted request comes to an end.
- **Consumers**: at least once, in the order of the partition; no message is
  skipped or repeated without a failure, and the loop goes on.
- **Producers**: a promise that resolves means the brokers have the batch, in
  order.
- **Repositories and recovery**: the next command is ruled on with the state the
  last one left, over the failures the repository is meant to survive.
- **Snapshot operator**: it never counts too few events, and every participant
  gets its snapshot.
- **Read side**: it follows the state events, repeated or not.
- **Processes**: a SIGINT loses no committed command, and a process that ends
  can start again with all its handlers.

The hazards behind these properties, each at its line, are in `PROJECT.json`
("hazards").

## 2. The modules and the code

| module | what it is |
|---|---|
| `ParticipantCommands` | the participants command handler: consumer loop, aggregate, repository, publisher, failures |
| `NetDebitCap` | the abstract ledger participants promises |
| `ParticipantLedger` | `ParticipantCommands` seen as a ledger: sums of what was granted, refinement of `NetDebitCap`, for runs in which one process takes all commands of a participant |
| `MCParticipant` | values of the constants for TLC |
| `ParticipantCommandsProofs` | proofs about `ParticipantCommands` |
| `ParticipantLedgerProofs` | proofs about `ParticipantLedger`, the refinement included |
| `Sums` | facts about sums over finite sets, for the proofs about the ledger and the switch |
| `TransferCommands` | the transfers command handler, the same way |
| `TransferLifecycle` | the abstract lifecycle transfers promises |
| `MCTransfer` | values of the constants for TLC |
| `TransferCommandsProofs` | proofs about `TransferCommands`, the refinement of `TransferLifecycle` included |
| `Switch` | the whole chain from an FSP's request to the callbacks: adapter, event handlers, command handlers, simulator |
| `SwitchProofs` | proofs about `Switch` |
| `MCSwitch` | values of the constants for TLC |
| `Kafka` | one partition as its clients see it |
| `Consumers` | the five consumers: rdkafka, generic, stream, kafkajs, and the adapter's (css) |
| `Producers` | the four producers, with the adapter's list of producers |
| `Messaging` | a consumer and a producer around one partition, and what they promise |
| `MessagingProofs` | proofs about `Messaging` |
| `MCMessaging` | values of the constants for TLC |
| `Processes` | start and end of a service process |
| `Repositories` | every state and duplicate repository |
| `Aggregates` | a command handler around a repository, with recovery from events |
| `SnapshotOperator` | counters, timer, snapshots asked for |
| `ReadSide` | the two state event handlers and their documents |
| `StateEvents` | `Processes` to `ReadSide` composed, and their properties |
| `StateEventsProofs` | proofs about `StateEvents`: types, the operator's counters |
| `StateEventsSafety` | proofs about `StateEvents`: what creates a participant or a transfer, the read side, what a handler loads |
| `MCStateEvents` | values of the constants for TLC |

There are three depths. `ParticipantCommands` and `TransferCommands` have every
await of one command handler. `Switch` has every handler, each reduced to the
steps another handler or an FSP can tell apart. `Messaging` and `StateEvents`
have the variants: every client and every repository, around a small handler.

### A process and its command

Both handlers share one shape, and so do their modules. A process takes one
message (`Fetch`), runs the aggregate's handler (`LoadRoot` and `Handle...`),
publishes (`Publish`), stores (`Store`) and commits the offset (`Ack`): the
values of `pc` are the awaits of `RDKafkaConsumer.consumeRecursiveWrapper` and
`processCommand`, at which another process, a crash or a rebalance may come in
between. Between two awaits the code is one thread, so each piece is one action.

| code | model |
|---|---|
| partitions of a command topic, the group's committed offset, the position of the partition's consumer, the assignment | `topic`, `committed`, `next`, `owner` |
| the message in hand, its offset, `_rootEntity`, the uncommitted domain and state event | `cur`, `off`, `root`, `evt`, `stateEvt` |
| participants: Map of the repository / redis | `memory`, `redis` |
| transfers: node-cache / redis / set of duplicates | `cache`, `redis`, `seen` |
| topics of state events, snapshots and domain events | `stateLog`, `snapshots`, `domainLog` |
| `commitMessageSync` threw, the loop is not entered again | `pc = "halted"` |

A position is a number, an event a name, a transfer's payload (parties, amount,
endpoints, headers) is left out of `TransferCommands` and constant functions of
the transfer in `ParticipantCommands`. One currency per transfer and one
position account per participant and currency are enough for what
`hasAccount` tells apart (`Accounts`). A fulfilment is one of three operations,
by what `fulfilmentToCondition` makes of it: the preimage of the condition,
another preimage, or not 32 bytes.

### Details that matter

- *In place.* `createFromState` keeps a reference to the cached state (the
  participants' Map holds the accounts themselves, the node-cache has `useClones:
  false`), so a ruling changes the cache before anything is published: `SetRoot`,
  `SetPositions`, `SetStatus`. A failed publication does not undo this.
- *The next tick.* `BaseEventSourcingAggregate.load` leaves the store of a
  replayed entity to `process.nextTick`, unawaited. By then the handler may have
  moved the position: `NextTick` writes either nothing (the write failed or the
  process died) or the position of that moment.
- *The counterparty* is loaded through the same repository and so enters the
  Map: `SetPositions`.
- *Publishing* sends one message per event and rejects on the first failed
  report: `PublishFails` delivers any subset. The catch of `processCommand` then
  publishes again: the ES aggregate its domain event (state events were already
  cleared), the plain aggregate everything (`Republish`).
- *A failed store* may have reached redis: `StoreFails`. The cache is set first.
- *Errors are swallowed* by `_cmdHandler`, and the offset is committed.
- *A rebalance* gives the partition to another process at the committed offset;
  the previous owner finishes its command and may commit an older offset, or be
  refused and halt.
- *Expiry.* Redis counts from the last store, a cache from the last store or the
  last read of redis; either may forget first, at any time.

### The environment of the command handlers

In `ParticipantCommands` and `TransferCommands` the event handlers upstream are
modelled by what they may append (`CanProduce`): requests and fulfilments
whenever an FSP likes; Reserve only when the payer's partition is known; Commit
and the acknowledgements only after the event they answer. Any command may be
appended up to `MaxCopies` times, in any order: that stands for events repeated
and delayed by the handlers, which publish and commit separately. `Direct` are
commands sent with the kafkacat lines of `participants/README.md`. `Switch`
models those event handlers, and its `UpstreamKept` checks the assumption.

### The switch

| code | model |
|---|---|
| one topic and key: what Kafka keeps in order | a `Queue`, `log[queue]` |
| a consumer group of a handler, its committed offset | `Group`, `offset[group]` |
| the message a handler works on, and how far it is | `hand[group]` |
| duplicate set, transfer states in redis, positions in redis | `seen`, `status`, `position` |
| requests answered with 202, the payee's answers, callbacks | `requests`, `answers`, `told` |
| topics no handler reads (`/error`, `GET`) | `unread` |

A handler takes any message of its topics whose predecessors in the same queue
are handled; names outside its list are passed over with the offset. Reading an
event, publishing the command it leads to and committing are separate steps, so
that a stop in between repeats the command. The command handlers publish before
they store, and register the id before either. `payeeSide` says whether the
adapter's notification handler or the simulator plays the payee.
`SEND_TRANSFER_CONFIRMATION_TO_PAYEE` is TRUE (`Confirm`): the code's default
leaves the second callback out, so TRUE has the longer behaviour.

### The Kafka clients

| client | what it holds | when it commits |
|---|---|---|
| rdkafka | one message | after the callback, waiting for it or not (`waitForCommit`) |
| generic (kafka-node ConsumerGroup) | a queue fed by the fetch loop | everything fetched so far |
| stream (ConsumerGroupStream) | one message, the stream paused, and the buffer of a Readable, which the fetch loop fills all the same | the message |
| kafkajs | one message (`eachMessage`) | the message |
| css (adapter) | batches of up to `batchSize`; with `sync`, a queue of one worker, else all at once | each message when its callback is through |

`mode` tells running, destroyed and dead apart: an exception out of a commit ends
rdkafka's loop for good. A group that never committed starts at
the latest message unless the client asks for the earliest: `skipped` remembers
what is passed over.

The stream client lets a rebalance wait for the message at work
(`StreamOnRebalance`, `StreamRebalanceWaited`), but not for its buffer: that is
kept, and resumed before the group is let go on, while the library joins again
and fetches from the commit (`StreamRejoin`). What was prefetched is then
delivered from the buffer and fetched a second time, and its second commit sets
the group back, so that after several rebalances one message may be fetched more
than twice. `RepeatsNeedFaults` allows one repeat for each failure, as soon as
one of them was of a kind that makes a client fetch again, and no repeat before;
order and commits are not touched, because the buffer is delivered in order. The
buffer has room for 500 messages (`highWaterMark`), which no instance fills.

A producer's promise is `send[r]`; its local queue `outbox`
has room for `QueueSize` messages; the adapter's `listOfProducers` is `listed`.

### State events

`Processes` opens the resources of `...Start` in their order, and closes those of
`...Destroy` on SIGINT, all handlers at once; `Exit` comes whenever the API
server is down. A resource that cannot be opened leaves the process half
started (`stuck`), without server and SIGINT listener: node 12 only warns of the
unhandled rejection. The adapter listens first, opens its producers, then its
consumer; an error event of its producer ends it.

`Repositories` has one load and one store per repository class: a Map (never
forgets), a node-cache (expires), redis (may expire, may fail), and the two
cached ones, of which `Cached...` writes redis only for what the Map does not
have. `Aggregates` reduces a command to the one state event it leads to;
`Recover` fetches snapshots and events, either of which may end early; only the
oldest snapshot is used and every event replayed over it. `SnapshotOperator` has
the in-memory counters, those in redis and the publication under way as separate
variables, because the code awaits none of them for the others. `ReadSide`
inserts without a unique index and updates the first match.

## 3. What the runs check

| run | bounds | checks |
|---|---|---|
| `participant_steady` | 2 participants, one of them created in the run, 3 transfers in both directions, 2 processes, 2 partitions, each command once, 1 failed read or commit | `LedgerAgrees`: domain events, state events, redis and the owner's Map tell one position between commands; `NetUnderCap`: the sum of what was granted stays under the cap; `AnsweredOnce`; `ImplementsLedger`: every publication is one step of `NetDebitCap` |
| `participant_faults` | 1 partition, 2 processes, 2 transfers, 2 failures of any kind; one participant without an account; fair | `TypeOK`; `PositionsCapped`: no copy exceeds the cap; `PersistedWasPublished`: redis never runs ahead of the stream for participants known from the start; `CommittedAnswered`: at least once; `CommandsConsumed`: every process gets through its partition |
| `participant_order` (violated) | 1 crash | `PersistedWithPublication`, the documented order persist-then-publish |
| `participant_counterparty` (violated) | no failures | `CounterpartyNotCached`, the documented "Load PayeeFSP (no-in-memory)" |
| `transfer_steady` | 1 transfer, 1 process, each command up to twice and 6 in all, 2 failures among failed reads, adds, commits and expiries | `ImplementsLifecycle`: every publication is one step of `TransferLifecycle` |
| `transfer_faults` | 1 transfer, 2 processes that hand a partition to each other, 4 commands, each up to twice, 2 failures of any of the 8 kinds | `TypeOK`, `PrepareAcceptedOnce`, `FulfilOnlyIfPrepared`, `PersistedWasAnnounced`, `StoredNeverRegresses` |
| `transfer_mismatch` (violated) | no failures | `MismatchPersisted`, the documented update on a fulfilment that does not match |
| `switch` | 2 transfers of one payer of which only one fits under its cap; or 1 requested twice, or with 1 failure of 5 kinds, or between participants of which one is unknown; adapter or simulator as payee; 1 answer per transfer; fair | `TypeOK`; `ToldOnlyWhatHappened`; `PaidOnlyIfHeldAndFulfilled`; `MovedOncePerFailure`; `UpstreamKept`; `HalvesAgree`; `StatusOnlyAdvances`: no step takes a stored status back; `RequestsEnd` |
| `switch_refusal` (violated) | the two transfers, no failures | `RefusedIsAborted`, the documented abort of a transfer over the cap |
| `messaging` | every consumer, in its modes, with 4 or 5 messages of every form and 2 failures; every producer with 2 batches of 2 and a third request, a local queue of 3, 1 failure; the adapter's producers with 3 requests; fair | `TypeOK`; `CommittedIsHandled`; `HandledInOrder`; `RepeatsNeedFaults`; `ResolvedIsStored`; `SentInOrder`; `Arrives` |
| `state_events` | 1 aggregate; every repository with 5 commands and 2 failures, the cached redis one also with 4; operator and read side with a failure or two, and an hour that passes; processes of all four applications with a SIGINT and something down; fair | `TypeOK`; `LoadsLast`; `CreatedOnce`; `NeverUndercounts`; `ReadSideFollows`; `CommittedIsCreated`; `SnapshotsTaken`; `RunsAgain` |
| `operator_ids` (violated) | the operator's settings of `state_events` | `OperatorKnowsParticipants`, the ids `start` says it reads |

`CHECK_DEADLOCK FALSE`: topics, requests and failures are bounded, so a run ends
when they are used up and everything is consumed, or when every process halted.

`Switch`, `Messaging` and `StateEvents` start in any of a set of settings (which
client, which repository, which requests, how many failures of which kinds); a
setting never changes. One run then covers all variants with the properties
stated once, and each property says for which variants it does not hold.

**Why the bounds are enough.** The properties relate the copies of one position
or one status, so one participant (with its counterparty) or one transfer is
what they need; transfers never interact in the transfers handler. Two processes
are all that can share a partition at a time, as old and new owner. Two failures
cover a failure and the failure that hides its repair (a crash after a failed
publication, a rebalance and back, an expiry in both stores). A cap of 2 with
amounts of 1 lets one reservation pass, makes a second one depend on a
commitment, and puts the sum on the boundary. In `switch` one of two transfers
is refused in either order of arrival; with failures one transfer is enough,
since transfers meet only in their payer's position. Two batches of two in a
local queue of three are the smallest case in which one batch is cut. In
`state_events` a participant is due for a snapshot after one event, and the
commands move it before and after one. What the bounds leave open, the theorems
of section 4 settle for the properties listed there.

**Properties with a premise.** Some hold only without a certain failure, and say
so; these limits are the code's.

- `PrepareAcceptedOnce`, `FulfilOnlyIfPrepared`: without failed publications
  (publishing again after a partial failure announces twice, and a cache runs
  ahead of events that never went out).
- `StoredNeverRegresses`: while no partition moves (the old owner's late store
  really overwrites). `NetUnderCap`: without redelivery. `CommittedAnswered`:
  without failed reads and publications, which are logged and committed.
- `CommandsConsumed`: unless a failed commit ended the owner's loop.
- `HalvesAgree`: without failures, after which a movement may be repeated;
  `MovedOncePerFailure` bounds how often.
- `RequestsEnd`: unless a process stopped between taking a transfer's id and
  storing the transfer, or an error was swallowed. Its ends include the refusals
  the switch never acts on (see `switch_refusal`).
- `CommittedIsHandled`, `HandledInOrder`: the generic client and css with
  several messages at once commit what waits; for them less is promised.
- `ResolvedIsStored`, `Arrives`: the adapter's producer resolves when the
  message is queued locally. `SentInOrder`: while no two requests made a
  producer for one topic at once.
- `LoadsLast`: `ForgottenAfter` and `StaleAfter` list, per repository, the
  failures it does not survive, and `AheadAfter` the crash after which redis has
  a position no event told of: that of a recovered participant, stored by the
  next tick before the publication. A cached repository never corrects it, since
  redis is written only for what the Map does not have.
- `CreatedOnce`: with fetches that reach the end of the topic, and not with the
  in-memory duplicate set, which answers every add with true.
- `ReadSideFollows`: while mongo answers, and up to one repeat per restart; a
  participant that was created twice has two documents, of which only the first
  is updated.

**Fairness.** Every fair specification assumes weak fairness of the processes'
own work, never of failures, FSPs, operators or the end of a process. The
consume loops call themselves after every message and on every empty read, and
every await of a healthy process ends: Kafka reports a delivery, redis answers.
`ParticipantCommands.FairSpec` has it per process; in `Switch` and `Messaging` the
work is finite, so it is enough that some handler or client goes on while one
can; in `StateEvents` it is stated per handler and per queue of the operator,
whose timer never ends. There a stopped process is started again (the
containers' restart), and whether its handlers manage to close before `Exit` is
left open.

**Findings.** Four documented rules do not hold: redis is written after the
publication, not before (`participant_order`); the counterparty is cached
(`participant_counterparty`); a refused fulfilment is remembered by one
process's memory only (`transfer_mismatch`); a transfer over the cap is never
aborted (`switch_refusal`). One is a bug: `getAllIds` strips the prefix of the
keys and then returns the keys, so that an operator started after a participant
was stored counts for, and asks snapshots of, ids nobody has (`operator_ids`).

Every property has a mutant: a plausible bug of a definition (marked
`Mutant:`, placed before the definition it would replace) under
which TLC finds the property violated.

## 4. What is proved

The eight proof modules are checked by `tlapm`, for every value of the constants
under the assumptions the models name (`ConstantsAssumption`,
`TransferAssumption`, `HandAssumption`, `KafkaAssumption`, `TransfersAssumption`,
`RepositoriesAssumption`): owners and amounts are functions of the right sets,
`Absent` and `NoCmd` are not data, a command sent by a tool has a positive amount,
the settings of `StateEvents` are settings, whose requests their application
handles and whose repository is one of its application's, there is a process and none is called "redis", and where something is
added up, counted or enumerated the transfers or ids are finitely many. Nothing
else need be finite: any number of processes, participants, messages and failures.

| theorem | statement | argument |
|---|---|---|
| *ParticipantCommandsProofs* | | |
| `TypeCorrect` | `Spec => []TypeOK` | `TypeInv` adds `ControlOK`: an event is in hand only while publishing; a loaded entity is a position where one is published or stored |
| `CapHolds` | `Spec => []PositionsCapped` | `CapInv` adds that roots are capped and that every reservation, and so every commitment, ever sent is of a positive amount: `commitFunds` checks nothing, and only the order upstream makes it move a position down |
| `StreamAhead` | `Spec => []PersistedWasPublished` | `StreamInv` adds that a process about to store holds a published position, and that a replay is never pending for a participant redis has known |
| `CommitsAnswered` | `Spec => []CommittedAnswered` | `AnsweredInv`: a command has its place in its topic; one behind the committed offset is answered, one behind the position of the partition's consumer is answered or in the hand of a process that will answer it |
| *ParticipantLedgerProofs* | under `Steady` | |
| `LedgerImplemented` | `Spec => ImplementsLedger` | `LedgerInv`: everything the process of a participant holds was loaded from what stands in the state events, so what it publishes is the ledger's next step; the Map, redis and a pending replay hold nothing else |
| `PositionsAgree` | `Spec => []LedgerAgrees` | `NetAgrees`: the published position is the sum of the domain events; each publication changes one term of one sum (`SumFollows`) as the ledger's step changes the position |
| `NetStaysCapped` | `Spec => []NetUnderCap` | from both and `CapHolds` |
| `AnsweredAtMostOnce` | `Spec => []AnsweredOnce` | `AnswersCounted`: copies of a command fetched, and not in a hand that still has to answer, are as many as its answers at least |
| *TransferCommandsProofs* | | |
| `TransferTypes` | `Spec => []TypeOK` | `TypeInv` adds `ControlOK`: events only while publishing, an accepted prepare has the status RECEIVED_PREPARE |
| `AcceptedOnce` | `Spec => []PrepareAcceptedOnce` | `AcceptInv`: an id outside the set of duplicates was never accepted, an acceptance still to be published is the only one |
| `AnnouncedFirst` | `Spec => []PersistedWasAnnounced` | `AnnouncedInv`: a process about to store holds an announced status |
| `PreparedFirst` | `Spec => []FulfilOnlyIfPrepared` | `PreparedInv`: a status beyond RECEIVED_PREPARE, in redis, in a cache or in hand, stands for an announced reservation, or for one the process that caches it is about to announce |
| `NeverTakenBack` | `Spec => StoredNeverRegresses` | `RegressInv`: while no partition moves, every command of a transfer reaches one process, whose cache is never behind redis; redis and the caches know only transfers of the duplicate set, so a new transfer overwrites nothing |
| `LifecycleImplemented` | `Spec => ImplementsLifecycle`, if `FaultKinds \subseteq Harmless` | `LifecycleInv`: a status that is cached, stored or in hand is the last that was announced, or the one its process is about to announce next to it |
| *SwitchProofs* | | |
| `TypeCorrect` | `Spec => []TypeOK` | `TypeInv` adds that a message in hand lies in the log behind the group's offset |
| `ToldTruly`, `PaidRightly`, `UpstreamHolds` | `Spec => []ToldOnlyWhatHappened`, `[]PaidOnlyIfHeldAndFulfilled`, `[]UpstreamKept` | `CauseInv`: every message in a log has its cause in a log (`MessagesCaused`), statuses and callbacks have theirs. Logs only grow, so a cause once there stays; `Chain` follows the causes back through both halves |
| `FundsMoveOnce` | `Spec => []MovedOncePerFailure` | `MoveInv`: what was moved, plus what is still under way to move it (copies waiting in each log, in each hand, and whether the handler may still let the transfer pass), never exceeds one and two per failure; each step moves a unit from one term to the next, a stop hands out at most two again |
| `StatusAdvances` | `Spec => StatusOnlyAdvances` | `StatusInOrder`, in `MoveInv`: what is in hand to be stored is a next status of what redis holds |
| `HalvesMeet` | `Spec => []HalvesAgree` | `HalvesInv`, as long as nothing has failed: a position, with what the participants' handler has in hand to store, is the sum of what was published to have moved (`Ledger`), each movement at most once by `MoveInv`; each of these events the transfers' event handler is past became a command (`Relayed`); each command the command handler is past shows in the status, and the status shows nothing else (`Applied`). At rest everybody is past everything, so that what was published to have moved is what the statuses owe |
| *MessagingProofs* | | |
| `InductiveInvariant`, `TypeCorrect` | `Spec => []MessagingInv`, `[]TypeOK` | `ConsumerInv` and `ProducerInv`, each kept by the other end's steps; `ConsumerInv` is `StreamInv` for the stream client, in whose hands a message may be twice, and `OrderedInv` for the others |
| `CommitsBehind` | `Spec => []CommittedIsHandled` | `NothingForgotten`, `CommittedDone`: a wanted message before the position is handled or waits in a hand or queue; one before the committed offset is handled, for clients with one message at a time (`StreamOrder` for the stream client) |
| `OrderKept` | `Spec => []HandledInOrder` | `Consecutive`: what a client holds follows each other without gaps, as it was fetched; `StreamOrder`: what lies before a message in the buffer was handled or comes before it |
| `RepeatsPaid` | `Spec => []RepeatsNeedFaults` | `Repeats`: a message handled and still to be fetched again has a failure of its own. `StreamRepeats` for the stream client: the times a message was handled, its copies in the buffer, the message at work and what will be fetched again add up to at most one more than the failures; a rebalance adds one to the sum and one to the failures, every other step moves a unit from one term to the next |
| `PromisesKept` | `Spec => []ResolvedIsStored` | `UnderWay`, `Acknowledged`, `StoredFromFront`: each message of a batch is in the local queue or in the partition; reports count what is stored, from the front |
| `SendsInOrder` | `Spec => []SentInOrder` | `OneProducer`, `CallsInOrder`: one producer per topic keeps the order of the calls in queue and partition |
| *StateEventsProofs* | | |
| `TypeInvariant`, `TypeCorrect` | `Spec => []TypeInv`, `[]TypeOK` | `TypeInv` adds `HandOK`: there is an answer from the ruling to the commit, of the command in hand and with the state that will be stored; no command, no state; what the operator is to publish are batches of ids |
| `CountersNeverUndercount` | `Spec => []NeverUndercounts` | `CountsOK`: the bound holds of the counters in memory and of those in redis, while the operator is up it counts for every id that redis has, and an id redis has no counter of has lost no more events than saves failed |
| *StateEventsSafety* | | |
| `NamesFit` | `Spec => []NamesOK` | a request is one its application handles, the operator only asks for snapshots |
| `OnlyCreatedOnce` | `Spec => []CreatedOnce` | `OnceOK`: who is about to create, or has an answer that does, is about the first: a fetch to the end met no event of it, or the duplicate set did not have it; a prepared transfer is in the set |
| `KeptIsCreated` | `Spec => []FollowsOK` | `OrderOK`: publisher and repository open before the consumer and close after it, and outside the loop the process is stopping; `FollowOK`: what a Map, a node-cache, redis or a topic has was created, and the loaded state of what was not is the answer at hand or, the consumer closed, one that was refused |
| `CommittedWasCreated` | `Spec => []CommittedIsCreated` | `CountOK`: of an id nobody created, as many commands to create still wait as were asked for at least; a commit takes one away only with the consumer open, and by `FollowsOK` the participant is there then |
| `ReadSideKeepsUp` | `Spec => []ReadSideFollows` | `DocsOK`: what was created among the events taken has a document, the first of which shows the last of them or, if the read side starts or will start again, the one it is at (`FirstOK`); `FewOK`: documents are paid for by creations taken and restarts |
| `HandlersLoadLast` | `Spec => []LoadsLast` | `LoadsInv`, in three parts: see below |

None of the properties is inductive as it stands: each speaks of what is stored
or published, while the step that could break it acts on what a process holds in
its hand or its cache, so the invariants carry the property back along
publish, handle and load. In the transfers module each step is first brought
into one of a few shapes (`HandleShape`, `PublishShape`, `StoreShape`,
`LetGoShape`), and the invariants are proved about the shapes; `Messaging` does
the same with what a step may do to the hands and queues of a client.

**The hypotheses.** The ledger is one only under `Steady`: one process takes all
commands of a participant, nothing but reads and commits fails, and tools send
no commitments. The first is about the partitions: a command for the recorded
partition and one for the key's partition would otherwise find two Maps, each
with its own copy. A crash, a rebalance or a failed store after the publication
repeats a command that was answered, and a failed publication leaves the Map
ahead of the stream: the code has these, the runs `participant_faults` and
`participant_order` show them, and no theorem hides them. `Harmless` of the
lifecycle leaves out the same: failed publications and stores, crashes and
rebalances; failed reads, adds and commits, repeated commands and expiries are in.
`participant_steady` and `transfer_steady` have their failures chosen so that
every hypothesis is met by the run.

**Sums.** The provers cannot instantiate the library's induction theorems, which
take an operator. `Sums` goes around this: `SubsetInduction` takes a *set* of
good subsets and is proved from the well-foundedness of the strict subset
ordering, so that `SumFunctionOnSet` of the community modules unfolds for every
finite set of indices, and follows the change of one term (`SumFollows`).

**The order of closing.** `CommittedWasCreated` holds because of an order no test of
the repository looks at: `ParticipantCmdHandler.destroy` closes the consumer before
the publisher. With the mutant `PublisherFirst` a handler whose publication is
refused could still commit, and TLC finds the participant that was lost.

**What a handler loads.** `HandlersLoadLast` is about nine repositories at once, so
the steps are first brought into what they do to memory, redis and topics
(`MediaIs`: nothing, load, revise the object in memory, store, publish, end, move,
expire) and to what the handler has at hand (`HandMoves`). Over these, `ToldOK`
holds whatever fails: a state in a Map, in redis, in a snapshot or in hand was told
of by an event, or is at hand, or is ahead of the events by one in redis, after a
crash. `LastOK` says that it is the *last* one, as long as nothing in `StaleAfter`
happened, and `KeepsOK` that a transfer that was prepared is there, as long as
nothing in `ForgottenAfter` did; the repositories differ only in which of the two
stores each part speaks of (`Remembering`, `Writing`, `Volatile`, `Lasting`). The
attempt found `LoadsLast` too strong as it was first stated: it did not have the
redis that stays ahead, which takes four failures to show (`AheadSettings`).

**The last event of an id** is a fact about `Of`, a recursive function over the
topic: `OfAppend` and `UpToIs` unfold it by one message, `ReplayIs` does so with the
fold of a recovery, and the invariants only ever append one message.

**Only model-checked**: the liveness properties `CommandsConsumed`, `RequestsEnd`,
`Arrives`, `SnapshotsTaken` and `RunsAgain`, which rest on fairness and `ENABLED`
and are beyond the prover. Every invariant, action property and refinement of a
passing run is proved.

## 5. What is not modelled

- *Never called in src*: remove, exists and getAll of the repositories, getAllIds
  of all but the plain redis one (the cached ones would push to a variable they
  never set), the flow mode of the adapter's consumer, `Producer.disconnect` of
  its library, and the code of the architecture the adapter was
  copied from (positions, settlement, timeouts).
- *Configurations nobody selects*: auto-commit of the consumers.
- *Client libraries*: a null or invalid topic that leaves the generic producer's
  promise open; a null value that ends a css process; a kafkajs producer whose
  `init` never connects; the promise of an empty batch to rdkafka, which is never
  settled.
- *Recovery*: the cached partition of an aggregate only narrows where the fetcher
  reads, and is abstracted to one topic; every event is replayed whatever it
  holds. `fetchLast` announces "the last one if no offset is provided" and
  returns the first; the replay makes up for it.
- *Repositories other than the deployed ones* are modelled with failures of redis,
  of fetches and of processes; failures of publications only around the deployed
  ones, in the command handlers' modules.
- *Processes*: a second SIGINT while stopping, an API server that cannot listen,
  a disconnect that fails.
- *Tools*: performance meters, injectors, dashboards, charts, build files.
- *Values*: amounts are exact numbers (the code uses BigNumber strings), time is
  expiry at any moment, one currency per transfer. HTTP headers, validation,
  signatures, tracing and metrics are left out.

## 6. Plan

Done: `ParticipantCommands` with `NetDebitCap`, `TransferCommands` with
`TransferLifecycle`, their runs and proofs; `Switch`; `Messaging`; `StateEvents`
with repositories, recovery, snapshot operator, read side and processes.

Proved: every safety property and refinement of the passing runs, see section 4.
Left, in the order of what they would add:

1. The refinements without their hypotheses: an abstract ledger and lifecycle
   that say what a crash, a rebalance or a failed publication may repeat, which
   `ParticipantCommands` and `TransferCommands` then implement always.
2. The repositories of `StateEvents` with failed publications.
3. The liveness properties, if the prover comes to handle `ENABLED`.
