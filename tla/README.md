# noddde in TLA+

noddde is a TypeScript framework for domain-driven design: commands are decided by
aggregates, events are persisted through a unit of work and published on an event bus,
sagas and projections react to them. This directory holds TLA+ modules translated from
its source (`src/packages`), TLC configurations that check them on small instances, and
TLAPS proofs of the properties that matter most for every instance.

`PROJECT.json` lists components, runs, the map from definitions to source lines, the
hazards of the code with the properties that cover them, findings and theorems.

## Inventory

State, operations and interactions of the parts; "hard" is what tests hardly reach.

| Part (source) | State | Operations | Hard | Correct when |
|---|---|---|---|---|
| Aggregate locker (`engine/.../in-memory-aggregate-locker.ts`) | per key: `locked`, queue of waiters | `acquire` with timeout, `release` | timeout racing a hand-over, release of several locks, reentrancy | one holder, no orphaned lock, FIFO, waiters woken |
| Advisory lockers (`adapters/{drizzle,prisma,typeorm}`) | local mutex, one connection, what the process believes it holds | the same, over the database | re-entrant sessions, lost sessions, statements that wait behind one another | one holder across processes, nobody waits for good |
| Concurrency strategies (`concurrency-strategy.ts`) | retry count; locks owed | `execute`, `acquireForUow` | retry on stale state, locks held across a whole unit of work | retries bounded, locks always given back |
| Unit of work (in-memory, Drizzle, Prisma, TypeORM) and completion hooks (`uow-completion-hooks.ts`) | enlisted operations, deferred events, hooks | `enlist`, `commit`, `rollback`, `runUowCompletionHooks` | failure in the middle of a commit or of the hooks | all or nothing; every hook runs once (a failing hook ends them, see Findings) |
| Command lifecycle (`executors/command-lifecycle-executor.ts`) | per dispatch: snapshot, state, version, events | idempotency check, load, decide, commit, snapshot, publish, mark | every await is an interleaving point | no lost update, no duplicate effect, no gap in a stream |
| Stores (in memory and of the three database adapters) | streams, states, snapshots, records, entries | version-checked `save`, `load`, `exists`, `markPublished`, paged `read` | how a driver reports a lost race; rows that others write meanwhile | agree with each other, across processes |
| Outbox relay (`outbox-relay.ts`) | timer, `processing`, `_drained` | `start`, `stop`, `processOnce`, `drain` | overlapping calls, several nodes, crashes, poison events, shutdown | at-least-once delivery |
| Domain (`domain.ts`) | wiring, resolved stores, active operations, shutdown promise | `init`, `dispatchCommand`, `withUnitOfWork`, `rebuildProjection`, `shutdown` | failure half way through `init`, shutdown against work in flight | the wiring is honoured or refused; nothing in flight is closed under |
| Saga executor (`executors/saga-executor.ts`) | saga state and version | `execute` (atomic, best-effort) | concurrent events of one instance, failing commands | state and commands agree |
| Projections (`projection-rebuild.ts`, strong projections in `domain.ts`) and upcasters | views, subscriptions | rebuild, live update, `upcastEvent` | events during a rebuild, failing rebuilds, legacy payloads | view = replay of the log |
| Event buses (in-process, RabbitMQ, Kafka, NATS) | handlers, connection, delivery counts | `on`, `off`, `dispatch`, `close`, reconnect, retry, dead letter | reconnect against close, redelivery, ordering per aggregate | at-least-once, order per partition |
| Event idempotency (`core/src/edd/event-idempotency.ts`) | records with a time | check, handle, mark, `removeExpired` | redeliveries, expiry | only handled events are skipped |

## Modules

| Module | Models | Composes / refines |
|---|---|---|
| `KeyedMutex` | the promise of `AggregateLocker`: one exclusive lock per key | abstract |
| `AggregateLocking` | locker, pessimistic strategy, completion hooks, `withUnitOfWork`'s settlement and publishing | implements `KeyedMutex` |
| `AggregateHistory` | the promise of the write side: the history of every aggregate and saga instance only grows, by what one unit of work decided on all that precedes it | abstract |
| `CommandLifecycle` | `CommandLifecycleExecutor.execute` with an implicit unit of work, both persistence modes, both strategies, in-memory and database units of work, snapshots, idempotency | implements `AggregateHistory` |
| `SagaExecution` | `SagaExecutor.execute`, atomic and best-effort, on a broker or in process, with the database saga stores | implements `AggregateHistory`; uses `CommandLifecycle`'s promise for commands with a unit of work of their own |
| `OutboxRelay` | commands that publish and mark, relays of several nodes on one table, `Domain.shutdown`, crash and restart | |
| `EventDelivery` | the promise of the broker buses: at-least-once delivery | abstract |
| `MessageLedger` | what became of each message, for all buses | |
| `RabbitMqBus`, `KafkaBus`, `NatsBus` | the three buses with the broker as they use it | extend `MessageLedger` |
| `BrokerBuses` | one of them wired behind `EventBus` | composes the three, implements `EventDelivery` |
| `Upcasting` | `upcastEvent`, `upcastEvents` | used by `ReadModels` |
| `ReadModels` | commands, the in-process bus's handler list, strong and eventual projections, `rebuildProjection` | |
| `PersistenceAdapters` | what each adapter's constructors offer | used by `DomainLifecycle` |
| `DomainLifecycle` | `Domain.init`, operations, `shutdown` | |
| `SqlStatements` | the statements the adapters issue, on rows (external) | |
| `DrizzleStores`, `PrismaStores`, `TypeORMStores` | every method of each adapter's stores | extend `SqlStatements` |
| `AdvisoryLockers` | the database lockers of the adapters, for PostgreSQL, MySQL and SQL Server | |
| `SharedDatabase` | commands, relay, event reader and idempotent deliveries of two processes on one database | composes the stores, the lockers and READ COMMITTED transactions |
| `LockingAndRelayProofs`, `CommandLifecycleProofs`, `SagaExecutionProofs`, `BrokerBusesProofs`, `ReadModelsProofs`, `DomainLifecycleProofs`, `SharedDatabaseProofs`, `SharedDatabaseHistoryProofs` | theorems | extend the modules above |
| `MC*` | constants for TLC | |

Definitions marked "Mutant" are plausible bugs. They are part of no specification; each is
substituted for a definition to see that a property notices.

### AggregateLocking

`locked` and `queue` are the locker's map. A client is one `dispatchCommand` outside a unit
of work or one `withUnitOfWork` call; `owed` is the list of releases it still has to run (its
`onSettled` hooks, or the `finally` of `execute`). `AcquireFree` / `AcquireHeld` are the two
branches of `acquire()`, `LockTimeout` the timer callback, `Register` what happens when
`acquire()` resolves, `RunHook` one hook with `release()`, `HookFails` a rejecting release,
`HooksDone` and `Published` the rest of `withUnitOfWork`. A client that publishes waits for the
handlers of its events, among them clients that `ReactsTo` it. A failing release exists only
for database lockers (`ReleaseMayFail`); the model lets it fail before it has an effect. It ends
the loop over the hooks, so the releases behind it stay in `owed` of a client that is past its hooks
(`PastHooks`) and will never run them; `hookFailed` remembers that, as an observation only.

### CommandLifecycle

One action per stage between two awaits. An aggregate's state is the sequence of events
folded into it, since `evolve` is an arbitrary function of that sequence; a state-stored
aggregate stores that sequence and a version that grows by one per save. An event carries
who made it, its sequence number, and how much history its decision had seen (`saw`), which
is what `AggregateHistory` is about. `wiring` is the deployment: which aggregates are locked
and which event-sourced, whether the unit of work is one atomic commit (`CommitTransaction`,
`CommitDuplicate`, `CommitBreaks`) or the operation-by-operation commit of
`InMemoryUnitOfWork` (`CommitSave`, `CommitSaveId`, `CommitSaveIdConflict`,
`CommitSaveOutbox`), and whether idempotency records roll back with it. The lock is the
promise of `KeyedMutex`. `writers` is a history variable.

### SagaExecution

A delivery is one event for one saga instance. `saga` holds what each instance absorbed (its
state is a fold of that, its version the length; empty means `load` returns null), `aggs` the
events of the aggregates, one per command. `LoadSaga`, `Handle`, `EnlistCommand`, `Commit` and
`Publish` are the awaits of an atomic reaction; a best-effort one goes `LoadSaga`, `Handle`,
`Commit`, `DispatchCommand`. `EnlistCommand` is the explicit-UoW path: it loads committed data
and writes nothing. `CommitConflict` is any failed version check, `Fault` any other failure and
a crash; after either, `Rejects` hands the event back to the broker (RabbitMQ or NATS without
`maxRetries`) or, with the in-process bus, drops it. `commits` numbers the attempts of a
delivery that reached the store; the others leave no trace. `CheckThenWrite` names the instances
whose store is TypeORM's, which checks the version (`CheckVersion`) one step before it writes.
Commands that produce no event, and sagas on `InMemoryUnitOfWork`, are not modelled.

### OutboxRelay

Entries are numbers in `createdAt` order. `rpc` is the place of each `processOnce()` call
(timer, `processOutboxOnce()`, `drain()`) of each node, `batch` what it has loaded and not
handled. `phase` is the node's life: `up`, `stopping` (phase 1 of shutdown), `draining`
(phase 2), `closed` (phase 3 on), `down`. `delivered` holds the events handed to a bus that
still had its handlers. `InProcessBus` chooses between `EventEmitterEventBus`, which resolves when
closed, and the broker buses, which throw. `Faults` lists what may fail in a run. An entry of
the outbox is written by one command and never again. `deletePublished` is modelled without
its age filter (it may delete any time).

### The broker buses

One event name; `MessageLedger` records which messages the broker accepted, which all
handlers have processed, which are parked in a dead-letter queue, which were given up with
an error in the log, and how often handlers rejected each. The broker (queue, partitions and
offsets, JetStream consumer) is external and modelled as the code uses it.

- `RabbitMqBus`: `rPc`, `rDial`, `rAttempt` are the connect or reconnect call in progress, and
  `rSocket`, `rArmed`, `rConsuming` each connection's state, armed close handlers and consumer:
  the loss of a channel or of a connection starts a reconnection, a crash clears the process.
  `rChain` is `_aggregateChains`, `rRun` what its head is doing, `rCounts` `_deliveryCounts`. An
  acknowledgement goes to the channel the delivery came from, and fails if that one is gone.
- `KafkaBus`: `kLog`, `kCommitted`, `kPosition` are partitions and offsets; `KafkaFetch`,
  `KafkaHandled` / `KafkaRejected` / `KafkaPoison` and `KafkaCommit` are one turn of `eachMessage`;
  an error of `eachMessage` (`Throw`) restarts the consumer, which joins the group and fetches the
  offset again, if it is marked retriable. Any error may also be one that is
  not marked, and ends the consumer (`crashed`): the bus stays connected and open, and only `warmup`
  or a new process brings the consumer back. A handler that rejects with `undefined` is taken for one
  that succeeded (`_handleMessage` tests the rejection for `undefined`), and so it is in the model.
  `KafkaRejoin` is a rebalance, and `warmup` stops and restarts the consumer.
- `NatsBus`: the server counts deliveries (`nDelivered`) and stops at `maxDeliver`; a late `on()`
  makes a second loop on the same durable. `NatsSettles` is ack, nak, term or the dead-letter copy.

### ReadModels

A view is the sequence of events folded into it, with the payload version the reducer saw.
`DispatchCommand`, `StrongLoad`, `Commit` are a command with a strong projection inside its
transaction; `Deliver` and `Project` one handler of `EventEmitterEventBus.dispatch`, which walks by
index through the list that `on` and `off` change. `RebuildProjection`, `Truncate`, `ReplayLoad`,
`ReplaySave`, `RebuildDone`, `RebuildFails` are `rebuildProjectionImpl`. The documentation asks for
halted writes during a rebuild and orders nothing between overlapping publications; `adrift` records
the views such steps reach, and a quiet rebuild clears it. `reader` is what the `EventReader` covers.

### DomainLifecycle and PersistenceAdapters

`wiring` is everything `init()` decides on: the adapter (a set of parts and of dedicated tables,
as the adapters' constructors produce it), the persistence form of each aggregate, concurrency,
snapshots, and one mistake a definition can contain. One action per group of steps of `init()`, in
their order; each can throw. Then callers run operations, nested ones, rebuilds and reactions, and
`shutdown` goes through its phases: it drains operations and relay until the deadline
(`DrainTimesOut`), then calls close() of the event bus (`CloseEventBus`), which may reject, so that
`shutdown` is `rejected` and the rest stays open, and of every component (`CloseComponent`), whose
errors are swallowed. Nothing makes a close() return, so these steps (`Closes`) have no fairness.

### SharedDatabase, the stores and the lockers

A client is a command, a relay pass, an `EventReader` iteration, a delivery under `withIdempotency`
or a `removeExpired` call; every step is one statement, and the wired adapter's operator
(`D!`, `P!` or `T!`) says what it does and what it makes of the reply. `rows` are the committed rows,
`own` the rows of each open transaction. A statement that would write a row that another open
transaction has written waits. The stores are pure functions from rows to a reply.
`AdvisoryLockers` models, per process, the mutex, the queue of statements on the lock connection and
the session that owns each lock in the database; `LoseSession` frees its locks while the process goes
on believing in them. `LockNames` lets two keys share one database lock name, which hashing and
truncation can produce. Column mapping and JSON are abstracted: a state is read back as written. A timestamp is
not: Drizzle's event idempotency writes UTC digits without a zone, and whoever parses them takes them
in its own, the session's on PostgreSQL, the process's elsewhere (`Zone`, what that zone is ahead of
UTC). `recorded` and `overtaken` are history variables: when a record of an event was made, and the
events of which a delivery deleted a record that had not expired. Drizzle's saga store recognises a
duplicate key by words of the error message; the model takes the messages to be in that language (a
localised one is rethrown as it is, and the command fails with it).

## Runs

| Run | Instance | Shows |
|---|---|---|
| `locking` | 2 units of work of up to 2 commands, 1 command, 2 aggregates, timeouts, failing releases | `MutualExclusion`, `NoOvertaking`, `MutexRefined`; a lock is lost only by a holder whose release rejected (`NoOrphanLock`); with timeouts every client finishes, opposite orders and self-waits included |
| `locking_reaction` | no timeouts, one command per unit of work, a command that reacts to its events | locks are released before events are published, so the reaction is not a deadlock |
| `commands` | 3 calls, two with one command id, 1 retry, a snapshot after every event; four wirings: database, database with an idempotency store outside it, in memory under locks, in memory state-stored without | streams gap-free, snapshots faithful, no lost update, every dispatch settles; effect at most once where a unit of work can undo, records only of committed commands where they are part of it |
| `sagas` | 4 events: two for one atomic instance, one for a best-effort one, one whose atomic reaction sends two commands to one aggregate; 2 aggregates, both buses, 1 fault | `ReactionAllOrNothing`, `StateBeforeCommands`, `DoneTookEffect`, `SagaHistoryRefined`; on a broker every event is handled, except the self-conflicting one, which never commits |
| `outbox` | 1 node, 2 commands (2 events and 1), batch 2, every fault, 1 stop, one event the bus always rejects | no entry marked before delivery, single flight, every other event delivered |
| `brokers` | each bus, 3 messages of one aggregate, the second unparseable, 2 retries, 2 faults, prefetch 2, 3 connections | `DeliveryRefined`; retries are used up by failures only (`ParkedAfterRetries`), a Kafka partition's order survives (`PartitionOrder`), nothing waits for good except where `Excused` says so |
| `reads` | 2 writers, 2 aggregates that feed one view or two, a strong and 2 eventual projections, a log with two legacy events, 2 new events, 2 rebuilds or errors | `StrongViewsCurrent`, `ViewsCurrent`, `SubscribedOnce` |
| `domain` | 2 aggregates, 8 adapters or none, all wirings, 3 callers | `ChoiceHonoured`, `DrainedUnlessTimedOut`; the drains of a shutdown end, and it settles if every close() returns (`ShutdownSettles`) |
| `databases` | up to 4 clients in 2 processes, each adapter: three racing commands on each table; commands under locks (one key, two keys with one lock name, two keys crosswise) with a lost session; relay; reader with pages of 1; three deliveries of one event with a sweeper, or four | `NoLostUpdate`, `ConflictsAreReal`, `LockedRunsAlone`, `OutboxMatchesLog`, `ReadsWhatWasThere`, `RecordsDecide` (`SkipsOnlyHandled` and `RecordsCount`), `EveryCallSettles` |
| `outbox_closedbus`, `sagas_typeorm`, `databases_postgresjs` | violations | see Findings |

Bounds: `MaxAcquires`, `MaxEvents`, `MaxRetries`, `MaxStops`, `MaxFaults`, `MaxMessages`,
`MaxConnections`, `MaxAttempts`, `MaxTroubles`, `MaxLosses`, `MaxTime` and the sizes of the sets.

- Two units of work and two keys are the least that lock in opposite orders, and the third client
  makes a queue of two (FIFO, and a timeout in its middle). Three calls are two duplicates and a
  third party that makes them conflict; one retry is exhausted by two winners.
- Two events of one saga instance race for its version, and each of the three instances shares an
  aggregate with another; one fault is enough for a failure at every point of every reaction.
- Batch 2 with three entries leaves one for the next batch, and one stop is enough for a crash at
  every point (the proofs cover any number).
- Three messages put an unparseable one between two good ones; with two retries a message can fail
  once and succeed, or fail for good; two faults are a lost connection and a failed attempt to
  come back, and three connections the most that two losses need.
- Two writers overlap in every way a pair can; two troubles are a failed rebuild and the one that
  repairs it, or an error and its rebuild. One writer more repeats these.
- Three commands on one row are one winner, one loser and one that loads in between; pages of one row
  put a page boundary everywhere; three time units pass a time to live of one from both sides, and
  four deliveries are one that records, one that finds the record expired, one that deletes it too
  late, and one more that then handles again.

All calls eventually return and nobody is obliged to make new ones, so the configurations do not
check for deadlock; the liveness properties show that nothing stops early.

Fairness. `LockingFairness`, `FairLifecycleSpec` and `FairSagaSpec`: weak fairness of the started
clients' steps, since the event loop runs every ready continuation and fires every timer, and handlers
terminate (for sagas also because a broker delivers again what was not acknowledged, and
faults are not unending). `OutboxFairness`: the same for running code; a node that went down comes back and its
relay is started; the interval timer's ticks are strongly fair because a tick that meets a
running call is dropped and the next one follows; loads, dispatches of acceptable events and
marks that can succeed again and again succeed at last (a bus or a store that always fails
delivers nothing, and the code promises nothing then). `BusFairness`: the wired bus goes on connecting,
delivering and settling; nobody has to dispatch, to close, or to call `connect()` again after it
failed. `DomainSpec`: the drains of a shutdown, which race a timer, and its last step; operations may hang,
and so may every close(), for which `ShutdownSettles` names its own hypothesis.
`DatabaseSpec`: the clients, a polling locker, and the server for each process's connection; rows and
locks that are free are granted. No caller is obliged to act anywhere.

## Findings

1. `outbox_closedbus`: `drain()` takes the 0 of a busy relay for an empty outbox; the batch it
   did not wait for marks entries after the in-process bus was closed, and their events are lost.
2. `sagas_typeorm`: `TypeORMSagaPersistence.save` compares the version in memory and updates by
   primary key, so of two concurrent saves of a started instance the second silently overwrites
   the first (the same adapter's aggregate store names the version in its UPDATE).
3. `databases_postgresjs`: `DrizzleSagaPersistence.save` does not know the shape in which postgres-js
   reports affected rows, so every saga update on that driver is taken for a conflict.

Met while modelling and not kept as runs; where the models state a precondition, this is why:

- `runUowCompletionHooks` stops at the first rejecting `onSettled` hook, and the locks behind it are
  never released (`uow-completion-hooks.ts:53`, against "`onSettled` hooks always run", line 37). The
  other clients get away by their timeouts only. `NoOrphanLock` excepts the client it happens to.
- `KafkaEventBus` marks only instances of `Error` retriable (`kafka-event-bus.ts:806`). A handler that
  rejects with anything else ends the consumer: the bus goes on accepting messages, and none is
  delivered again, against "message will be redelivered on next poll" (`kafka-event-bus.spec.md:225`).
  `Excused` lists it: without that case TLC shows `EveryMessageSettled` violated.
- `shutdown()` awaits the event bus's close() without a catch (`domain.ts:1299`). When it rejects, so
  does `shutdown()`, and the components are not closed, against "close errors are swallowed"
  (`domain-shutdown.spec.md:88`). No close() has a deadline: when one hangs (Kafka's waits in
  `consumer.stop()` for the handler in hand), so does `shutdown()`. `ShutdownSettles` says what is left.
- `hasProcessed` deletes an expired record by its key, one await after it read it
  (`drizzle/src/event-idempotency.ts:81`, alike in the Prisma and TypeORM stores). A slow delivery so
  deletes the fresh record that another one has made since, and the event is handled again when it is
  next redelivered, within the time to live. `RecordsCount` excepts these events (`overtaken`, which
  the `databases` run reaches): nothing else makes a record count short.
- Drizzle's event idempotency writes UTC digits without a zone (`event-idempotency.ts:17`, against
  "PostgreSQL `TIMESTAMPTZ` parses it as UTC", line 11). East of UTC, in the session on PostgreSQL or
  the process on MySQL and SQLite, records expire early; west of it they count longer than configured.
  `Zone` is 0 in the run; with `Zone = 2`, `RecordsCount` fails.
- An idempotency store outside the database keeps the record of a transaction that rolled back, and
  the retry is skipped (`IdsInTx` in `RecordedWasCommitted`). With `InMemoryUnitOfWork` a duplicate
  that raced past `exists()` changes the aggregate before its record is refused (`Transactional` in
  `EffectAtMostOnce`).
- Sequence numbers of state-stored aggregates repeat, because their version counts commands
  (`metadata-enricher.ts:67`); `SequenceGapFree` is about event-sourced streams.
- As many rejected entries as a batch holds block all later outbox entries (`outbox-relay.ts:100`);
  the `outbox` run has one rejected entry and batches of two.
- Two commands of one atomic reaction (or one `withUnitOfWork`) for the same aggregate never commit,
  since both load the committed version; `EveryEventHandled` states it.
- A strong view that several aggregates feed can lose an update, since both transactions read the old
  view; `StrongViewsCurrent` is about views with one source.
- `off()` shifts the list a dispatch walks through, so the handler behind the removed one misses that
  event. Without an adapter's reader, `rebuildProjection` reads the first aggregate's store that can be
  read, and views fed by others come back empty (`Unreadable`).
- A new Kafka consumer group starts at the end of a partition (`fromBeginning: false`), so what was
  published before its first commit is skipped; the run is of an `Established` group. A second
  `connect()` after a failed one, and a failed `warmup`, leave the Kafka bus without a subscription; a
  failed activation leaves the NATS bus so; a NATS message whose last delivery was cut short by a crash
  is never delivered again. `Excused` lists them.
- On a closed or closing bus: RabbitMQ acknowledges what a consumer of an abandoned connection still
  receives, since the handlers are gone, and may come up connected when `close()` met a dial in
  progress; NATS terminates without a dead-letter copy. `EventDelivery` promises nothing after `close()`.
- `BrokerResilience.maxRetries` documents that messages are discarded; the buses park them.
- A locker's wait on its pinned connection holds up the unlocks behind it, so timeouts can be spurious;
  the wait for the local mutex has no deadline; an error of `release` replaces the result of a command
  that committed.
- `shutdown()` does not wait for reactions to broker deliveries nor for rebuilds, and refuses the
  commands of a unit of work in flight; an `init()` that throws leaves open what it opened
  (`DrainedUnlessTimedOut` is about a domain that ran).

## Proofs

Every theorem is about all values of the constants that satisfy the module's named assumption:
any number of clients, calls, nodes, events, messages, retries and faults. The bounds of the runs
(`Max...`) are constants like the others, so the theorems hold for every bound.

| Module | Theorems (property) |
|---|---|
| `LockingAndRelayProofs` | `LockingTypeCorrect`, `LockingMutualExclusion`, `LockingNoOrphanLock`, `LockingNoOvertaking`, `LockingImplementsMutex` (`MutexRefined`); of `OutboxRelay`: `OutboxTypeCorrect`, `RelaySingleFlight`, `RelayNeverLosesAnEvent` (`MarkedWasDelivered`) |
| `CommandLifecycleProofs` | `LifecycleTypeCorrect`, `LifecycleSequenceGapFree`, `LifecycleSnapshotsFaithful`, `LifecycleEffectAtMostOnce`, `LifecycleRecordedWasCommitted`, `LifecycleImplementsHistory` (`HistoryRefined`) |
| `SagaExecutionProofs` | `SagaTypeCorrect`, `SagaCommittedIsKept`, `SagaReactionAllOrNothing`, `SagaStateBeforeCommands`, `SagaDoneTookEffect`, `SagaImplementsHistory` (`SagaHistoryRefined`), `SelfConflictNeverCommits` |
| `BrokerBusesProofs` | `BrokersParkAfterRetries`, `KafkaPartitionOrder`, `BrokersImplementDelivery` (`DeliveryRefined`) |
| `ReadModelsProofs` | `ReadsSubscribedOnce`, `ReadsStrongViewsCurrent`, `ReadsViewsCurrent` |
| `DomainLifecycleProofs` | `DomainCountsOperations` (`DomainTypeOK`), `DomainChoiceHonoured`, `DomainDrainedUnlessTimedOut` |
| `SharedDatabaseProofs` | `DatabaseLockedRunsAlone`, `DatabaseSkipsOnlyHandled`, `DatabaseRecordsCount`, `DatabaseRecordsDecide`, `DatabaseOutboxMatchesLog` |
| `SharedDatabaseHistoryProofs` | `DatabaseNoLostUpdate`, `DatabaseConflictsAreReal`, `DatabaseReadsWhatWasThere` |

Along which argument:

- Locking (`LockingInv`). `MutualExclusion` is not inductive: a hand-over makes the first waiter a
  holder, so the proof needs that waiters hold nothing of the key, stand in one queue only, once, for
  the key they want; that a lock owed is owed once, by one client; and that a key is locked exactly
  while it is granted or owed. `EveryStepMoves` then shows that a step moves at most one lock, in one
  of three ways, from which `NoOvertaking` and the refinement of `KeyedMutex` follow.
- Commands (`LifecycleInv`). What is stored relates to what a call carries across its awaits: its
  copy is a replay of the stream up to the version it loaded, not the stored state, because others
  save in between. The version check turns that into equality at the commit. Stores only grow, so
  the copies of the other calls stay replays.
- Sagas (`SagaInv`), under the hypothesis `NoRacingCheck`: no two events race for an instance whose
  store checks the version and then writes without it; `sagas_typeorm` is the counterexample without
  it. An atomic attempt has enlisted exactly the commands it has passed, each on a version not ahead of
  the aggregate; a best-effort one has executed exactly those.
- Outbox. `FlightInv`: a working call implies that the flag of its node is up, and there is at most
  one. `DeliveryInv`, under `~InProcessBus` (`outbox_closedbus` is the counterexample without it): a
  call about to mark has delivered its next entry, a command about to mark all of its own.
- Brokers (`BusInv`, one part per bus). RabbitMQ: a message is ready or held by one consumer, and a
  queued delivery is still held while its channel is open, so an acknowledgement takes off the message
  of this very delivery. Kafka: the partition is settled up to the committed offset and untouched
  behind the message in hand. NATS: a loop without a JetStream context belongs to a closed bus. Order
  and delivery are under the hypothesis `Established` (see Findings).
- Read models (`ReadsInv`, from `ReadsAssumption`). The fold over the log is compared with three walks:
  a transaction that holds the strong view it loaded (`StrongInv`), a publication along the bus, before
  whose place the handlers have folded its event in and behind which they have not (`Walk`), and a
  rebuild along the log (`Restored`). Views are covered unless publications overlapped on them
  (`Alone`); a quiet rebuild overlaps with none.
- Domain (`DomainInv`). The code decides by `_activeOperations`; the proof needs that it is the number
  of operations in flight, nested ones included, and what `init()` has opened at each step.
- Databases: locks, deliveries, outbox. First one lemma per statement, over the three adapters at once: which rows `StateSave`,
  `OutboxMarkPublished`, `deleteOlderThan` and the others add, change or remove (`SavedState`,
  `RelayMarkedRows`, `SweptRows`, ...). `LockInv`: within a process the mutex admits one call per key;
  the statements queued on the lock connection are those its calls wait for, one each; a lock name is
  owned by one session, and a session that was never lost owns it exactly as often as calls of its
  process hold it (`CountOK`). The last part is what re-entrant locks and keys that share a name need: an
  unlock must not free what another call still holds. `SkipInv`: a record is there only if a handler
  completed for its key, which does not become false again; a delivery that is about to mark has
  handled. `DatabaseRecordsCount` adds
  that every time at which a record was made is no later than the record that is there, as long as no
  fresh one was deleted by mistake; it is under the hypothesis `ClocksAgree`: a time must not come back earlier
  than it was written (see Findings). `OutboxInv`: an open transaction
  holds entries of its own events only, all of them when it comes to its commit, unpublished; a command
  or relay about to mark has published. Committed rows follow from what the transactions hold.
- Databases: log, conflicts, readers. `HistoryInv`: the event rows of a key are its history, numbered
  from 1 (`EventsTable`), a state row holds all of it and its version; what a command has loaded is a
  prefix, and the whole of it while the version is the current one (`LoadedOK`); what a transaction
  holds of a store is what comes next (`NextRow`), after its save all of it (`Ready`), and no other
  transaction holds such a row (`Exclusive`), because its rows make every other save of the key wait.
  So a commit continues the history where it ends (`CommitKeeps`): no update is lost. A save that meets
  a row it did not expect has loaded less than is committed, which is all that a conflict says
  (`ConflictOK`). Two hypotheses: `Driver # "postgres-js"`, with `databases_postgresjs` as the
  counterexample, and `CommandsDecide`: a command that decides on no event still raises the version of
  a stored state, and who meets that version has a conflict although no event was committed.
  `IdInv`: ids of event rows, committed or not, are given once and grow along every stream, because a
  transaction that has saved has the stream to itself until it commits. `ReaderOK`: the rows read are
  in the order of their ids, and each event that was in the log at the start has been read or is ahead
  of the cursor; a page takes the next ids, none left out (`PageIs`), and a short one means that none
  is ahead. That ids of other streams may commit below the cursor is why the promise is only
  about what was there at the start.

Induction over data. The fold of a log and the upcaster chain are recursive functions, and the library's
induction theorems are out of the provers' reach, but `WFMin` has only sets as parameters: every
non-empty set of naturals has a least element (`LeastElement`), and a least counterexample is refuted.
`FoldDefined` (the fold satisfies its equation), `FoldPrefix` (it depends on the prefix only) and
`UpcastEndsInShape` (from whatever stored version, the chain ends in the current shape) are proved so.
`ORDER BY` is a `CHOOSE` among increasing enumerations: `IncreasingIsIdentity` (the only increasing
function of 1..n onto itself) says what it returns for a stream, and `Enumerated` that for rows with
distinct ids it returns all of them; there the enumeration that must exist is the inverse of a row's rank.

Only model-checked: liveness (`EveryClientFinishes`, `EveryCallReturns`, `EveryEntryDelivered`,
`EveryEventHandled`, `EveryMessageSettled`, `ShutdownSettles`, `EveryCallSettles`), which is beyond the
prover. Every invariant of a passing run is stated by a theorem, under the hypotheses named above.
Row ids come from `serial` when an insert runs, not when it commits, as from a sequence of the
database; `IdInv` starts from that.

## Plan

Done: the modules, runs and theorems above. What would come next is not more of the same but a wider
model: several rebuilds of one projection, a unit of work with several commands whose snapshots are
deferred, and Drizzle's commits on a single synchronous connection, each listed below.

## Not modelled

- Drizzle on a synchronous SQLite connection (`SyncCommitMutex`): all commands share one connection,
  so every statement between BEGIN and COMMIT belongs to the transaction. `SharedDatabase` is about
  databases with a connection per transaction.
- Wall-clock expiry of command idempotency records and the in-memory event idempotency store: Maps with
  the operations of the stores that are modelled.
- Sagas on `InMemoryUnitOfWork`, the deferred snapshots (`onCommitted` hooks) of a unit of work with
  several commands, `close()` of the lockers.
- Two rebuilds of one projection at a time, which the documentation leaves undefined.
- Logging, tracing, type inference, mappers and schema definitions, the NestJS binding, test kits, the
  command line tool, samples: they keep no protocol state.
