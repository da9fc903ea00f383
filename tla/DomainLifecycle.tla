-------------------------- MODULE DomainLifecycle --------------------------
(***************************************************************************)
(* The life of a Domain: init() resolves the wiring step by step and may   *)
(* throw at any of them, operations are counted while they run, and        *)
(* shutdown() drains them before it closes what init() collected. The two  *)
(* drains race a deadline, the calls of close() after them do not.         *)
(*                                                                         *)
(* What a deployment can wire as its persistence adapter is described in   *)
(* PersistenceAdapters.                                                    *)
(***************************************************************************)
EXTENDS Naturals, Sequences, FiniteSets, SequencesExt, PersistenceAdapters

CONSTANTS
    Callers,        \* who calls the domain at a time
    Aggregates,     \* the aggregates of the definition, numbered in its order
    Adapters        \* the adapters a deployment may wire

ASSUME AggregatesAssumption == Aggregates = 1 .. Cardinality(Aggregates) /\ Aggregates # {}

VARIABLES
    wiring,         \* the DomainWiring that init() reads
    stage,          \* the step init() is at, "running" or "failed"
    store,          \* aggregate -> the persistence resolved for it
    reader,         \* rebuildProjection finds an EventReader
    open,           \* the resources init() opened and nobody closed
    components,     \* _allComponents
    active,         \* _activeOperations
    shutdown,       \* the phase of _performShutdown
    timedOut,       \* the drain ended by its deadline
    caller          \* what each caller has in flight

domain == <<wiring, stage, store, reader, open, components, active, shutdown, timedOut,
            caller>>

\* "dedicated" is a factory that asks the adapter for the aggregate's own state table.
Forms == {"omitted", "event-sourced", "state-stored", "dedicated", "factory"}

Wirings == [adapter     : Adapters,
            perAggregate: BOOLEAN,
            persistence : [Aggregates -> Forms],
            concurrency : {"optimistic", "pessimistic", "ownLocker"},
            snapshots   : {"none", "own", "strategyOnly"},
            mistake     : {"none", "unknownAggregate", "strongUnwired", "badChain",
                            "commandTwice", "queryTwice"}]

\* wireDomain: a global AggregateWiring gives every aggregate the same persistence, and
\* names no aggregate.
isGlobalAggregateWiring(w) ==
    /\ \A a, b \in Aggregates : w.persistence[a] = w.persistence[b]
    /\ w.mistake # "unknownAggregate"

\* What is left of the wiring once init() has returned: nothing reads it again.
Consumed == [adapter |-> NoAdapter, perAggregate |-> FALSE,
             persistence |-> [a \in Aggregates |-> "omitted"],
             concurrency |-> "optimistic", snapshots |-> "none", mistake |-> "none"]

DomainInit ==
    /\ wiring \in {w \in Wirings : ~w.perAggregate => isGlobalAggregateWiring(w)}
    /\ stage = "adapter"
    /\ store = [a \in Aggregates |-> "none"]
    /\ reader = FALSE
    /\ open = {}
    /\ components = <<>>
    /\ active = 0
    /\ shutdown = "no"
    /\ timedOut = FALSE
    /\ caller = [c \in Callers |-> "idle"]

-----------------------------------------------------------------------------
\* init()

HasAdapter == isPersistenceAdapter(wiring.adapter)
Provides(part) == part \in wiring.adapter.parts

Proceed(next) == stage' = next
Throw == stage' = "failed"

\* Step 0.6: adapter.init(). An adapter with a close() holds a resource; in-memory stores,
\* the fallback, do not.
InitAdapter ==
    /\ stage = "adapter"
    /\ \/ /\ open' = IF Provides("close") THEN {"adapter"} ELSE {}
          /\ Proceed("infrastructure")
       \/ /\ Provides("init")
          /\ Throw
          /\ UNCHANGED open
    /\ UNCHANGED <<wiring, store, reader, components, active, shutdown, timedOut, caller>>

\* Steps 1 to 3: the factories of the custom infrastructure and of the buses.
ResolveInfrastructure ==
    /\ stage = "infrastructure"
    /\ \/ /\ open' = open \cup {"infrastructure", "buses"}
          /\ Proceed("persistence")
       \/ Throw /\ UNCHANGED open
    /\ UNCHANGED <<wiring, store, reader, components, active, shutdown, timedOut, caller>>

\* resolveAggregatePersistence: what one wiring value stands for, "error" when it throws.
resolveAggregatePersistence(a, form) ==
    CASE form = "omitted"       -> IF Provides("ss") THEN "adapterSS" ELSE "none"
      [] form = "event-sourced" -> IF Provides("es") THEN "adapterES" ELSE "error"
      [] form = "state-stored"  -> IF Provides("ss") THEN "adapterSS" ELSE "error"
      [] form = "dedicated"     -> IF HasTable(wiring.adapter, a) THEN "dedicated" ELSE "error"
      [] form = "factory"       -> "factory"

\* Step 4. Without an adapter a per-aggregate wiring that resolves some aggregates must
\* resolve all of them; every other gap is filled with in-memory persistence.
Resolution == [a \in Aggregates |-> resolveAggregatePersistence(a, wiring.persistence[a])]
Missing == {a \in Aggregates : Resolution[a] = "none"}

\* Mutant: a shorthand the adapter does not provide counts as omitted.
ResolvePersistenceLenient ==
    /\ stage = "persistence"
    /\ store' = [a \in Aggregates |->
                    IF Resolution[a] \in {"none", "error"} THEN "memory" ELSE Resolution[a]]
    /\ Proceed("stores")
    /\ UNCHANGED <<wiring, reader, open, components, active, shutdown, timedOut, caller>>

ResolvePersistence ==
    /\ stage = "persistence"
    /\ IF \/ wiring.mistake = "unknownAggregate"
          \/ \E a \in Aggregates : Resolution[a] = "error"
          \/ ~HasAdapter /\ Missing # {} /\ Missing # Aggregates
       THEN Throw /\ UNCHANGED store
       ELSE /\ store' = [a \in Aggregates |->
                            IF a \in Missing THEN "memory" ELSE Resolution[a]]
            /\ Proceed("stores")
    /\ UNCHANGED <<wiring, reader, open, components, active, shutdown, timedOut, caller>>

\* Step 4.5: a snapshot strategy needs a store.
SnapshotsUnresolved == wiring.snapshots = "strategyOnly" /\ ~Provides("snapshots")

\* Step 5.6, resolveConcurrency: "pessimistic" needs a locker.
ConcurrencyUnresolved == wiring.concurrency = "pessimistic" /\ ~Provides("locker")

\* Steps 4.5 to 5.8: snapshot stores, saga persistence, unit of work, concurrency,
\* idempotency; the last three fall back to the adapter or to the in-memory ones.
ResolveStores ==
    /\ stage = "stores"
    /\ IF SnapshotsUnresolved \/ ConcurrencyUnresolved THEN Throw ELSE Proceed("views")
    /\ UNCHANGED <<wiring, store, reader, open, components, active, shutdown, timedOut, caller>>

\* Steps 5.9 and 5.7b: a strong projection without a view store is refused.
ResolveViewStores ==
    /\ stage = "views"
    /\ IF wiring.mistake = "strongUnwired" THEN Throw ELSE Proceed("executors")
    /\ UNCHANGED <<wiring, store, reader, open, components, active, shutdown, timedOut, caller>>

\* Steps 5.11 and 5.12: the executors and the relay are built, upcaster chains validated.
CreateExecutors ==
    /\ stage = "executors"
    /\ IF wiring.mistake = "badChain" THEN Throw ELSE Proceed("commands")
    /\ UNCHANGED <<wiring, store, reader, open, components, active, shutdown, timedOut, caller>>

\* InMemoryCommandBus.register, InMemoryQueryBus.register: one handler per name.
Register(mistake, next) == IF wiring.mistake = mistake THEN Throw ELSE Proceed(next)

\* Steps 6 and 7: the commands of the aggregates, then the standalone ones.
RegisterCommandHandlers ==
    /\ stage = "commands"
    /\ Register("commandTwice", "queries")
    /\ UNCHANGED <<wiring, store, reader, open, components, active, shutdown, timedOut, caller>>

\* Steps 8 and 9: the queries of the projections, then the standalone ones.
RegisterQueryHandlers ==
    /\ stage = "queries"
    /\ Register("queryTwice", "listeners")
    /\ UNCHANGED <<wiring, store, reader, open, components, active, shutdown, timedOut, caller>>

\* Steps 10 to 12: every event listener is subscribed before any bus is connected.
SubscribeListeners ==
    /\ stage = "listeners"
    /\ Proceed("connect")
    /\ UNCHANGED <<wiring, store, reader, open, components, active, shutdown, timedOut, caller>>

\* Whether rebuildProjection will find an EventReader: the adapter's, else the first
\* persistence that has a read(), as the in-memory one has and a factory's may have.
EventReader ==
    IF Provides("reader") \/ \E a \in Aggregates : store[a] = "memory" THEN {TRUE}
    ELSE IF \E a \in Aggregates : store[a] = "factory" THEN BOOLEAN
    ELSE {FALSE}

\* Step 13b, then 13: the buses are connected one after the other, and only then is
\* anything remembered for shutdown().
ConnectAndCollect ==
    /\ stage = "connect"
    /\ \/ /\ components' = (IF Provides("close") THEN <<"adapter">> ELSE <<>>)
                               \o <<"infrastructure", "buses">>
          /\ reader' \in EventReader
          /\ Proceed("running")
          /\ wiring' = Consumed
          /\ store' = [a \in Aggregates |-> "none"]
       \/ Throw /\ UNCHANGED <<components, reader, wiring, store>>
    /\ UNCHANGED <<open, active, shutdown, timedOut, caller>>

-----------------------------------------------------------------------------
\* Operations and shutdown()

Running == stage = "running"
\* _acquireOperation
acquireOperation == Running /\ shutdown = "no" /\ active' = active + 1

\* _releaseOperation: the last operation out ends the drain.
releaseOperation ==
    /\ active' = active - 1
    /\ shutdown' = IF active = 1 /\ shutdown = "draining" THEN "relay" ELSE shutdown

\* dispatchCommand, dispatchQuery and withUnitOfWork count from the call to the return.
Operations == {"command", "query", "unitOfWork"}

OperationStarts(c, op) ==
    /\ caller[c] = "idle"
    /\ acquireOperation
    /\ caller' = [caller EXCEPT ![c] = op]
    /\ UNCHANGED <<wiring, stage, store, reader, open, components, shutdown, timedOut>>

\* The operation returns or throws; its finally block gives the count back.
OperationEnds(c) ==
    /\ caller[c] \in Operations
    /\ releaseOperation
    /\ caller' = [caller EXCEPT ![c] = "idle"]
    /\ UNCHANGED <<wiring, stage, store, reader, open, components, timedOut>>

\* The function given to withUnitOfWork dispatches a command, an operation of its own ...
InnerStarts(c) ==
    /\ caller[c] = "unitOfWork"
    /\ acquireOperation
    /\ caller' = [caller EXCEPT ![c] = "innerCommand"]
    /\ UNCHANGED <<wiring, stage, store, reader, open, components, shutdown, timedOut>>

InnerEnds(c) ==
    /\ caller[c] = "innerCommand"
    /\ releaseOperation
    /\ caller' = [caller EXCEPT ![c] = "unitOfWork"]
    /\ UNCHANGED <<wiring, stage, store, reader, open, components, timedOut>>

\* ... which a shutdown refuses although the unit of work around it is in flight: the
\* function throws DomainShutdownError and the unit of work is rolled back.
InnerRefused(c) ==
    /\ caller[c] = "unitOfWork"
    /\ shutdown # "no"
    /\ releaseOperation
    /\ caller' = [caller EXCEPT ![c] = "idle"]
    /\ UNCHANGED <<wiring, stage, store, reader, open, components, timedOut>>

\* rebuildProjection tests _shuttingDown but is not counted; a saga reaction to an event a
\* broker delivers is neither, and starts as long as the bus is open.
UncountedStarts(c, work) ==
    /\ caller[c] = "idle"
    /\ Running
    /\ \/ work = "rebuild" /\ shutdown = "no" /\ reader
       \/ work = "reaction" /\ "buses" \in open
    /\ caller' = [caller EXCEPT ![c] = work]
    /\ UNCHANGED <<wiring, stage, store, reader, open, components, active, shutdown, timedOut>>

UncountedEnds(c) ==
    /\ caller[c] \in {"rebuild", "reaction"}
    /\ caller' = [caller EXCEPT ![c] = "idle"]
    /\ UNCHANGED <<wiring, stage, store, reader, open, components, active, shutdown, timedOut>>

\* shutdown(): a second call returns the promise of the first.
\* Mutant: operations in flight are not waited for.
ShutdownAtOnce ==
    /\ Running
    /\ shutdown = "no"
    /\ shutdown' = "relay"
    /\ UNCHANGED <<wiring, stage, store, reader, open, components, active, timedOut, caller>>

Shutdown ==
    /\ Running
    /\ shutdown = "no"
    /\ shutdown' = IF active > 0 THEN "draining" ELSE "relay"
    /\ UNCHANGED <<wiring, stage, store, reader, open, components, active, timedOut, caller>>

\* Phase 1 ends at its deadline although operations are still in flight.
\* Mutant: the drain has no deadline.
DrainForever == FALSE /\ UNCHANGED domain

DrainTimesOut ==
    /\ shutdown = "draining"
    /\ shutdown' = "relay"
    /\ timedOut' = TRUE
    /\ UNCHANGED <<wiring, stage, store, reader, open, components, active, caller>>

\* Phase 2: the relay is drained, or the rest of the deadline passes.
RelayDrained ==
    /\ shutdown = "relay"
    /\ shutdown' = "bus"
    /\ UNCHANGED <<wiring, stage, store, reader, open, components, active, timedOut, caller>>

\* Phase 3: the event bus is closed. A close() that rejects, as that of a broker's client
\* may, makes shutdown() reject: phase 4 is skipped, the bus may be half closed, and every
\* later call of shutdown() returns the same rejection.
CloseEventBus ==
    /\ shutdown = "bus"
    /\ \/ /\ shutdown' = "closing"
          /\ open' = open \ {"buses"}
       \/ /\ shutdown' = "rejected"
          /\ open' \in {open, open \ {"buses"}}
    /\ UNCHANGED <<wiring, stage, store, reader, components, active, timedOut, caller>>

\* Phase 4: the closeables, last collected first; an error of close() is swallowed, and
\* the resource counts as given up.
CloseComponent ==
    /\ shutdown = "closing"
    /\ components # <<>>
    /\ components' = Front(components)
    /\ open' = open \ {Last(components)}
    /\ UNCHANGED <<wiring, stage, store, reader, active, shutdown, timedOut, caller>>

ShutdownDone ==
    /\ shutdown = "closing"
    /\ components = <<>>
    /\ shutdown' = "done"
    /\ UNCHANGED <<wiring, stage, store, reader, open, components, active, timedOut, caller>>

\* A close() is awaited without a deadline.
Closes == CloseEventBus \/ CloseComponent

ShutdownSteps == DrainTimesOut \/ RelayDrained \/ Closes \/ ShutdownDone

Calls(c) ==
    \/ \E op \in Operations : OperationStarts(c, op)
    \/ OperationEnds(c) \/ InnerStarts(c) \/ InnerEnds(c) \/ InnerRefused(c)
    \/ \E work \in {"rebuild", "reaction"} : UncountedStarts(c, work)
    \/ UncountedEnds(c)

DomainNext ==
    \/ InitAdapter \/ ResolveInfrastructure \/ ResolvePersistence \/ ResolveStores
    \/ ResolveViewStores \/ CreateExecutors
    \/ RegisterCommandHandlers \/ RegisterQueryHandlers \/ SubscribeListeners
    \/ ConnectAndCollect
    \/ \E c \in Callers : Calls(c)
    \/ Shutdown \/ ShutdownSteps

\* Timers fire and shutdown() goes on when what it awaits has settled. Nothing is assumed of
\* operations in flight, nor of close(): that of a bus may wait for a handler for good.
DomainSpec ==
    DomainInit /\ [][DomainNext]_domain /\ WF_domain(DrainTimesOut \/ RelayDrained \/ ShutdownDone)

-----------------------------------------------------------------------------
\* Properties

\* Every variable keeps to its type, and _activeOperations is the number of operations in
\* flight: nothing is released twice or forgotten.
DomainTypeOK ==
    /\ wiring \in Wirings \cup {Consumed}
    /\ store \in [Aggregates -> {"none", "adapterES", "adapterSS", "dedicated", "factory", "memory"}]
    /\ reader \in BOOLEAN
    /\ open \subseteq {"adapter", "infrastructure", "buses"}
    /\ active = Cardinality({c \in Callers : caller[c] \in Operations})
                    + 2 * Cardinality({c \in Callers : caller[c] = "innerCommand"})

\* A persistence form of the wiring is never quietly replaced: past step 4 of init() an
\* aggregate wired "event-sourced" or "state-stored" is on the adapter's store of that
\* kind, one with a dedicated table on that table and one given a factory on its product;
\* in-memory persistence fills omissions only.
ChoiceHonoured ==
    stage \in {"stores", "views", "executors", "commands", "queries", "listeners", "connect"} =>
        \A a \in Aggregates :
            CASE wiring.persistence[a] = "event-sourced" -> store[a] = "adapterES"
              [] wiring.persistence[a] = "state-stored"  -> store[a] = "adapterSS"
              [] wiring.persistence[a] = "dedicated"     -> store[a] = "dedicated"
              [] wiring.persistence[a] = "factory"       -> store[a] = "factory"
              [] wiring.persistence[a] = "omitted"       -> store[a] \in {"adapterSS", "memory"}

\* _performShutdown: the bus and the stores are closed under a command, a query or a unit
\* of work only when the drain ran into its deadline; once shutdown() has resolved nothing
\* is left open.
DrainedUnlessTimedOut ==
    /\ (shutdown \in {"bus", "closing", "done", "rejected"} /\ ~timedOut) =>
           \A c \in Callers : caller[c] \in {"idle", "rebuild", "reaction"}
    /\ shutdown = "done" => open = {}

\* The two drains end whatever the operations and the relay do: each races the deadline. Past
\* them shutdown() settles, if every close() it awaits returns: there a close() that does not
\* is waited for without end (domain.ts, _performShutdown).
ShutdownSettles ==
  /\ (shutdown # "no") ~> (shutdown \notin {"no", "draining", "relay"})
  /\ WF_domain(Closes) => ((shutdown # "no") ~> (shutdown \in {"done", "rejected"}))
=============================================================================
