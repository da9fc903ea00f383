--------------------------- MODULE SagaExecution ---------------------------
(***************************************************************************)
(* SagaExecutor.execute for events delivered concurrently:                 *)
(*                                                                         *)
(*   atomic:      load -> handle -> dispatch the reaction's commands, each *)
(*                enlisting its save in the saga's unit of work -> commit  *)
(*                -> publish the deferred events                           *)
(*   best-effort: load -> handle -> commit the saga's state -> dispatch    *)
(*                the commands, each in a unit of work of its own          *)
(*                                                                         *)
(* The state of a saga instance is the sequence of deliveries absorbed in  *)
(* it, the state of an aggregate the sequence of events its commands made  *)
(* (one per command); the version of either is its length.  Units of work  *)
(* are database transactions.  Locks and completion hooks are modelled in  *)
(* AggregateLocking; a command with its own unit of work is the promise of *)
(* CommandLifecycle (HistoryRefined): it is decided on the latest history. *)
(*                                                                         *)
(* The bus is a broker that redelivers what was not acknowledged (RabbitMQ *)
(* and NATS without maxRetries) or EventEmitterEventBus, which logs the    *)
(* failure of a handler and goes on.                                       *)
(***************************************************************************)
EXTENDS Naturals, Sequences, FiniteSets

CONSTANTS
  Deliveries,   \* events delivered to sagas
  Instances,    \* saga instances
  Aggregates,
  InstanceOf,   \* the instance an event belongs to (onEntry.id)
  Starters,     \* the events named in startedBy
  Commands,     \* the targets of the commands of the reaction, in order
  Atomic,       \* instances of atomic sagas; the others are best-effort
  CheckThenWrite,
                \* instances whose store reads the version, then writes (TypeORM)
  Buses,        \* subset of {"broker", "inprocess"}
  MaxFaults     \* bound: handler errors, broken commits and publishes, crashes

ASSUME SagaAssumption ==
  /\ InstanceOf \in [Deliveries -> Instances]
  /\ Commands \in [Deliveries -> Seq(Aggregates)]
  /\ Starters \subseteq Deliveries /\ Atomic \subseteq Instances
  /\ CheckThenWrite \subseteq Instances
  /\ Instances \cap Aggregates = {}
  /\ Buses \subseteq {"broker", "inprocess"} /\ Buses # {}
  /\ MaxFaults \in Nat

VARIABLES
  saga,       \* what each saga instance absorbed; << >>: load returns null
  aggs,       \* the events of each aggregate
  bus,        \* the event bus of this deployment
  pc,         \* stage of each delivery
  commits,    \* how many units of work of the delivery's saga committed
  local,      \* local state of its current attempt
  published,  \* deferred events handed to the bus
  faults

sagaVars == <<saga, aggs, bus, pc, commits, local, published, faults>>

\* Which delivery, which of its committed attempts, which of its commands
\* (0: the saga's own state) wrote it, and how much history the writer had seen.
Entry == [by : Deliveries, try : Nat, pos : Nat, saw : Nat]

\* The saga's version that was loaded; the next command to dispatch; the events
\* the commands enlisted for commit, per aggregate in the order of their saves.
Local == [version : Nat, next : Nat, writes : [Aggregates -> Seq(Entry)]]
NoLocal == [version |-> 0, next |-> 1, writes |-> [a \in Aggregates |-> << >>]]

Stages == {"idle", "handle", "dispatch", "commit", "write", "publish",
           "done", "ignored", "lost"}

SagaTypeOK ==
  /\ saga \in [Instances -> Seq(Entry)]
  /\ aggs \in [Aggregates -> Seq(Entry)]
  /\ bus \in Buses
  /\ pc \in [Deliveries -> Stages]
  /\ commits \in [Deliveries -> Nat]
  /\ local \in [Deliveries -> Local]
  /\ \A d \in Deliveries : pc[d] = "dispatch" => local[d].next <= Len(Commands[d])
  /\ published \subseteq Entry
  /\ faults \in 0..MaxFaults

SagaInit ==
  /\ saga = [s \in Instances |-> << >>]
  /\ aggs = [a \in Aggregates |-> << >>]
  /\ bus \in Buses
  /\ pc = [d \in Deliveries |-> "idle"]
  /\ commits = [d \in Deliveries |-> 0]
  /\ local = [d \in Deliveries |-> NoLocal]
  /\ published = {}
  /\ faults = 0

-----------------------------------------------------------------------------
Elements(s) == {s[i] : i \in 1..Len(s)}

IsAtomic(d) == InstanceOf[d] \in Atomic

\* The stage once k commands of d were dispatched: more of them, or `last`.
AfterCommands(d, k, last) == IF k < Len(Commands[d]) THEN "dispatch" ELSE last

NextTarget(d) == Commands[d][local[d].next]

Goto(d, stage) == pc' = [pc EXCEPT ![d] = stage]

\* The event that the next command of d produces, decided on n events.
Produced(d, try, n) == [by |-> d, try |-> try, pos |-> local[d].next, saw |-> n]

\* Mutant: the failure is swallowed and the delivery is acknowledged.
RejectsSwallowed(d) ==
  /\ Goto(d, "done")
  /\ UNCHANGED local

\* Mutant: the event was acknowledged before the handler ran.
RejectsAcknowledged(d) ==
  /\ Goto(d, "lost")
  /\ local' = [local EXCEPT ![d] = NoLocal]

\* execute() rejects: a broker redelivers the event, the in-process bus logs.
Rejects(d) ==
  /\ Goto(d, IF bus = "broker" THEN "idle" ELSE "lost")
  /\ local' = [local EXCEPT ![d] = NoLocal]

-----------------------------------------------------------------------------
\* Bootstrap or resume; an instance that has not started ignores other events.
LoadSaga(d) ==
  /\ pc[d] = "idle"
  /\ Goto(d, IF saga[InstanceOf[d]] = << >> /\ d \notin Starters THEN "ignored" ELSE "handle")
  /\ local' = [local EXCEPT ![d] = [NoLocal EXCEPT !.version = Len(saga[InstanceOf[d]])]]
  /\ UNCHANGED <<saga, aggs, bus, commits, published, faults>>

\* Mutant: best-effort dispatches its commands before the state is committed.
HandleCommandsFirst(d) ==
  /\ pc[d] = "handle"
  /\ Goto(d, AfterCommands(d, 0, "commit"))
  /\ UNCHANGED <<saga, aggs, bus, commits, local, published, faults>>

\* The handler returns the reaction; save() of the saga's state is enlisted.
Handle(d) ==
  /\ pc[d] = "handle"
  /\ Goto(d, IF IsAtomic(d) THEN AfterCommands(d, 0, "commit") ELSE "commit")
  /\ UNCHANGED <<saga, aggs, bus, commits, local, published, faults>>

\* Mutant: the command does not find the saga's unit of work and commits alone.
EnlistCommandOwnUow(d) ==
  /\ pc[d] = "dispatch" /\ IsAtomic(d)
  /\ aggs' = [aggs EXCEPT ![NextTarget(d)] =
                Append(@, Produced(d, commits[d] + 1, Len(@)))]
  /\ local' = [local EXCEPT ![d].next = @ + 1]
  /\ Goto(d, AfterCommands(d, local[d].next, "commit"))
  /\ UNCHANGED <<saga, bus, commits, published, faults>>

\* Atomic: the command finds the saga's unit of work (explicit-UoW path). It loads
\* the committed history, decides, and enlists the save; nothing is written yet.
EnlistCommand(d) ==
  /\ pc[d] = "dispatch" /\ IsAtomic(d)
  /\ Goto(d, AfterCommands(d, local[d].next, "commit"))
  /\ LET a == NextTarget(d)
         e == Produced(d, commits[d] + 1, Len(aggs[a]))
     IN local' = [local EXCEPT ![d].next = @ + 1, ![d].writes[a] = Append(@, e)]
  /\ UNCHANGED <<saga, aggs, bus, commits, published, faults>>

-----------------------------------------------------------------------------
(* Commit of the saga's unit of work.                                      *)

\* Mutant: save() overwrites the stored state whatever its version.
SagaConflictsNever(d) == FALSE

\* save(expectedVersion) of the saga's state.  The UPDATE of TypeORM's store names
\* the instance but not the version it read before; only its INSERT can conflict.
SagaConflicts(d) ==
  LET stored == saga[InstanceOf[d]]
  IN IF pc[d] = "write" THEN local[d].version = 0 /\ stored # << >>
     ELSE Len(stored) # local[d].version

\* TypeORM: findOne() in the transaction finds the expected version.
CheckVersion(d) ==
  /\ pc[d] = "commit" /\ InstanceOf[d] \in CheckThenWrite
  /\ ~SagaConflicts(d)
  /\ Goto(d, "write")
  /\ UNCHANGED <<saga, aggs, bus, commits, local, published, faults>>

\* Each save expects the version its command loaded, also when an earlier save of
\* the same unit of work has just moved it.
WriteConflicts(d) ==
  \E a \in Aggregates : \E i \in 1..Len(local[d].writes[a]) :
    local[d].writes[a][i].saw # Len(aggs[a]) + i - 1

Conflicts(d) == SagaConflicts(d) \/ WriteConflicts(d)

\* A ConcurrencyError is not retried here; it propagates like any other failure.
CommitConflict(d) ==
  /\ pc[d] \in {"commit", "write"}
  /\ Conflicts(d)
  /\ Rejects(d)
  /\ UNCHANGED <<saga, aggs, bus, commits, published, faults>>

\* The state computed from the one that was loaded replaces what is stored.
Absorb(d) ==
  saga' = [saga EXCEPT ![InstanceOf[d]] =
             Append(SubSeq(@, 1, local[d].version),
                    [by |-> d, try |-> commits[d] + 1, pos |-> 0, saw |-> local[d].version])]

\* The saga's state and every enlisted write, in one transaction.
Commit(d) ==
  /\ pc[d] = IF InstanceOf[d] \in CheckThenWrite THEN "write" ELSE "commit"
  /\ ~Conflicts(d)
  /\ Absorb(d)
  /\ aggs' = [a \in Aggregates |-> aggs[a] \o local[d].writes[a]]
  /\ commits' = [commits EXCEPT ![d] = @ + 1]
  /\ Goto(d, IF IsAtomic(d) THEN "publish" ELSE AfterCommands(d, 0, "done"))
  /\ UNCHANGED <<bus, local, published, faults>>

-----------------------------------------------------------------------------
(* After the commit.                                                       *)

\* Best-effort: the next command, in a unit of work of its own.
DispatchCommand(d) ==
  /\ pc[d] = "dispatch" /\ ~IsAtomic(d)
  /\ Goto(d, AfterCommands(d, local[d].next, "done"))
  /\ aggs' = [aggs EXCEPT ![NextTarget(d)] = Append(@, Produced(d, commits[d], Len(@)))]
  /\ local' = [local EXCEPT ![d].next = @ + 1]
  /\ UNCHANGED <<saga, bus, commits, published, faults>>

\* Atomic: the deferred events go to the bus one by one, then execute() returns.
Unpublished(d) ==
  UNION {Elements(local[d].writes[a]) : a \in Aggregates} \ published

Publish(d) ==
  /\ pc[d] = "publish"
  /\ \/ Unpublished(d) = {} /\ Goto(d, "done") /\ UNCHANGED published
     \/ \E e \in Unpublished(d) :
          /\ \A f \in Unpublished(d) : e.pos <= f.pos
          /\ published' = published \cup {e}
          /\ UNCHANGED pc
  /\ UNCHANGED <<saga, aggs, bus, commits, local, faults>>

-----------------------------------------------------------------------------
\* The handler or a command throws, a commit or a publish breaks, the process dies:
\* the open transaction is rolled back, what was committed stays.
Fault(d) ==
  /\ pc[d] \in {"handle", "dispatch", "commit", "write", "publish"}
  /\ faults < MaxFaults
  /\ faults' = faults + 1
  /\ Rejects(d)
  /\ UNCHANGED <<saga, aggs, bus, commits, published>>

ExecutorStep(d) ==
  \/ LoadSaga(d) \/ Handle(d) \/ EnlistCommand(d)
  \/ CheckVersion(d) \/ CommitConflict(d) \/ Commit(d)
  \/ DispatchCommand(d) \/ Publish(d)

SagaNext == \E d \in Deliveries : ExecutorStep(d) \/ Fault(d)

SagaSpec == SagaInit /\ [][SagaNext]_sagaVars

\* Every await settles, and a broker delivers what is not acknowledged.
FairSagaSpec == SagaSpec /\ \A d \in Deliveries : WF_sagaVars(ExecutorStep(d))

-----------------------------------------------------------------------------
(* Properties.                                                             *)

\* Attempt t of d took effect on its saga instance.
Absorbed(d, t) == \E e \in Elements(saga[InstanceOf[d]]) : e.by = d /\ e.try = t

\* The commands of d that took effect for its attempt t.
Executed(d, t) ==
  {k \in 1..Len(Commands[d]) :
     \E e \in Elements(aggs[Commands[d][k]]) : e.by = d /\ e.try = t /\ e.pos = k}

\* An atomic reaction takes effect as a whole or not at all, whatever faults and
\* concurrent sagas it meets: the transition is stored exactly when every command
\* of the reaction is.
ReactionAllOrNothing ==
  \A d \in Deliveries : IsAtomic(d) =>
    \A t \in 1..commits[d] + 1 :
      Executed(d, t) = IF Absorbed(d, t) THEN 1..Len(Commands[d]) ELSE {}

\* A command of a best-effort reaction finds the saga's transition committed, and
\* the commands took effect in order: a failure leaves a prefix of them.
StateBeforeCommands ==
  \A d \in Deliveries : ~IsAtomic(d) =>
    \A t \in 0..commits[d] :
      /\ Executed(d, t) # {} => Absorbed(d, t)
      /\ Executed(d, t) = 1..Cardinality(Executed(d, t))

\* An event is acknowledged only after its reaction took full effect: no failure,
\* conflict or crash makes the broker drop it half done.
DoneTookEffect ==
  \A d \in Deliveries : pc[d] = "done" =>
    Absorbed(d, commits[d]) /\ Executed(d, commits[d]) = 1..Len(Commands[d])

\* A transition whose save() went through stays part of the saga's state: save()
\* throws if the stored version is not the expected one (core/persistence/index.ts).
CommittedIsKept ==
  \A d \in Deliveries : \A t \in 1..commits[d] : Absorbed(d, t)

\* Saga instances and aggregates alike: nothing is overwritten, and every
\* transition and command is decided on all that precedes it, although an atomic
\* unit of work writes several of them.
History == INSTANCE AggregateHistory WITH
  Calls <- Deliveries, Records <- Instances \cup Aggregates,
  history <- [r \in Instances \cup Aggregates |->
                IF r \in Instances THEN saga[r] ELSE aggs[r]]

SagaHistoryRefined == History!HistorySpec

\* Two commands of one atomic reaction for the same aggregate: both load the same
\* version, so the second save always conflicts.
SelfConflicting(d) ==
  IsAtomic(d) /\ \E i, j \in 1..Len(Commands[d]) : i # j /\ Commands[d][i] = Commands[d][j]

\* With a broker every event is eventually handled or ignored, except one whose
\* reaction conflicts with itself, which never takes effect.
EveryEventHandled ==
  \A d \in Deliveries :
    IF SelfConflicting(d) THEN [](commits[d] = 0)
    ELSE bus = "broker" => <>(pc[d] \in {"done", "ignored"})
=============================================================================
