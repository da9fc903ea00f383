-------------------------- MODULE CommandLifecycle --------------------------
(***************************************************************************)
(* CommandLifecycleExecutor.execute for concurrent dispatches outside an   *)
(* explicit unit of work (the implicit-UoW path):                          *)
(*                                                                         *)
(*   idempotency fast path -> lock (pessimistic) -> load snapshot -> load  *)
(*   events or state -> decide -> commit the unit of work -> retry on a    *)
(*   conflict (optimistic) or unlock -> save snapshot -> dispatch events   *)
(*   -> mark the outbox entries                                            *)
(*                                                                         *)
(* Each await of the code is a point where another dispatch may run, so    *)
(* each stage is an action of its own.  The unit of work is either a       *)
(* database transaction (Drizzle, Prisma, TypeORM: all or nothing) or      *)
(* InMemoryUnitOfWork, which runs its operations one by one, without undo. *)
(*                                                                         *)
(* An aggregate's state is the sequence of events folded into it: `evolve` *)
(* is any function of that sequence.  AggregateLocking models the locker;  *)
(* here a lock is its promise, one holder per aggregate.                   *)
(***************************************************************************)
EXTENDS Naturals, Sequences, FiniteSets

CONSTANTS
  Calls,          \* dispatchCommand calls
  Aggregates,     \* aggregate instances
  Ids,            \* command identifiers
  NoId, NoCall, NoAggregate,   \* nulls
  Wirings,        \* the domains considered: see Wiring
  CommandId,      \* the call's commandId, or NoId
  MaxEvents,      \* bound: events a handler returns
  MaxRetries,     \* optimistic strategy: retries after a conflict
  SnapshotEvery   \* everyNEvents(n); 0: no snapshot store

\* target: the aggregate a call addresses, if it is made; locked: aggregates
\* under the pessimistic strategy; sourced: event-sourced aggregates, the others
\* are state-stored; transactional: a database unit of work, or InMemoryUnitOfWork;
\* idsInTx: idempotency records are written in the transaction.
Wiring == [target : [Calls -> Aggregates \cup {NoAggregate}],
           locked : SUBSET Aggregates, sourced : SUBSET Aggregates,
           transactional : BOOLEAN, idsInTx : BOOLEAN]

ASSUME LifecycleAssumption ==
  /\ NoId \notin Ids /\ NoCall \notin Calls /\ NoAggregate \notin Aggregates
  /\ Wirings \subseteq Wiring
  /\ CommandId \in [Calls -> Ids \cup {NoId}]
  /\ MaxEvents \in Nat /\ MaxRetries \in Nat /\ SnapshotEvery \in Nat

VARIABLES
  wiring,      \* the domain
  store,       \* persisted state and version of each aggregate
  writers,     \* history: the calls whose save changed each aggregate
  snap,        \* snapshot store; version 0 stands for "no snapshot"
  processed,   \* idempotency records
  outbox,      \* events of the outbox entries
  marked,      \* those marked published
  dispatched,  \* events handed to the event bus
  lock,        \* holder of each aggregate's lock
  pc, tries,   \* stage and retries of each call
  att,         \* local state of its current attempt
  sent,        \* how many of its events were dispatched
  result       \* what the caller sees

stores == <<store, writers, snap, processed, outbox, marked, dispatched>>
locals == <<pc, tries, att, sent, result>>
lifecycleVars == <<wiring, stores, lock, locals>>

Target == wiring.target
Locked == wiring.locked
Sourced == wiring.sourced
Transactional == wiring.transactional
IdsInTx == wiring.idsInTx

\* An event: the call and attempt that made it (its eventId), its sequenceNumber,
\* and how much history the handler that decided it had seen.
Event == [by : Calls, try : Nat, seq : Nat, saw : Nat]
Versioned == [version : Nat, state : Seq(Event)]
Empty == [version |-> 0, state |-> << >>]

Attempt == [base : Versioned, version : Nat, state : Seq(Event),
            events : Seq(Event), snapshotDue : BOOLEAN]
NoAttempt == [base |-> Empty, version |-> 0, state |-> << >>,
              events |-> << >>, snapshotDue |-> FALSE]

Stages == {"start", "lock", "loadSnapshot", "load", "decide", "commit", "saveId",
           "saveOutbox", "unlock", "saveSnapshot", "publish", "mark", "done"}
Results == {"pending", "ok", "skipped", "failed"}

LifecycleTypeOK ==
  /\ wiring \in Wirings
  /\ store \in [Aggregates -> Versioned]
  /\ writers \in [Aggregates -> SUBSET Calls]
  /\ snap \in [Aggregates -> Versioned]
  /\ processed \subseteq Ids
  /\ outbox \subseteq Event /\ marked \subseteq Event /\ dispatched \subseteq Event
  /\ lock \in [Aggregates -> Calls \cup {NoCall}]
  /\ pc \in [Calls -> Stages]
  /\ tries \in [Calls -> 0..MaxRetries]
  /\ att \in [Calls -> Attempt]
  /\ sent \in [Calls -> Nat]
  /\ result \in [Calls -> Results]

LifecycleInit ==
  /\ wiring \in Wirings
  /\ store = [a \in Aggregates |-> Empty]
  /\ writers = [a \in Aggregates |-> {}]
  /\ snap = [a \in Aggregates |-> Empty]
  /\ processed = {} /\ outbox = {} /\ marked = {} /\ dispatched = {}
  /\ lock = [a \in Aggregates |-> NoCall]
  /\ pc = [c \in Calls |-> IF Target[c] = NoAggregate THEN "done" ELSE "start"]
  /\ tries = [c \in Calls |-> 0]
  /\ att = [c \in Calls |-> NoAttempt]
  /\ sent = [c \in Calls |-> 0]
  /\ result = [c \in Calls |-> "pending"]

-----------------------------------------------------------------------------
Elements(s) == {s[i] : i \in 1..Len(s)}

HasId(c) == CommandId[c] # NoId

EventSourced(c) == Target[c] \in Sourced

IsDuplicate(c) == HasId(c) /\ CommandId[c] \in processed

Goto(c, stage) == pc' = [pc EXCEPT ![c] = stage]

\* The call leaves the strategy, having failed or not: `finally` releases first.
LeaveStrategy(c, res) ==
  /\ result' = [result EXCEPT ![c] = res]
  /\ Goto(c, IF Target[c] \in Locked THEN "unlock"
             ELSE IF res = "failed" THEN "done" ELSE "saveSnapshot")

\* The attempt throws something else than a ConcurrencyError: never retried.
AttemptFails(c) ==
  /\ LeaveStrategy(c, "failed")
  /\ UNCHANGED <<tries, att, sent>>

\* Mutant: one retry too many.
AttemptConflictsOneMore(c) ==
  IF Target[c] \notin Locked /\ tries[c] <= MaxRetries
  THEN /\ tries' = [tries EXCEPT ![c] = @ + 1]
       /\ att' = [att EXCEPT ![c] = NoAttempt]
       /\ Goto(c, "loadSnapshot")
       /\ UNCHANGED <<sent, result>>
  ELSE AttemptFails(c)

\* Mutant: the retry commits again what was decided on the stale state, and is
\* not counted.
AttemptConflictsForever(c) ==
  /\ Goto(c, "commit")
  /\ UNCHANGED <<tries, att, sent, result>>

\* The attempt throws a ConcurrencyError: the optimistic strategy starts over
\* until its retries are used up, the pessimistic one does not retry.
AttemptConflicts(c) ==
  IF Target[c] \notin Locked /\ tries[c] < MaxRetries
  THEN /\ tries' = [tries EXCEPT ![c] = @ + 1]
       /\ att' = [att EXCEPT ![c] = NoAttempt]
       /\ Goto(c, "loadSnapshot")
       /\ UNCHANGED <<sent, result>>
  ELSE AttemptFails(c)

-----------------------------------------------------------------------------
(* Up to the decision.                                                     *)

\* exists(commandId), before the strategy is entered.
CheckIdempotency(c) ==
  /\ pc[c] = "start"
  /\ \/ /\ IsDuplicate(c)
        /\ Goto(c, "done")
        /\ result' = [result EXCEPT ![c] = "skipped"]
     \/ /\ ~IsDuplicate(c)
        /\ Goto(c, IF Target[c] \in Locked THEN "lock" ELSE "loadSnapshot")
        /\ UNCHANGED result
  /\ UNCHANGED <<stores, lock, tries, att, sent>>

AcquireLock(c) ==
  /\ pc[c] = "lock"
  /\ lock[Target[c]] = NoCall
  /\ lock' = [lock EXCEPT ![Target[c]] = c]
  /\ Goto(c, "loadSnapshot")
  /\ UNCHANGED <<stores, tries, att, sent, result>>

\* acquire() rejects with a LockTimeoutError, outside the `try`.
LockTimeout(c) ==
  /\ pc[c] = "lock"
  /\ lock[Target[c]] # NoCall
  /\ Goto(c, "done")
  /\ result' = [result EXCEPT ![c] = "failed"]
  /\ UNCHANGED <<stores, lock, tries, att, sent>>

LoadSnapshot(c) ==
  /\ pc[c] = "loadSnapshot"
  /\ att' = [att EXCEPT ![c].base = snap[Target[c]]]
  /\ Goto(c, "load")
  /\ UNCHANGED <<stores, lock, tries, sent, result>>

\* Event-sourced: loadAfterVersion(snapshot.version), replayed on the snapshot.
\* State-stored: the stored state with its version.
After(stored, version) == SubSeq(stored.state, version + 1, Len(stored.state))

LoadedVersion(c) ==
  IF EventSourced(c)
  THEN att[c].base.version + Len(After(store[Target[c]], att[c].base.version))
  ELSE store[Target[c]].version

\* Mutant: the first event after the snapshot is not replayed.
LoadedStateSkipsOne(c) ==
  IF EventSourced(c)
  THEN att[c].base.state \o After(store[Target[c]], att[c].base.version + 1)
  ELSE store[Target[c]].state

LoadedState(c) ==
  IF EventSourced(c)
  THEN att[c].base.state \o After(store[Target[c]], att[c].base.version)
  ELSE store[Target[c]].state

Load(c) ==
  /\ pc[c] = "load"
  /\ att' = [att EXCEPT ![c].version = LoadedVersion(c), ![c].state = LoadedState(c)]
  /\ Goto(c, "decide")
  /\ UNCHANGED <<stores, lock, tries, sent, result>>

\* Mutant: the index is not shifted.
EnrichedFromVersion(c, n) ==
  [i \in 1..n |-> [by |-> c, try |-> tries[c], seq |-> att[c].version + i - 1,
                   saw |-> Len(att[c].state)]]

\* MetadataEnricher.enrich: sequenceNumber = version + index + 1.
Enriched(c, n) ==
  [i \in 1..n |-> [by |-> c, try |-> tries[c], seq |-> att[c].version + i,
                   saw |-> Len(att[c].state)]]

\* everyNEvents: enough events since the snapshot the attempt started from.
SnapshotDue(c, n) ==
  /\ EventSourced(c) /\ SnapshotEvery > 0
  /\ att[c].version + n - att[c].base.version >= SnapshotEvery

\* The handler returns n events; the operations are enlisted, to run at commit.
Decide(c, n) ==
  /\ pc[c] = "decide"
  /\ att' = [att EXCEPT ![c].events = Enriched(c, n), ![c].snapshotDue = SnapshotDue(c, n)]
  /\ Goto(c, "commit")
  /\ UNCHANGED <<stores, lock, tries, sent, result>>

\* No handler for the command, or the handler throws: rollback.
DecideFails(c) ==
  /\ pc[c] = "decide"
  /\ AttemptFails(c)
  /\ UNCHANGED <<stores, lock>>

-----------------------------------------------------------------------------
(* Commit of the unit of work: save, idempotency record, outbox entries.   *)

\* save() of an event-sourced aggregate ignores an empty batch, version unchecked.
SaveIsNoOp(c) == EventSourced(c) /\ att[c].events = << >>

SaveConflicts(c) ==
  ~SaveIsNoOp(c) /\ store[Target[c]].version # att[c].version

\* Event-sourced: append to the stream.  State-stored: overwrite with the state
\* the attempt computed.
SavedState(c) ==
  IF EventSourced(c) THEN store[Target[c]].state \o att[c].events
  ELSE att[c].state \o att[c].events

SavedVersion(c) ==
  IF EventSourced(c) THEN store[Target[c]].version + Len(att[c].events)
  ELSE att[c].version + 1

SaveAggregate(c) ==
  IF SaveIsNoOp(c) THEN UNCHANGED <<store, writers>>
  ELSE /\ store' = [store EXCEPT ![Target[c]] =
                      [version |-> SavedVersion(c), state |-> SavedState(c)]]
       /\ writers' = [writers EXCEPT ![Target[c]] = @ \cup {c}]

ClaimId(c) == processed' = processed \cup (IF HasId(c) THEN {CommandId[c]} ELSE {})

SaveOutboxEntries(c) == outbox' = outbox \cup Elements(att[c].events)

\* The version check fails: nothing was written, the unit of work is discarded.
CommitConflict(c) ==
  /\ pc[c] = "commit"
  /\ SaveConflicts(c)
  /\ AttemptConflicts(c)
  /\ UNCHANGED <<stores, lock>>

\* Mutant: save() of the idempotency store overwrites an existing record.
CommitTransactionOverwritesId(c) ==
  /\ Transactional
  /\ pc[c] = "commit"
  /\ ~SaveConflicts(c)
  /\ SaveAggregate(c) /\ ClaimId(c) /\ SaveOutboxEntries(c)
  /\ LeaveStrategy(c, "ok")
  /\ UNCHANGED <<snap, marked, dispatched, lock, tries, att, sent>>

\* Database: every operation, in one transaction.
CommitTransaction(c) ==
  /\ Transactional
  /\ pc[c] = "commit"
  /\ ~SaveConflicts(c) /\ ~IsDuplicate(c)
  /\ SaveAggregate(c) /\ ClaimId(c) /\ SaveOutboxEntries(c)
  /\ LeaveStrategy(c, "ok")
  /\ UNCHANGED <<snap, marked, dispatched, lock, tries, att, sent>>

\* Database: the record of the command exists already (IdempotencyConflictError),
\* and the transaction rolls back.
CommitDuplicate(c) ==
  /\ Transactional
  /\ pc[c] = "commit"
  /\ ~SaveConflicts(c) /\ IsDuplicate(c)
  /\ AttemptFails(c)
  /\ UNCHANGED <<stores, lock>>

\* Mutant: the record is written ahead of the transaction.
CommitBreaksAfterClaim(c) ==
  /\ Transactional
  /\ pc[c] = "commit"
  /\ ~SaveConflicts(c) /\ ~IsDuplicate(c)
  /\ ClaimId(c)
  /\ AttemptFails(c)
  /\ UNCHANGED <<store, writers, snap, outbox, marked, dispatched, lock>>

\* Database: a later operation or COMMIT itself fails and all is rolled back,
\* except a record that an idempotency store outside the database has taken.
CommitBreaks(c) ==
  /\ Transactional
  /\ pc[c] = "commit"
  /\ ~SaveConflicts(c) /\ ~IsDuplicate(c)
  /\ IF IdsInTx THEN UNCHANGED processed ELSE ClaimId(c) \/ UNCHANGED processed
  /\ AttemptFails(c)
  /\ UNCHANGED <<store, writers, snap, outbox, marked, dispatched, lock>>

\* In memory: the operations run one after the other.
CommitSave(c) ==
  /\ ~Transactional
  /\ pc[c] = "commit"
  /\ ~SaveConflicts(c)
  /\ SaveAggregate(c)
  /\ Goto(c, "saveId")
  /\ UNCHANGED <<snap, processed, outbox, marked, dispatched, lock, tries, att, sent, result>>

CommitSaveId(c) ==
  /\ pc[c] = "saveId"
  /\ ~IsDuplicate(c)
  /\ ClaimId(c)
  /\ Goto(c, "saveOutbox")
  /\ UNCHANGED <<store, writers, snap, outbox, marked, dispatched, lock, tries, att, sent, result>>

\* IdempotencyConflictError in the middle of an in-memory commit: the rollback
\* throws "already completed" (swallowed) and what was saved stays.
CommitSaveIdConflict(c) ==
  /\ pc[c] = "saveId"
  /\ IsDuplicate(c)
  /\ AttemptFails(c)
  /\ UNCHANGED <<stores, lock>>

CommitSaveOutbox(c) ==
  /\ pc[c] = "saveOutbox"
  /\ SaveOutboxEntries(c)
  /\ LeaveStrategy(c, "ok")
  /\ UNCHANGED <<store, writers, snap, processed, marked, dispatched, lock, tries, att, sent>>

-----------------------------------------------------------------------------
(* After the commit.                                                       *)

Unlock(c) ==
  /\ pc[c] = "unlock"
  /\ lock' = [lock EXCEPT ![Target[c]] = NoCall]
  /\ Goto(c, IF result[c] = "failed" THEN "done" ELSE "saveSnapshot")
  /\ UNCHANGED <<stores, tries, att, sent, result>>

\* Mutant: the version is read when the snapshot is saved.
PendingSnapshotCurrentVersion(c) ==
  [version |-> store[Target[c]].version, state |-> att[c].state \o att[c].events]

\* The snapshot of this attempt replaces whatever is stored.
PendingSnapshot(c) ==
  [version |-> att[c].version + Len(att[c].events), state |-> att[c].state \o att[c].events]

SaveSnapshot(c) ==
  /\ pc[c] = "saveSnapshot"
  /\ att[c].snapshotDue
  /\ snap' = [snap EXCEPT ![Target[c]] = PendingSnapshot(c)]
  /\ Goto(c, "publish")
  /\ UNCHANGED <<store, writers, processed, outbox, marked, dispatched, lock, tries, att, sent, result>>

\* No snapshot is due, or saving it fails, which is ignored.
SkipSnapshot(c) ==
  /\ pc[c] = "saveSnapshot"
  /\ Goto(c, "publish")
  /\ UNCHANGED <<stores, lock, tries, att, sent, result>>

\* eventBus.dispatch of the next event.
Publish(c) ==
  /\ pc[c] = "publish"
  /\ sent[c] < Len(att[c].events)
  /\ dispatched' = dispatched \cup {att[c].events[sent[c] + 1]}
  /\ sent' = [sent EXCEPT ![c] = @ + 1]
  /\ UNCHANGED <<store, writers, snap, processed, outbox, marked, lock, pc, tries, att, result>>

\* The bus rejects: the command rejects although it is committed.
PublishFails(c) ==
  /\ pc[c] = "publish"
  /\ sent[c] < Len(att[c].events)
  /\ Goto(c, "done")
  /\ result' = [result EXCEPT ![c] = "failed"]
  /\ UNCHANGED <<stores, lock, tries, att, sent>>

Published(c) ==
  /\ pc[c] = "publish"
  /\ sent[c] = Len(att[c].events)
  /\ Goto(c, "mark")
  /\ UNCHANGED <<stores, lock, tries, att, sent, result>>

\* onEventsDispatched: markPublishedByEventIds; a failure is ignored.
MarkPublished(c) ==
  /\ pc[c] = "mark"
  /\ \/ marked' = marked \cup (Elements(att[c].events) \cap outbox)
     \/ UNCHANGED marked
  /\ Goto(c, "done")
  /\ UNCHANGED <<store, writers, snap, processed, outbox, dispatched, lock, tries, att, sent, result>>

-----------------------------------------------------------------------------
CallStep(c) ==
  \/ CheckIdempotency(c) \/ AcquireLock(c) \/ LockTimeout(c)
  \/ LoadSnapshot(c) \/ Load(c)
  \/ \E n \in 0..MaxEvents : Decide(c, n)
  \/ DecideFails(c)
  \/ CommitConflict(c) \/ CommitTransaction(c) \/ CommitDuplicate(c) \/ CommitBreaks(c)
  \/ CommitSave(c) \/ CommitSaveId(c) \/ CommitSaveIdConflict(c) \/ CommitSaveOutbox(c)
  \/ Unlock(c) \/ SaveSnapshot(c) \/ SkipSnapshot(c)
  \/ Publish(c) \/ PublishFails(c) \/ Published(c) \/ MarkPublished(c)

Step(c) == CallStep(c) /\ UNCHANGED wiring

LifecycleNext == \E c \in Calls : Step(c)

LifecycleSpec == LifecycleInit /\ [][LifecycleNext]_lifecycleVars

\* Every await settles and every timer fires: the process goes on while some
\* step is enabled.
FairLifecycleSpec == LifecycleSpec /\ WF_lifecycleVars(LifecycleNext)

-----------------------------------------------------------------------------
(* Properties.                                                             *)

\* The events of a stream carry sequence numbers 1, 2, 3... without gap or
\* repetition, whatever snapshots, conflicts and retries their commands met
\* (EventMetadata.sequenceNumber: "Position in the aggregate's event stream").
SequenceGapFree ==
  \A a \in Sourced :
    /\ store[a].version = Len(store[a].state)
    /\ \A i \in 1..Len(store[a].state) : store[a].state[i].seq = i

\* A stored snapshot is the replay of the stream up to its version, even when an
\* older snapshot overwrites a newer one or is saved after a retry, so loading
\* through it is the same as replaying everything.
SnapshotsFaithful ==
  \A a \in Sourced :
    /\ snap[a].version <= Len(store[a].state)
    /\ snap[a].state = SubSeq(store[a].state, 1, snap[a].version)

\* Each aggregate's history grows by whole blocks, each decided on all the
\* history before it: no lost update and no decision on a stale state.
History == INSTANCE AggregateHistory WITH
  Records <- Aggregates, history <- [a \in Aggregates |-> store[a].state]

HistoryRefined == History!HistorySpec

\* Calls with the same command id never both change an aggregate: a command that
\* is delivered twice takes effect at most once, also when the deliveries race
\* past the exists() check.  It takes a unit of work that can undo the save.
EffectAtMostOnce ==
  Transactional => \A a, b \in Aggregates : \A c \in writers[a], d \in writers[b] :
    (HasId(c) /\ CommandId[c] = CommandId[d]) => c = d

\* An idempotency record exists only for a command that went through its commit,
\* so that a skipped duplicate is never a lost command.  It takes an idempotency
\* store that is part of the unit of work.
RecordedWasCommitted ==
  IdsInTx => \A id \in processed :
    \E c \in Calls :
      /\ CommandId[c] = id
      /\ c \in writers[Target[c]] \/ pc[c] = "saveOutbox" \/ result[c] = "ok"

\* Every dispatch settles: retries are bounded and locks are given back.
EveryCallReturns == <>(\A c \in Calls : pc[c] = "done")
=============================================================================
