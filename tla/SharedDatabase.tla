---------------------------- MODULE SharedDatabase --------------------------
(***************************************************************************)
(* Several processes that use one database through a persistence adapter,  *)
(* Drizzle, Prisma or TypeORM, statement by statement:                     *)
(*                                                                         *)
(*   command   [advisory lock ->] load snapshot and events, or the state   *)
(*             -> unit of work: save, save outbox entries, commit or roll  *)
(*             back [-> unlock] -> save snapshot -> publish -> mark the    *)
(*             outbox entries                                              *)
(*   relay     load unpublished entries -> publish -> mark -> delete       *)
(*   reader    an EventReader, page by page                                *)
(*   delivery  an event handler under withIdempotency                      *)
(*   sweeper   removeExpired of the event idempotency store                *)
(*                                                                         *)
(* Transactions run at READ COMMITTED: a statement sees the committed rows *)
(* and its transaction's own, and one that would write a row another open  *)
(* transaction has written waits until that one ends.                      *)
(***************************************************************************)
EXTENDS AdvisoryLockers, SqlStatements, Integers

CONSTANTS
  Workloads,  \* what each client does, with the lockers this is tried with
  EventsOf,   \* the events a client's command produces
  Batch,      \* batch size of the relay
  PageSize, Driver, Zone, Ttl,
  MaxTime     \* bound: clock of the event idempotency records

Stores == {"events", "states", "dedicated", "sagas"}
Kinds == {"command", "relay", "reader", "delivery", "sweeper", "none"}
Jobs == [kind : Kinds, store : Stores, key : LockKeys, locked : BOOLEAN, outbox : BOOLEAN]

ASSUME WorkloadsAssumption ==
  \A w \in Workloads : w.job \in [Clients -> Jobs] /\ w.lockers \subseteq Lockers
\* The ids of events are unique.
ASSUME EventsAssumption ==
  /\ \A c \in Clients : EventsOf[c] \in Seq(ToSet(EventsOf[c]))
  /\ \A c, d \in Clients : c # d => ToSet(EventsOf[c]) \cap ToSet(EventsOf[d]) = {}
ASSUME NumbersAssumption ==
  PageSize \in Nat \ {0} /\ Zone \in Int /\ Ttl \in Nat /\ MaxTime \in Nat

D == INSTANCE DrizzleStores
P == INSTANCE PrismaStores
T == INSTANCE TypeORMStores

VARIABLES
  job,         \* of each client: its kind, its table and key, whether it
               \* locks, and whether the outbox is wired
  rows,        \* committed rows
  serial,      \* last id given to an event row
  own,         \* uncommitted rows of each client's transaction
  pc, result,  \* stage and outcome of each client
  loaded,      \* version and state a command decided on
  found,       \* what a SELECT found: entries, a snapshot, or pages read
  now,         \* clock
  history,     \* history: events committed, by table and key
  published,   \* history: events handed to the event bus
  before,      \* history: at a reader's start, the events in the log; at the
               \* check that lets a delivery through, the ages of the event's
               \* records, whether they are still there or not
  recorded,    \* history: the times at which a record was made of an event
  overtaken    \* history: events of which a delivery deleted a record that
               \* had not expired

dataVars == <<rows, serial, own>>
recordVars == <<recorded, overtaken>>
localVars == <<job, pc, result, loaded, found, now, history, published, before, recordVars>>
databaseVars == <<lockerVars, dataVars, localVars>>

Stages == {"start", "load", "save", "outbox", "commit", "rollback", "unlock", "find",
           "snapshot", "publish", "mark", "cleanup", "read", "expire", "handle", "done"}
Results == {"none", "ok", "conflict", "failed", "rejected", "handled", "skipped"}

Key(c) == wants[c]
Events(c) == EventsOf[c]
Stored == {<<s, k>> : s \in Stores, k \in LockKeys}
Committed == UNION {ToSet(history[sk]) : sk \in Stored}
Logged == UNION {ToSet(history[<<"events", k>>]) : k \in LockKeys}

DatabaseInit ==
  /\ \E w \in Workloads : job = w.job /\ locker \in {l \in w.lockers : Supported(l)}
  /\ LockersInit
  /\ wants = [c \in Clients |-> job[c].key]
  \* TypeORM's saga persistence is modelled in SagaExecution.
  /\ locker.adapter = "typeorm" => \A c \in Clients : job[c].store # "sagas"
  /\ rows = << >> /\ serial = 0 /\ own = [c \in Clients |-> << >>]
  /\ pc = [c \in Clients |-> IF job[c].kind = "none" THEN "done" ELSE "start"]
  /\ result = [c \in Clients |-> "none"]
  /\ loaded = [c \in Clients |-> NoRow]
  /\ found = [c \in Clients |-> << >>]
  /\ now = 0
  /\ history = [sk \in Stored |-> << >>]
  /\ published = {}
  /\ before = [c \in Clients |-> {}]
  /\ recorded = [k \in LockKeys |-> {}] /\ overtaken = {}

\* The adapter's implementation of a method.
By(drizzle, prisma, typeorm) ==
  CASE locker.adapter = "drizzle" -> drizzle
    [] locker.adapter = "prisma" -> prisma
    [] OTHER -> typeorm

\* What c's executor sees: its transaction, or the pool.
Seen(c) == By(D!getExecutor(own[c], rows), P!getExecutor(own[c], rows),
              T!getManager(own[c], rows))

Goto(c, stage) == pc' = [pc EXCEPT ![c] = stage]
Finish(c, outcome) ==
  /\ Goto(c, "done")
  /\ result' = [result EXCEPT ![c] = outcome]
At(c, kind, stage) == job[c].kind = kind /\ pc[c] = stage

\* Rows that another open transaction has written.
Contended(c, pks) == \E d \in Clients \ {c} : pks \cap DOMAIN own[d] # {}

\* A statement outside a transaction commits at once.
Autocommit(reply) == rows' = Apply(rows, reply)
-----------------------------------------------------------------------------
(* Commands *)

\* A locked command runs once its lock is held.
MayRun(c) == job[c].locked => acq[c] = "held"

LoadSnapshot(c) ==
  /\ At(c, "command", "start") /\ MayRun(c) /\ job[c].store = "events"
  /\ loaded' = [loaded EXCEPT ![c] = By(D!SnapshotLoad(rows, Key(c)),
                                        P!SnapshotLoad(rows, Key(c)),
                                        T!SnapshotLoad(rows, Key(c)))]
  /\ Goto(c, "load")
  /\ UNCHANGED <<lockerVars, dataVars, job, result, found, now, history, published, before, recordVars>>

\* The stream after the snapshot, or all of it when there is none.
LoadedStream(c) ==
  LET version == loaded[c].version
      events == IF version = 0
                THEN By(D!EventsLoad(rows, Key(c)), P!EventsLoad(rows, Key(c)),
                        T!EventsLoad(rows, Key(c)))
                ELSE By(D!EventsLoadAfterVersion(rows, Key(c), version),
                        P!EventsLoadAfterVersion(rows, Key(c), version),
                        T!EventsLoadAfterVersion(rows, Key(c), version))
  IN  [version |-> version + Len(events), state |-> loaded[c].state \o events]

LoadedState(c) ==
  CASE job[c].store = "states" -> By(D!StateLoad(rows, Key(c)), P!StateLoad(rows, Key(c)),
                                     T!StateLoad(rows, Key(c)))
    [] job[c].store = "dedicated" -> By(D!DedicatedLoad(rows, Key(c)),
                                        P!DedicatedLoad(rows, Key(c)),
                                        T!DedicatedLoad(rows, Key(c)))
    [] OTHER -> By(D!SagaLoad(rows, Key(c)), P!SagaLoad(rows, Key(c)), NoRow)

Load(c) ==
  /\ \/ /\ At(c, "command", "load")
        /\ loaded' = [loaded EXCEPT ![c] = LoadedStream(c)]
     \/ /\ At(c, "command", "start") /\ MayRun(c) /\ job[c].store # "events"
        /\ loaded' = [loaded EXCEPT ![c] = LoadedState(c)]
  /\ Goto(c, "save")
  /\ UNCHANGED <<lockerVars, dataVars, job, result, found, now, history, published, before, recordVars>>

Saved(c) ==
  LET v == Seen(c)   k == Key(c)   x == loaded[c].version   new == loaded[c].state \o Events(c)
  IN  CASE job[c].store = "events" -> By(D!EventsSave(v, k, Events(c), x, serial),
                                         P!EventsSave(v, k, Events(c), x, serial),
                                         T!EventsSave(v, k, Events(c), x, serial))
        [] job[c].store = "states" -> By(D!StateSave(v, k, new, x), P!StateSave(v, k, new, x),
                                         T!StateSave(v, k, new, x))
        [] job[c].store = "dedicated" -> By(D!DedicatedSave(v, k, new, x),
                                            P!DedicatedSave(v, k, new, x),
                                            T!DedicatedSave(v, k, new, x))
        [] OTHER -> By(D!SagaSave(v, k, new, x), P!SagaSave(v, k, new, x), Refuse)

\* The rows that the save inserts or updates.
SaveTargets(c) ==
  IF job[c].store = "events" THEN DOMAIN EventRows(Key(c), Events(c), loaded[c].version, serial)
  ELSE {<<job[c].store, Key(c)>>}

\* An operation of the unit of work runs, or throws and the unit rolls back.
Operation(c, reply, next) ==
  /\ own' = [own EXCEPT ![c] = Over(reply.new, @)]
  /\ Goto(c, IF reply.error = "none" THEN next ELSE "rollback")
  /\ result' = [result EXCEPT ![c] =
       IF reply.error = "ConcurrencyError" THEN "conflict"
       ELSE IF reply.error # "none" THEN "failed" ELSE @]

Save(c) ==
  /\ At(c, "command", "save")
  /\ ~Contended(c, SaveTargets(c))
  /\ Operation(c, Saved(c), IF job[c].outbox THEN "outbox" ELSE "commit")
  /\ serial' = IF job[c].store = "events" THEN serial + Len(Events(c)) ELSE serial
  /\ UNCHANGED <<lockerVars, rows, job, loaded, found, now, history, published, before, recordVars>>

SaveOutbox(c) ==
  /\ At(c, "command", "outbox")
  /\ LET v == Seen(c) IN
       Operation(c, By(D!OutboxSave(v, Events(c), serial), P!OutboxSave(v, Events(c), serial),
                       T!OutboxSave(v, Events(c), serial)), "commit")
  /\ UNCHANGED <<lockerVars, rows, serial, job, loaded, found, now, history, published, before, recordVars>>

\* The outbox insert, or another operation after the save, fails.
OperationFails(c) ==
  /\ At(c, "command", "outbox")
  /\ Operation(c, Raise("driver error"), "commit")
  /\ UNCHANGED <<lockerVars, rows, serial, job, loaded, found, now, history, published, before, recordVars>>

Settled(c, failed) ==
  /\ rows' = By(D!UnitOfWorkCommit(own[c], rows, failed), P!UnitOfWorkCommit(own[c], rows, failed),
                T!UnitOfWorkCommit(own[c], rows, failed))
  /\ own' = [own EXCEPT ![c] = << >>]

AfterCommit(c) == IF job[c].store = "events" THEN "find" ELSE "publish"

Commit(c) ==
  /\ At(c, "command", "commit")
  /\ Settled(c, FALSE)
  /\ history' = [history EXCEPT ![<<job[c].store, Key(c)>>] = @ \o Events(c)]
  /\ Goto(c, IF job[c].locked THEN "unlock" ELSE AfterCommit(c))
  /\ UNCHANGED <<lockerVars, serial, job, result, loaded, found, now, published, before, recordVars>>

Rollback(c) ==
  /\ At(c, "command", "rollback")
  /\ Settled(c, TRUE)
  /\ Goto(c, IF job[c].locked THEN "unlock" ELSE "done")
  /\ UNCHANGED <<lockerVars, serial, job, result, loaded, found, now, history, published, before, recordVars>>
-----------------------------------------------------------------------------
(* After the commit: best effort *)

\* First statement of the snapshot store's save.
FindSnapshot(c) ==
  /\ At(c, "command", "find")
  /\ found' = [found EXCEPT ![c] = <<(<<"snapshots", Key(c)>> \in DOMAIN rows)>>]
  /\ Goto(c, "snapshot")
  /\ UNCHANGED <<lockerVars, dataVars, job, result, loaded, now, history, published, before, recordVars>>

\* A duplicate key, or any other failure, is swallowed.
SaveSnapshot(c) ==
  /\ At(c, "command", "snapshot")
  /\ LET events == loaded[c].state \o Events(c)
         s == [version |-> Len(events), state |-> events]
         existing == found[c][1]
     IN  Autocommit(By(D!SnapshotSave(rows, Key(c), s, existing),
                       P!SnapshotSave(rows, Key(c), s, existing),
                       T!SnapshotSave(rows, Key(c), s, existing)))
  /\ Goto(c, "publish")
  /\ UNCHANGED <<lockerVars, serial, own, job, result, loaded, found, now, history, published, before, recordVars>>

Publish(c) ==
  /\ At(c, "command", "publish")
  /\ published' = published \cup ToSet(Events(c))
  /\ IF job[c].outbox THEN Goto(c, "mark") /\ UNCHANGED result ELSE Finish(c, "ok")
  /\ UNCHANGED <<lockerVars, dataVars, job, loaded, found, now, history, before, recordVars>>

MarkByEventIds(c) ==
  /\ At(c, "command", "mark")
  /\ Autocommit(By(D!OutboxMarkPublishedByEventIds(rows, Events(c)),
                   P!OutboxMarkPublishedByEventIds(rows, Events(c)),
                   T!OutboxMarkPublishedByEventIds(rows, Events(c))))
  /\ Finish(c, "ok")
  /\ UNCHANGED <<lockerVars, serial, own, job, loaded, found, now, history, published, before, recordVars>>
-----------------------------------------------------------------------------
(* The advisory lock around a command *)

TakeLock(c) == job[c].locked /\ pc[c] = "start" /\ Acquire(c) /\ UNCHANGED <<dataVars, localVars>>
AskAgain(c) == PollAgain(c) /\ UNCHANGED <<dataVars, localVars>>
GiveUp(c) == DeadlinePassed(c) /\ UNCHANGED <<dataVars, localVars>>
DropLock(c) == pc[c] = "unlock" /\ Release(c) /\ UNCHANGED <<dataVars, localVars>>

\* acquire() threw: the command fails before anything was loaded.
LockRefused(c) ==
  /\ pc[c] = "start" /\ acq[c] = "rejected"
  /\ Finish(c, "rejected")
  /\ UNCHANGED <<lockerVars, dataVars, job, loaded, found, now, history, published, before, recordVars>>

\* release() ended; an error it threw replaces the command's result, and what
\* follows the commit is skipped.
LockReturned(c) ==
  /\ pc[c] = "unlock"
  /\ \/ /\ acq[c] = "released" /\ result[c] = "none"
        /\ Goto(c, AfterCommit(c))
        /\ UNCHANGED result
     \/ /\ acq[c] = "released" /\ result[c] # "none"
        /\ Goto(c, "done")
        /\ UNCHANGED result
     \/ /\ acq[c] = "releaseFailed"
        /\ Finish(c, IF result[c] = "none" THEN "failed" ELSE result[c])
  /\ UNCHANGED <<lockerVars, dataVars, job, loaded, found, now, history, published, before, recordVars>>
-----------------------------------------------------------------------------
(* The relay, an event reader *)

RelayLoad(c) ==
  /\ At(c, "relay", "start")
  /\ \E batch \in By(D!OutboxLoadUnpublished(rows, Batch), P!OutboxLoadUnpublished(rows, Batch),
                     T!OutboxLoadUnpublished(rows, Batch)) :
       found' = [found EXCEPT ![c] = <<batch>>]
  /\ Goto(c, "publish")
  /\ UNCHANGED <<lockerVars, dataVars, job, result, loaded, now, history, published, before, recordVars>>

RelayPublish(c) ==
  /\ At(c, "relay", "publish")
  /\ published' = published \cup {pk[2] : pk \in found[c][1]}
  /\ Goto(c, "mark")
  /\ UNCHANGED <<lockerVars, dataVars, job, result, loaded, found, now, history, before, recordVars>>

RelayMark(c) ==
  /\ At(c, "relay", "mark")
  /\ LET pks == found[c][1] IN
       Autocommit(By(D!OutboxMarkPublished(rows, pks), P!OutboxMarkPublished(rows, pks),
                     T!OutboxMarkPublished(rows, pks)))
  /\ Goto(c, "cleanup")
  /\ UNCHANGED <<lockerVars, serial, own, job, result, loaded, found, now, history, published, before, recordVars>>

RelayCleanup(c) ==
  /\ At(c, "relay", "cleanup")
  /\ Autocommit(By(D!OutboxDeletePublished(rows), P!OutboxDeletePublished(rows),
                   T!OutboxDeletePublished(rows)))
  /\ Finish(c, "ok")
  /\ UNCHANGED <<lockerVars, serial, own, job, loaded, found, now, history, published, before, recordVars>>

ReadBegins(c) ==
  /\ At(c, "reader", "start")
  /\ before' = [before EXCEPT ![c] = Logged]
  /\ Goto(c, "read")
  /\ UNCHANGED <<lockerVars, dataVars, job, result, loaded, found, now, history, published, recordVars>>

\* One page, after the id of the last row read; a short page is the last.
ReadPage(c) ==
  /\ At(c, "reader", "read")
  /\ LET cursor == IF found[c] = << >> THEN 0 ELSE rows[Last(found[c])].id
         page == By(D!EventReaderPage(rows, cursor), P!EventReaderPage(rows, cursor),
                    T!EventReaderPage(rows, cursor))
     IN  /\ found' = [found EXCEPT ![c] = @ \o page]
         /\ IF Len(page) < PageSize THEN Finish(c, "ok") ELSE UNCHANGED <<pc, result>>
  /\ UNCHANGED <<lockerVars, dataVars, job, loaded, now, history, published, before, recordVars>>
-----------------------------------------------------------------------------
(* withIdempotency *)

Record(c) == <<"processed", Key(c)>>
Ages(k) == {now - t : t \in recorded[k]}

\* hasProcessed: no record, an expired one, or one that makes the event a duplicate.
Check(c) ==
  /\ At(c, "delivery", "start")
  /\ LET expired == By(D!Expired(rows, Key(c), now), P!Expired(rows, Key(c), now),
                       T!Expired(rows, Key(c), now))
     IN  \/ /\ Record(c) \notin DOMAIN rows
            /\ before' = [before EXCEPT ![c] = Ages(Key(c))]
            /\ Goto(c, "handle") /\ UNCHANGED result
         \/ /\ Record(c) \in DOMAIN rows /\ expired
            /\ before' = [before EXCEPT ![c] = Ages(Key(c))]
            /\ Goto(c, "expire") /\ UNCHANGED result
         \/ /\ Record(c) \in DOMAIN rows /\ ~expired
            /\ Finish(c, "skipped") /\ UNCHANGED before
  /\ UNCHANGED <<lockerVars, dataVars, job, loaded, found, now, history, published, recordVars>>

\* The row is deleted by its key alone: by now it may be another one, made since.
DeleteExpired(c) ==
  /\ At(c, "delivery", "expire")
  /\ Autocommit(DELETE(rows, {Record(c)}))
  /\ overtaken' = IF Record(c) \in DOMAIN rows /\ now - rows[Record(c)].at <= Ttl
                  THEN overtaken \cup {Key(c)} ELSE overtaken
  /\ Goto(c, "handle")
  /\ UNCHANGED <<lockerVars, serial, own, job, result, loaded, found, now, history, published, before, recorded>>

\* Mutant: the record is made although the handler has failed.
HandleAndRecordAlways(c) ==
  /\ At(c, "delivery", "handle")
  /\ \/ Goto(c, "mark") /\ result' = [result EXCEPT ![c] = "handled"]
     \/ Goto(c, "mark") /\ result' = [result EXCEPT ![c] = "failed"]
  /\ UNCHANGED <<lockerVars, dataVars, job, loaded, found, now, history, published, before, recordVars>>

Handle(c) ==
  /\ At(c, "delivery", "handle")
  /\ \/ Goto(c, "mark") /\ result' = [result EXCEPT ![c] = "handled"]
     \/ Finish(c, "failed")
  /\ UNCHANGED <<lockerVars, dataVars, job, loaded, found, now, history, published, before, recordVars>>

MarkProcessed(c) ==
  /\ At(c, "delivery", "mark")
  /\ Autocommit(By(D!MarkProcessed(rows, Key(c), now), P!MarkProcessed(rows, Key(c), now),
                   T!MarkProcessed(rows, Key(c), now)))
  /\ recorded' = IF Record(c) \in DOMAIN rows THEN recorded
                 ELSE [recorded EXCEPT ![Key(c)] = @ \cup {now}]
  /\ Goto(c, "done")
  /\ UNCHANGED <<lockerVars, serial, own, job, result, loaded, found, now, history, published, before, overtaken>>

Sweep(c) ==
  /\ At(c, "sweeper", "start")
  /\ Autocommit(By(D!RemoveExpired(rows, now), P!RemoveExpired(rows, now),
                   T!RemoveExpired(rows, now)))
  /\ Finish(c, "ok")
  /\ UNCHANGED <<lockerVars, serial, own, job, loaded, found, now, history, published, before, recordVars>>

Tick ==
  /\ now < MaxTime
  /\ \E c \in Clients : job[c].kind = "delivery" /\ pc[c] # "done"
  /\ now' = now + 1
  /\ UNCHANGED <<lockerVars, dataVars, job, pc, result, loaded, found, history, published, before, recordVars>>
-----------------------------------------------------------------------------
CommandStep(c) ==
  \/ LoadSnapshot(c) \/ Load(c) \/ Save(c) \/ SaveOutbox(c) \/ Commit(c) \/ Rollback(c)
  \/ FindSnapshot(c) \/ SaveSnapshot(c) \/ Publish(c) \/ MarkByEventIds(c)
LockStep(c) ==
  \/ TakeLock(c) \/ GiveUp(c) \/ DropLock(c) \/ LockRefused(c) \/ LockReturned(c)
BackgroundStep(c) ==
  \/ RelayLoad(c) \/ RelayPublish(c) \/ RelayMark(c) \/ RelayCleanup(c)
  \/ ReadBegins(c) \/ ReadPage(c)
  \/ Check(c) \/ DeleteExpired(c) \/ Handle(c) \/ MarkProcessed(c) \/ Sweep(c)

Session(p) == (LoseSession(p) \/ Reconnect(p)) /\ \E c \in Clients : job[c].locked
Server(p) == ServerStep(p) /\ UNCHANGED <<dataVars, localVars>>

DatabaseNext ==
  \/ \E c \in Clients : CommandStep(c) \/ OperationFails(c) \/ LockStep(c) \/ AskAgain(c) \/ BackgroundStep(c)
  \/ \E p \in Processes : Server(p) \/ (Session(p) /\ UNCHANGED <<dataVars, localVars>>)
  \/ Tick

\* The processes and the server go on while some step is enabled; neither a poll
\* nor the other process's connection keeps them from it.
Work == \E c \in Clients : CommandStep(c) \/ LockStep(c) \/ BackgroundStep(c)
Poll == \E c \in Clients : AskAgain(c)

DatabaseSpec ==
  /\ DatabaseInit /\ [][DatabaseNext]_databaseVars
  /\ WF_databaseVars(Work) /\ WF_databaseVars(Poll)
  /\ \A p \in Processes : WF_databaseVars(Server(p))
-----------------------------------------------------------------------------
\* Type invariant: clients, their transactions, and the statements their calls
\* of the locker have under way.
DatabaseTypeOK ==
  /\ LockersTypeOK
  /\ pc \in [Clients -> Stages] /\ result \in [Clients -> Results]
  /\ \A c \in Clients : own[c] # << >> => pc[c] \in {"outbox", "commit", "rollback"}
  /\ \A c \in Clients : acq[c] \notin {"idle", "rejected"} => job[c].locked
  /\ serial \in Nat /\ now \in 0 .. MaxTime

\* No committed write is lost or applied twice: in every table, what a load
\* returns is all that was committed for the key, in order.  A snapshot is never
\* ahead of the stream nor differs from it.
NoLostUpdate ==
  \A k \in LockKeys :
    /\ Stream(rows, k, 0) = history[<<"events", k>>]
    /\ \A s \in Stores \ {"events"} : Lookup(rows, <<s, k>>).state = history[<<s, k>>]
    /\ LET snapshot == Lookup(rows, <<"snapshots", k>>)
       IN  /\ snapshot.version = Len(snapshot.state)
           /\ IsPrefix(snapshot.state, history[<<"events", k>>])

\* A ConcurrencyError is raised only if another command on the same aggregate or
\* saga committed after this one had loaded it.
ConflictsAreReal ==
  \A c \in Clients : result[c] = "conflict" =>
    Len(history[<<job[c].store, Key(c)>>]) > Len(loaded[c].state)

\* Two commands under the advisory lock of one aggregate are never both between
\* load and commit, unless they run in different processes and the session of
\* one of them was lost.
LockedRunsAlone ==
  \A c, d \in {x \in Clients : job[x].locked} :
    /\ c # d /\ Key(c) = Key(d)
    /\ {pc[c], pc[d]} \subseteq {"load", "save", "outbox", "commit", "rollback"}
    => /\ ProcessOf[c] # ProcessOf[d]
       /\ ToSet(losses) \cap {ProcessOf[c], ProcessOf[d]} # {}

\* The outbox and the log agree across crashes of the publication: an entry
\* exists only for a committed event, one is marked only if its event was
\* published, and an event committed with the outbox has an entry until it is published.
OutboxMatchesLog ==
  /\ \A pk \in Table(rows, "outbox") :
       pk[2] \in Committed /\ (rows[pk].published => pk[2] \in published)
  /\ \A c \in Clients, e \in Committed \ published :
       job[c].outbox /\ e \in ToSet(Events(c)) => <<"outbox", e>> \in Unpublished(rows)

\* An event reader yields no event twice and keeps the order of every stream,
\* although commands commit and roll back between its pages, and when it ends it
\* has yielded all that was in the log when it began.
ReadsWhatWasThere ==
  \A c \in Clients : job[c].kind = "reader" =>
    LET read == found[c]
    IN  /\ \A i, j \in DOMAIN read : i < j =>
             /\ read[i] # read[j]
             /\ read[i][2] = read[j][2] => read[i][3] < read[j][3]
        /\ pc[c] = "done" => before[c] \subseteq {rows[read[i]].event : i \in DOMAIN read}

\* withIdempotency skips a delivery only if the handler has completed for some
\* delivery of the same event: a handler that failed leaves no record.
SkipsOnlyHandled ==
  \A c \in Clients : job[c].kind = "delivery" /\ result[c] = "skipped" =>
    \E d \in Clients : result[d] = "handled" /\ Key(d) = Key(c)

\* A record counts as long as configured: hasProcessed lets a delivery through
\* only when every record ever made of the event has reached the time to live,
\* whether it is still there, has been replaced, or was removed by another
\* delivery or by removeExpired.  Excepted are events of which a delivery deleted
\* a fresh record by mistake: it read an expired one, and deletes by key what has
\* replaced it since.
RecordsCount ==
  \A c \in Clients : job[c].kind = "delivery" /\ Key(c) \notin overtaken =>
    \A age \in before[c] : age >= Ttl

\* Exactly what is on record is skipped: withIdempotency skips no event that was
\* not handled, and handles none again before its records have expired.
RecordsDecide == SkipsOnlyHandled /\ RecordsCount

\* Every command, relay pass, read and delivery ends, whatever waits for whatever
\* lock and whichever session is lost.
EveryCallSettles == <>(\A c \in Clients : pc[c] = "done")
=============================================================================
