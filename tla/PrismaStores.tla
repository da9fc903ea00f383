---------------------------- MODULE PrismaStores ----------------------------
(***************************************************************************)
(* The Prisma adapter: what each method of its stores does, on the rows    *)
(* that the client it resolves - the interactive transaction of the unit   *)
(* of work it runs in, or the PrismaClient - sees.                         *)
(***************************************************************************)
EXTENDS SqlStatements, Integers

CONSTANTS
  Ttl,       \* ttlMs of the event idempotency store
  PageSize   \* BATCH_SIZE of the event reader

\* The engine reports a violated unique constraint with code P2002.
isP2002(error) == error = "duplicate key"
ConflictIfP2002(reply) == IF isP2002(reply.error) THEN Refuse ELSE reply

getExecutor(own, committed) == Over(own, committed)

EventsSave(rows, key, events, expected, serial) ==
  ConflictIfP2002(INSERT(rows, EventRows(key, events, expected, serial)))
EventsLoad(rows, key) == Stream(rows, key, 0)
EventsLoadAfterVersion(rows, key, after) == Stream(rows, key, after)

\* Mutant: the update does not ask for the expected version.
StateSaveUnchecked(rows, key, state, expected) ==
  LET pk == <<"states", key>>
      row == [version |-> expected + 1, state |-> state]
  IN  IF expected = 0 THEN ConflictIfP2002(INSERT(rows, Row(pk, row)))
      ELSE UPDATE(rows, {pk}, row)

StateSave(rows, key, state, expected) ==
  LET pk == <<"states", key>>
      row == [version |-> expected + 1, state |-> state]
      reply == UPDATE(rows, {p \in {pk} : Lookup(rows, p).version = expected}, row)
  IN  IF expected = 0 THEN ConflictIfP2002(INSERT(rows, Row(pk, row)))
      ELSE IF reply.count = 0 THEN Refuse ELSE reply
StateLoad(rows, key) == Lookup(rows, <<"states", key>>)

DedicatedSave(rows, key, state, expected) ==
  LET pk == <<"dedicated", key>>
      row == [version |-> expected + 1, state |-> state]
      reply == UPDATE(rows, {p \in {pk} : Lookup(rows, p).version = expected}, row)
  IN  IF expected = 0 THEN ConflictIfP2002(INSERT(rows, Row(pk, row)))
      ELSE IF reply.count = 0 THEN Refuse ELSE reply
DedicatedLoad(rows, key) == Lookup(rows, <<"dedicated", key>>)

SagaSave(rows, key, state, expected) ==
  LET pk == <<"sagas", key>>
      row == [version |-> expected + 1, state |-> state]
      reply == UPDATE(rows, {p \in {pk} : Lookup(rows, p).version = expected}, row)
  IN  IF expected = 0 THEN ConflictIfP2002(INSERT(rows, Row(pk, row)))
      ELSE IF reply.count = 0 THEN Refuse ELSE reply
SagaLoad(rows, key) == Lookup(rows, <<"sagas", key>>)

SnapshotLoad(rows, key) == Lookup(rows, <<"snapshots", key>>)
\* Second statement of save: `existing` is what findUnique found.
SnapshotSave(rows, key, snapshot, existing) ==
  LET pk == <<"snapshots", key>>
  IN  IF existing THEN UPDATE(rows, {pk}, snapshot) ELSE INSERT(rows, Row(pk, snapshot))

OutboxSave(rows, events, createdAt) ==
  INSERT(rows, [pk \in {<<"outbox", e>> : e \in ToSet(events)} |->
                  [published |-> FALSE, createdAt |-> createdAt]])
OutboxLoadUnpublished(rows, batch) == Oldest(rows, Unpublished(rows), batch)
OutboxMarkPublished(rows, pks) == UPDATE(rows, pks, [published |-> TRUE])
OutboxMarkPublishedByEventIds(rows, events) ==
  UPDATE(rows, Unpublished(rows) \cap {<<"outbox", e>> : e \in ToSet(events)}, [published |-> TRUE])
OutboxDeletePublished(rows) == DELETE(rows, Table(rows, "outbox") \ Unpublished(rows))

Expired(rows, key, now) == now - rows[<<"processed", key>>].at > Ttl
MarkProcessed(rows, key, now) ==
  LET reply == INSERT(rows, Row(<<"processed", key>>, [at |-> now]))
  IN  IF isP2002(reply.error) THEN Reply(<< >>, {}, 0) ELSE reply
RemoveExpired(rows, now) ==
  DELETE(rows, {pk \in Table(rows, "processed") : rows[pk].at <= now - Ttl})

EventReaderPage(rows, cursor) ==
  LET later == {pk \in Table(rows, "events") : rows[pk].id > cursor}
  IN  Limit(Ordered(later, [pk \in later |-> rows[pk].id]), PageSize)

\* The $transaction of a unit of work: all operations, or none.
UnitOfWorkCommit(own, committed, failed) ==
  IF failed THEN committed ELSE Over(own, committed)
=============================================================================
