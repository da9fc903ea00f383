---------------------------- MODULE DrizzleStores ---------------------------
(***************************************************************************)
(* The Drizzle adapter: what each method of its stores does, on the rows   *)
(* that the executor it resolves - the transaction of the unit of work it  *)
(* runs in, or the pool - sees.                                            *)
(***************************************************************************)
EXTENDS SqlStatements, Integers

CONSTANTS
  Driver,    \* "node-postgres", "postgres-js" or "mysql2"
  Zone,      \* the zone a timestamp without one is read in, minus UTC: on
             \* PostgreSQL that of the session, else that of the process
  Ttl,       \* ttlMs of the event idempotency store
  PageSize   \* batchSize of the event reader

isUniqueViolation(error) == error = "duplicate key"
ConflictIfDuplicate(reply) == IF isUniqueViolation(reply.error) THEN Refuse ELSE reply

\* Mutant: the shape of the driver's result is not known.
getRowsAffectedUnknown(reply) == 0

\* getRowsAffected finds the count in the result of every driver.
getRowsAffected(reply) == reply.count

\* DrizzleSagaPersistence probes the shapes itself and leaves out `count`, the
\* one that postgres-js uses.
SagaRowsAffected(reply) == IF Driver = "postgres-js" THEN 0 ELSE reply.count

getExecutor(own, committed) == Over(own, committed)

EventsSave(rows, key, events, expected, serial) ==
  ConflictIfDuplicate(INSERT(rows, EventRows(key, events, expected, serial)))
EventsLoad(rows, key) == Stream(rows, key, 0)
EventsLoadAfterVersion(rows, key, after) == Stream(rows, key, after)

StateSave(rows, key, state, expected) ==
  LET pk == <<"states", key>>
      row == [version |-> expected + 1, state |-> state]
      reply == UPDATE(rows, {p \in {pk} : Lookup(rows, p).version = expected}, row)
  IN  IF expected = 0 THEN ConflictIfDuplicate(INSERT(rows, Row(pk, row)))
      ELSE IF getRowsAffected(reply) = 0 THEN Refuse ELSE reply
StateLoad(rows, key) == Lookup(rows, <<"states", key>>)

DedicatedSave(rows, key, state, expected) ==
  LET pk == <<"dedicated", key>>
      row == [version |-> expected + 1, state |-> state]
      reply == UPDATE(rows, {p \in {pk} : Lookup(rows, p).version = expected}, row)
  IN  IF expected = 0 THEN ConflictIfDuplicate(INSERT(rows, Row(pk, row)))
      ELSE IF getRowsAffected(reply) = 0 THEN Refuse ELSE reply
DedicatedLoad(rows, key) == Lookup(rows, <<"dedicated", key>>)

\* The insert path knows a duplicate key by words of the message; messages are
\* taken to be in the language it knows (another one is rethrown as it is).
SagaSave(rows, key, state, expected) ==
  LET pk == <<"sagas", key>>
      row == [version |-> expected + 1, state |-> state]
      reply == UPDATE(rows, {p \in {pk} : Lookup(rows, p).version = expected}, row)
  IN  IF expected = 0 THEN ConflictIfDuplicate(INSERT(rows, Row(pk, row)))
      ELSE IF SagaRowsAffected(reply) = 0 THEN Refuse ELSE reply
SagaLoad(rows, key) == Lookup(rows, <<"sagas", key>>)

SnapshotLoad(rows, key) == Lookup(rows, <<"snapshots", key>>)
\* Second statement of save: `existing` is what its SELECT found.
SnapshotSave(rows, key, snapshot, existing) ==
  LET pk == <<"snapshots", key>>
  IN  IF existing THEN UPDATE(rows, {pk}, snapshot) ELSE INSERT(rows, Row(pk, snapshot))

OutboxSave(rows, events, createdAt) ==
  INSERT(rows, [pk \in {<<"outbox", e>> : e \in ToSet(events)} |->
                  [published |-> FALSE, createdAt |-> createdAt]])
OutboxLoadUnpublished(rows, batch) == Oldest(rows, Unpublished(rows), batch)
OutboxMarkPublished(rows, pks) == UPDATE(rows, pks, [published |-> TRUE])

\* Mutant: every entry is marked.
OutboxMarkAll(rows, events) == UPDATE(rows, Unpublished(rows), [published |-> TRUE])

OutboxMarkPublishedByEventIds(rows, events) ==
  UPDATE(rows, Unpublished(rows) \cap {<<"outbox", e>> : e \in ToSet(events)}, [published |-> TRUE])
OutboxDeletePublished(rows) == DELETE(rows, Table(rows, "outbox") \ Unpublished(rows))

\* toDbTimestamp writes UTC digits without a zone.  PostgreSQL takes them for
\* the session's time when it stores them; MySQL hands them back as they are,
\* and new Date() reads them as local time.
ParsedTimestamp(stored) == stored - Zone
Expired(rows, key, now) == now - ParsedTimestamp(rows[<<"processed", key>>].at) > Ttl
MarkProcessed(rows, key, now) ==
  LET reply == INSERT(rows, Row(<<"processed", key>>, [at |-> now]))
  IN  IF isUniqueViolation(reply.error) THEN Reply(<< >>, {}, 0) ELSE reply

\* Mutant: the time to live is forgotten.
RemoveExpiredAll(rows, now) ==
  DELETE(rows, {pk \in Table(rows, "processed") : rows[pk].at <= now})

RemoveExpired(rows, now) ==
  DELETE(rows, {pk \in Table(rows, "processed") : rows[pk].at <= now - Ttl})

\* Mutant: the cursor is taken for a row number, though ids have gaps.
EventReaderPageByNumber(rows, cursor) ==
  LET later == {pk \in Table(rows, "events") : rows[pk].id > cursor /\ rows[pk].id <= cursor + PageSize}
  IN  Ordered(later, [pk \in later |-> rows[pk].id])

EventReaderPage(rows, cursor) ==
  LET later == {pk \in Table(rows, "events") : rows[pk].id > cursor}
  IN  Limit(Ordered(later, [pk \in later |-> rows[pk].id]), PageSize)

UnitOfWorkCommit(own, committed, failed) ==
  IF failed THEN committed ELSE Over(own, committed)
=============================================================================
