---------------------------- MODULE TypeORMStores ---------------------------
(***************************************************************************)
(* The TypeORM adapter: what each method of its stores does, on the rows   *)
(* that the entity manager it resolves - the transactional one of the unit *)
(* of work it runs in, or the data source's - sees.  Its saga persistence, *)
(* which compares versions in memory, is modelled in SagaExecution.        *)
(***************************************************************************)
EXTENDS SqlStatements, Integers

CONSTANTS
  Ttl,       \* ttlMs of the event idempotency store
  PageSize   \* BATCH_SIZE of the event reader

ScanLimit == 10000   \* entries that markPublishedByEventIds looks through

\* A driver's code for a violated unique constraint, on the error or inside it.
isUniqueViolation(error) == error = "duplicate key"
ConflictIfDuplicate(reply) == IF isUniqueViolation(reply.error) THEN Refuse ELSE reply

getManager(own, committed) == Over(own, committed)

\* The entities carry no id, so repo.save inserts them.
EventsSave(rows, key, events, expected, serial) ==
  ConflictIfDuplicate(INSERT(rows, EventRows(key, events, expected, serial)))
EventsLoad(rows, key) == Stream(rows, key, 0)
EventsLoadAfterVersion(rows, key, after) == Stream(rows, key, after)

StateSave(rows, key, state, expected) ==
  LET pk == <<"states", key>>
      row == [version |-> expected + 1, state |-> state]
      reply == UPDATE(rows, {p \in {pk} : Lookup(rows, p).version = expected}, row)
  IN  IF expected = 0 THEN ConflictIfDuplicate(INSERT(rows, Row(pk, row)))
      ELSE IF reply.count = 0 THEN Refuse ELSE reply
StateLoad(rows, key) == Lookup(rows, <<"states", key>>)

DedicatedSave(rows, key, state, expected) ==
  LET pk == <<"dedicated", key>>
      row == [version |-> expected + 1, state |-> state]
      reply == UPDATE(rows, {p \in {pk} : Lookup(rows, p).version = expected}, row)
  IN  IF expected = 0 THEN ConflictIfDuplicate(INSERT(rows, Row(pk, row)))
      ELSE IF reply.count = 0 THEN Refuse ELSE reply
DedicatedLoad(rows, key) == Lookup(rows, <<"dedicated", key>>)

SnapshotLoad(rows, key) == Lookup(rows, <<"snapshots", key>>)
\* repo.save updates the entity findOne found by its key, or inserts a new one.
SnapshotSave(rows, key, snapshot, existing) ==
  LET pk == <<"snapshots", key>>
  IN  IF existing THEN UPDATE(rows, {pk}, snapshot) ELSE INSERT(rows, Row(pk, snapshot))

\* repo.save of entities with ids: inserted, since no such ids exist.
OutboxSave(rows, events, createdAt) ==
  INSERT(rows, [pk \in {<<"outbox", e>> : e \in ToSet(events)} |->
                  [published |-> FALSE, createdAt |-> createdAt]])
OutboxLoadUnpublished(rows, batch) == Oldest(rows, Unpublished(rows), batch)
OutboxMarkPublished(rows, pks) == UPDATE(rows, pks, [published |-> TRUE])
\* It loads the oldest unpublished entries and filters them in memory; other
\* processes only mark or delete them in the meantime, so this is one step.
OutboxMarkPublishedByEventIds(rows, events) ==
  LET scanned == CHOOSE s \in Oldest(rows, Unpublished(rows), ScanLimit) : TRUE
  IN  OutboxMarkPublished(rows, scanned \cap {<<"outbox", e>> : e \in ToSet(events)})
OutboxDeletePublished(rows) == DELETE(rows, Table(rows, "outbox") \ Unpublished(rows))

Expired(rows, key, now) == now - rows[<<"processed", key>>].at > Ttl
MarkProcessed(rows, key, now) ==
  LET reply == INSERT(rows, Row(<<"processed", key>>, [at |-> now]))
  IN  IF isUniqueViolation(reply.error) THEN Reply(<< >>, {}, 0) ELSE reply
RemoveExpired(rows, now) ==
  DELETE(rows, {pk \in Table(rows, "processed") : rows[pk].at <= now - Ttl})

EventReaderPage(rows, cursor) ==
  LET later == {pk \in Table(rows, "events") : rows[pk].id > cursor}
  IN  Limit(Ordered(later, [pk \in later |-> rows[pk].id]), PageSize)

\* manager.transaction: all operations, or none.
UnitOfWorkCommit(own, committed, failed) ==
  IF failed THEN committed ELSE Over(own, committed)
=============================================================================
