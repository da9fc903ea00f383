---------------------------- MODULE SqlStatements ---------------------------
(***************************************************************************)
(* The SQL statements the persistence adapters issue, as functions of the  *)
(* rows a connection sees.  The database is external: this is how the      *)
(* adapters use it.                                                        *)
(*                                                                         *)
(* Rows are a function from primary keys to column values; a primary key   *)
(* is a tuple that begins with its table's name:                           *)
(*                                                                         *)
(*   <<"events", key, sequenceNumber>>  an event, with its row id          *)
(*   <<"states" | "dedicated" | "sagas" | "snapshots", key>>               *)
(*                                      a version and the state            *)
(*   <<"outbox", event>>                when the entry was made, until it  *)
(*                                      is published                       *)
(*   <<"processed", key>>               when an event was handled          *)
(*                                                                         *)
(* JSON columns, mappers and column names are left out: a state is the     *)
(* sequence of the events folded into it, and is read back as written.     *)
(***************************************************************************)
EXTENDS Naturals, Sequences, FiniteSets, SequencesExt

\* What a statement reports: the rows it writes and deletes, how many it
\* matched, and the error it raises.
Reply(new, gone, count) == [error |-> "none", new |-> new, gone |-> gone, count |-> count]
Raise(error) == [error |-> error, new |-> << >>, gone |-> {}, count |-> 0]
Refuse == Raise("ConcurrencyError")

\* One row, and some rows laid over others.
Row(pk, value) == [p \in {pk} |-> value]
Over(new, rows) ==
  [pk \in DOMAIN new \cup DOMAIN rows |-> IF pk \in DOMAIN new THEN new[pk] ELSE rows[pk]]

Apply(rows, reply) == Over(reply.new, [pk \in DOMAIN rows \ reply.gone |-> rows[pk]])

Table(rows, name) == {pk \in DOMAIN rows : pk[1] = name}

INSERT(rows, new) ==
  IF DOMAIN new \cap DOMAIN rows = {} THEN Reply(new, {}, Cardinality(DOMAIN new))
  ELSE Raise("duplicate key")

\* UPDATE ... WHERE the row is one of pks, to the given value.
UPDATE(rows, pks, value) ==
  LET found == pks \cap DOMAIN rows
  IN  Reply([pk \in found |-> value], {}, Cardinality(found))

DELETE(rows, pks) ==
  LET found == pks \cap DOMAIN rows IN Reply(<< >>, found, Cardinality(found))

\* ORDER BY a column of distinct numbers, ascending, then LIMIT.
Ordered(pks, column) ==
  CHOOSE s \in [1 .. Cardinality(pks) -> pks] :
    \A i, j \in 1 .. Cardinality(pks) : i < j => column[s[i]] < column[s[j]]
Limit(sequence, n) == SubSeq(sequence, 1, IF Len(sequence) < n THEN Len(sequence) ELSE n)

\* The stream of an aggregate: its rows with a sequence number above `after`.
Stream(rows, key, after) ==
  LET pks == {pk \in Table(rows, "events") : pk[2] = key /\ pk[3] > after}
      inOrder == Ordered(pks, [pk \in pks |-> pk[3]])
  IN  [i \in DOMAIN inOrder |-> rows[inOrder[i]].event]

\* Rows for events that follow version `expected`, with ids after `serial`.
EventRows(key, events, expected, serial) ==
  [pk \in {<<"events", key, expected + i>> : i \in DOMAIN events} |->
     [event |-> events[pk[3] - expected], id |-> serial + pk[3] - expected]]

\* No row, or the version and state of one.
NoRow == [version |-> 0, state |-> << >>]
Lookup(rows, pk) == IF pk \in DOMAIN rows THEN rows[pk] ELSE NoRow

Unpublished(rows) == {pk \in Table(rows, "outbox") : ~rows[pk].published}

\* The results of ORDER BY createdAt LIMIT n: entries made in one instant come
\* in any order.
Oldest(rows, pks, n) ==
  {s \in SUBSET pks :
     /\ Cardinality(s) = (IF Cardinality(pks) < n THEN Cardinality(pks) ELSE n)
     /\ \A p \in s, q \in pks \ s : rows[p].createdAt <= rows[q].createdAt}
=============================================================================
