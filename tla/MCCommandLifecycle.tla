------------------------- MODULE MCCommandLifecycle -------------------------
(* Small instances of CommandLifecycle: c1 and c2 deliver the same command *)
(* and c3 is another one, all to one aggregate.                            *)
EXTENDS CommandLifecycle, TLC

CONSTANTS c1, c2, c3, a1, a2, id1

MCCommandId == (c1 :> id1) @@ (c2 :> id1) @@ (c3 :> NoId)

\* A database: the calls race for an event-sourced aggregate.
Database ==
  [target |-> [c \in Calls |-> a1], locked |-> {}, sourced |-> {a1},
   transactional |-> TRUE, idsInTx |-> TRUE]

\* The same with an idempotency store outside the database.
ExternalIds ==
  [Database EXCEPT !.target = [c \in Calls |-> IF c = c3 THEN NoAggregate ELSE a1],
                   !.idsInTx = FALSE]

\* In memory: an event-sourced aggregate under locks, or a state-stored one
\* that two calls race for.
LockedMemory ==
  [target |-> [c \in Calls |-> a1], locked |-> {a1}, sourced |-> {a1},
   transactional |-> FALSE, idsInTx |-> TRUE]
RacingMemory ==
  [target |-> [c \in Calls |-> IF c = c2 THEN NoAggregate ELSE a2], locked |-> {}, sourced |-> {},
   transactional |-> FALSE, idsInTx |-> TRUE]

MCWirings == {Database, ExternalIds, LockedMemory, RacingMemory}
=============================================================================
