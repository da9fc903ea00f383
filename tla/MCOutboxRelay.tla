---------------------------- MODULE MCOutboxRelay ----------------------------
(* Small instances of OutboxRelay: two commands, the first with two events. *)
EXTENDS OutboxRelay, TLC

CONSTANTS n1, n2, c1, c2

MCCommands == {c1, c2}
MCEntries == 1..3
MCEventsOf == (c1 :> {1, 2}) @@ (c2 :> {3})

\* For two nodes: one command.
MCTwoEntries == 1..2
MCTwoEvents == (c1 :> {1, 2})
MCCommandHome == (c1 :> n1)

MCOneHome == (c1 :> n1) @@ (c2 :> n1)
=============================================================================
