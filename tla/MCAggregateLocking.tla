------------------------- MODULE MCAggregateLocking -------------------------
(* Small instances of AggregateLocking: two units of work and one command. *)
EXTENDS AggregateLocking, TLC

CONSTANTS u1, u2, c1

MCClients == {u1, u2, c1}
MCUows == {u1, u2}

\* Nobody reacts to anybody.
MCNoReactions == [u \in MCClients |-> NoClient]

\* c1 is dispatched by a handler of the events of u1.
MCReaction == [u \in MCClients |-> IF u = c1 THEN u1 ELSE NoClient]
=============================================================================
