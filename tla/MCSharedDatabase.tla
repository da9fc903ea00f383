-------------------------- MODULE MCSharedDatabase --------------------------
EXTENDS SharedDatabase, TLC
CONSTANTS c1, c2, c3, c4, p1, p2, k1, k2, n1, n2

MCProcessOf == (c1 :> p1) @@ (c2 :> p1) @@ (c3 :> p2) @@ (c4 :> p2)
MCEventsOf == (c1 :> <<1, 2>>) @@ (c2 :> <<3>>) @@ (c3 :> <<4>>) @@ (c4 :> <<5>>)
Distinct == (k1 :> n1) @@ (k2 :> n2)
Aliased == (k1 :> n1) @@ (k2 :> n1)
MCLockNames == {Distinct, Aliased}

\* The commands under a lock run without the outbox.
Job(kind, store, key, locked) ==
  [kind |-> kind, store |-> store, key |-> key, locked |-> locked, outbox |-> ~locked]
Idle == Job("none", "events", k1, FALSE)
Command(store, key) == Job("command", store, key, FALSE)
UnderLock(key) == Job("command", "states", key, TRUE)
Other(kind) == Job(kind, "events", k1, FALSE)

Of(j1, j2, j3, j4, lockers) ==
  [job |-> (c1 :> j1) @@ (c2 :> j2) @@ (c3 :> j3) @@ (c4 :> j4), lockers |-> lockers]
Unused == {l \in Lockers : l.dialect = "pg" /\ ~l.timed /\ l.name = Distinct}
Blocking == {l \in Lockers : l.adapter = "drizzle" /\ l.dialect = "pg" /\ ~l.timed /\ l.name = Distinct}
Reconnecting == {l \in Lockers : l.adapter = "prisma" /\ l.name = Distinct}
Pinned == {l \in Lockers : l.adapter # "prisma" /\ l.name = Aliased}

\* Three commands on one aggregate or saga, for each table.
Racing(store) == LET j == Command(store, k1) IN Of(j, j, j, Idle, Unused)
\* Commands under locks: one key in two processes, two keys, and each process
\* waiting for a lock of the other.
Contending == {Of(UnderLock(k1), UnderLock(k1), UnderLock(k1), Idle, Reconnecting),
               Of(UnderLock(k1), UnderLock(k2), UnderLock(k1), Idle, Pinned),
               Of(UnderLock(k1), UnderLock(k2), UnderLock(k1), UnderLock(k2), Blocking)}
Reading == Of(Command("events", k1), Command("events", k2), Other("reader"), Idle, Unused)
Relaying == Of(Command("states", k1), Command("events", k2), Other("relay"), Idle, Unused)
Delivering == Of(Other("delivery"), Other("delivery"), Other("delivery"), Other("sweeper"), Unused)
Redelivering == Of(Other("delivery"), Other("delivery"), Other("delivery"), Other("delivery"), Blocking)

MCWorkloads == {Racing(s) : s \in Stores} \cup Contending \cup {Reading, Relaying, Delivering, Redelivering}
MCSagas == {Racing("sagas")}
=============================================================================
