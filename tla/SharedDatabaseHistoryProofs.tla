--------------------- MODULE SharedDatabaseHistoryProofs --------------------
(***************************************************************************)
(* Proofs about what SharedDatabase stores, for any clients, processes,    *)
(* keys, adapters, workloads and page sizes.                               *)
(*                                                                         *)
(* HistoryInv relates the committed rows, what each open transaction is    *)
(* about to commit and what each command has loaded to the log: the rows   *)
(* of a key are its history numbered from 1, what a command has loaded is  *)
(* a prefix of it, and a transaction that has saved holds exactly what     *)
(* comes next, alone.  IdInv gives the row ids the order of the log, and   *)
(* ReaderOK is what an event reader's cursor means.                        *)
(***************************************************************************)
EXTENDS SharedDatabaseProofs

\* Prefixes.
LEMMA PrefixIs ==
  ASSUME NEW S, NEW s \in Seq(S), NEW t \in Seq(S)
  PROVE  IsPrefix(s, t) <=> Len(s) <= Len(t) /\ \A i \in 1 .. Len(s) : s[i] = t[i]
  <1>1. Len(s) \in Nat /\ Len(t) \in Nat /\ DOMAIN s = 1 .. Len(s) OBVIOUS
  <1>2. SubSeq(s, 1, Len(s)) = [i \in 1 .. Len(s) |-> s[i]] BY <1>1
  <1>3. SubSeq(t, 1, Len(s)) = [i \in 1 .. Len(s) |-> t[i]] BY <1>1
  <1> QED BY <1>2, <1>3 DEF IsPrefix

LEMMA PrefixGrows ==
  ASSUME NEW S, NEW s \in Seq(S), NEW t \in Seq(S), NEW u \in Seq(S), IsPrefix(s, t)
  PROVE  IsPrefix(s, t \o u) /\ IsPrefix(t, t \o u)
  <1>1. t \o u \in Seq(S) OBVIOUS
  <1>2. Len(t \o u) = Len(t) + Len(u) /\ \A i \in 1 .. Len(t) : (t \o u)[i] = t[i] OBVIOUS
  <1>3. Len(s) <= Len(t) /\ \A i \in 1 .. Len(s) : s[i] = t[i] BY PrefixIs
  <1>4. Len(s) \in Nat /\ Len(t) \in Nat /\ Len(u) \in Nat OBVIOUS
  <1>5. \A i \in 1 .. Len(s) : i \in 1 .. Len(t) BY <1>3, <1>4
  <1>6. Len(s) <= Len(t \o u) /\ Len(t) <= Len(t \o u) BY <1>2, <1>3, <1>4
  <1>7. \A i \in 1 .. Len(s) : s[i] = (t \o u)[i] BY <1>2, <1>3, <1>5
  <1> QED BY <1>1, <1>2, <1>6, <1>7, PrefixIs

LEMMA PrefixWhole ==
  ASSUME NEW S, NEW s \in Seq(S), NEW t \in Seq(S), IsPrefix(s, t), Len(s) = Len(t)
  PROVE  s = t
  <1>1. \A i \in 1 .. Len(s) : s[i] = t[i] BY PrefixIs
  <1> QED BY <1>1

LEMMA EmptyPrefix ==
  ASSUME NEW S, NEW t \in Seq(S) PROVE IsPrefix(<< >>, t)
  <1> DEFINE s == << >>
  <1>1. s \in Seq(S) /\ Len(s) = 0 /\ Len(t) \in Nat OBVIOUS
  <1> HIDE DEF s
  <1>2. Len(s) <= Len(t) /\ \A i \in 1 .. Len(s) : s[i] = t[i] BY <1>1
  <1>3. IsPrefix(s, t) BY <1>1, <1>2, PrefixIs
  <1> QED BY <1>3 DEF s

\* A non-empty set of naturals has a least element.
LEMMA LeastElement ==
  ASSUME NEW W, W \subseteq Nat, W # {}
  PROVE  \E x \in W : \A y \in W : x <= y
  <1> DEFINE R == OpToRel(<, Nat)
  <1>1. IsWellFoundedOn(R, Nat) BY NatLessThanWellFounded
  <1>2. \A x, y \in Nat : <<y, x>> \in R <=> y < x BY DEF OpToRel
  <1> HIDE DEF R
  <1>3. PICK x \in W : \A y \in W : ~(<<y, x>> \in R) BY <1>1, WFMin
  <1>4. \A y \in W : y \in Nat /\ x \in Nat /\ ~(y < x) BY <1>2, <1>3
  <1> QED BY <1>4

\* A strictly increasing function does not fall behind its argument, and on an
\* interval it is the identity.
LEMMA IncreasingAbove ==
  ASSUME NEW n \in Nat, NEW f \in [1 .. n -> 1 .. n], \A i, j \in 1 .. n : i < j => f[i] < f[j]
  PROVE  \A i \in 1 .. n : f[i] >= i
  <1> DEFINE W == {i \in 1 .. n : f[i] < i}
  <1>1. SUFFICES ASSUME W # {} PROVE FALSE OBVIOUS
  <1>2. W \subseteq Nat OBVIOUS
  <1> HIDE DEF W
  <1>3. PICK i \in W : \A y \in W : i <= y BY <1>1, <1>2, LeastElement
  <1>4. i \in 1 .. n /\ f[i] < i BY DEF W
  <1>5. f[i] \in 1 .. n BY <1>4
  <1>6. i # 1 BY <1>4, <1>5
  <1>7. i - 1 \in 1 .. n /\ i - 1 < i BY <1>4, <1>6
  <1>8. f[i - 1] \in 1 .. n /\ f[i - 1] < f[i] BY <1>4, <1>7
  <1>9. f[i - 1] < i - 1 BY <1>4, <1>5, <1>7, <1>8
  <1>10. i - 1 \in W BY <1>7, <1>9 DEF W
  <1> QED BY <1>3, <1>4, <1>7, <1>10

LEMMA IncreasingIsIdentity ==
  ASSUME NEW n \in Nat, NEW f \in [1 .. n -> 1 .. n], \A i, j \in 1 .. n : i < j => f[i] < f[j]
  PROVE  \A i \in 1 .. n : f[i] = i
  <1> DEFINE g == [i \in 1 .. n |-> n + 1 - f[n + 1 - i]]
  <1>1. \A i \in 1 .. n : n + 1 - i \in 1 .. n OBVIOUS
  <1>2. \A i \in 1 .. n : f[n + 1 - i] \in 1 .. n BY <1>1
  <1>3. \A i \in 1 .. n : g[i] = n + 1 - f[n + 1 - i] OBVIOUS
  <1>4. g \in [1 .. n -> 1 .. n] BY <1>2
  <1>5. \A i, j \in 1 .. n : i < j => g[i] < g[j]
    <2>1. SUFFICES ASSUME NEW i \in 1 .. n, NEW j \in 1 .. n, i < j PROVE g[i] < g[j] OBVIOUS
    <2>2. n + 1 - j < n + 1 - i BY <2>1
    <2>3. f[n + 1 - j] < f[n + 1 - i] BY <1>1, <2>2
    <2> HIDE DEF g
    <2> QED BY <1>2, <1>3, <2>3
  <1>6. \A i \in 1 .. n : f[i] >= i BY IncreasingAbove
  <1> HIDE DEF g
  <1>7. \A i \in 1 .. n : g[i] >= i BY <1>4, <1>5, IncreasingAbove
  <1>8. ASSUME NEW i \in 1 .. n PROVE f[i] <= i
    <2>1. n + 1 - i \in 1 .. n /\ n + 1 - (n + 1 - i) = i BY <1>1
    <2>2. g[n + 1 - i] = n + 1 - f[i] BY <1>3, <2>1
    <2>3. g[n + 1 - i] >= n + 1 - i BY <1>7, <2>1
    <2>4. f[i] \in 1 .. n OBVIOUS
    <2> QED BY <2>2, <2>3, <2>4
  <1>9. ASSUME NEW i \in 1 .. n PROVE f[i] = i
    <2>1. f[i] \in 1 .. n OBVIOUS
    <2> QED BY <1>6, <1>8, <2>1
  <1> QED BY <1>9
-----------------------------------------------------------------------------
\* Every command decides on at least one event.
CommandsDecide == \A c \in Clients : EventsOf[c] # << >>

Hist(c) == history[<<job[c].store, Key(c)>>]

\* The committed rows of the stores are the committed events.
EventsTable ==
  /\ \A pk \in Table(rows, "events") :
       \E k \in LockKeys : \E i \in 1 .. Len(history[<<"events", k>>]) : pk = <<"events", k, i>>
  /\ \A k \in LockKeys : \A i \in 1 .. Len(history[<<"events", k>>]) :
       /\ <<"events", k, i>> \in DOMAIN rows
       /\ rows[<<"events", k, i>>].event = history[<<"events", k>>][i]
StateRow(s, k) ==
  IF <<s, k>> \in DOMAIN rows
  THEN rows[<<s, k>>].version \in Nat \ {0} /\ rows[<<s, k>>].state = history[<<s, k>>]
  ELSE history[<<s, k>>] = << >>
SnapshotRow(k) ==
  <<"snapshots", k>> \in DOMAIN rows =>
    LET snapshot == rows[<<"snapshots", k>>]
    IN  /\ snapshot.state \in Seq(AllEvents) /\ snapshot.version = Len(snapshot.state)
        /\ IsPrefix(snapshot.state, history[<<"events", k>>])
RowsInv ==
  /\ EventsTable
  /\ \A k \in LockKeys : SnapshotRow(k) /\ \A s \in Stores \ {"events"} : StateRow(s, k)

\* What a command has loaded is a prefix of what is committed, and all of it while
\* the version is the current one.
LoadedOK(c) ==
  /\ loaded[c].state \in Seq(AllEvents) /\ IsPrefix(loaded[c].state, Hist(c))
  /\ job[c].store = "events" => loaded[c].version = Len(loaded[c].state)
  /\ job[c].store # "events" =>
       LET version == Lookup(rows, <<job[c].store, Key(c)>>).version
       IN  /\ loaded[c].version \in Nat /\ loaded[c].version <= version
           /\ loaded[c].version = version => loaded[c].state = Hist(c)
           /\ CommandsDecide /\ loaded[c].version < version => Len(loaded[c].state) < Len(Hist(c))

\* What a transaction holds of the stores: the rows that follow what its command has loaded.
NextRow(c, pk) ==
  IF job[c].store = "events"
  THEN \E i \in 1 .. Len(Events(c)) :
         pk = <<"events", Key(c), loaded[c].version + i>> /\ own[c][pk].event = Events(c)[i]
  ELSE /\ pk = <<job[c].store, Key(c)>>
       /\ own[c][pk] = [version |-> loaded[c].version + 1, state |-> loaded[c].state \o Events(c)]
OwnRows(c) ==
  \A pk \in DOMAIN own[c] : pk[1] \in Stores => job[c].kind = "command" /\ NextRow(c, pk)

\* A transaction that has saved holds all of them, and nobody has committed since.
Ready(c) ==
  job[c].kind = "command" /\ pc[c] \in {"outbox", "commit"} =>
    IF job[c].store = "events"
    THEN \A i \in 1 .. Len(Events(c)) :
           <<"events", Key(c), loaded[c].version + i>> \in DOMAIN own[c] /\ loaded[c].state = Hist(c)
    ELSE /\ <<job[c].store, Key(c)>> \in DOMAIN own[c]
         /\ loaded[c].version = Lookup(rows, <<job[c].store, Key(c)>>).version
Exclusive ==
  \A c, d \in Clients : c # d => \A pk \in DOMAIN own[c] \cap DOMAIN own[d] : pk[1] \notin Stores

\* Snapshots are for streams; after the commit the command's events are in the log.
Logs(c) ==
  job[c].kind = "command" =>
    /\ pc[c] \in {"load", "find", "snapshot"} => job[c].store = "events"
    /\ job[c].store = "events" /\ (pc[c] \in {"find", "snapshot"} \/ (pc[c] = "unlock" /\ result[c] = "none")) =>
         IsPrefix(loaded[c].state \o Events(c), Hist(c))
Outcome(c) ==
  job[c].kind = "command" =>
    /\ pc[c] \in {"start", "load", "save", "outbox", "commit"} => result[c] = "none"
    /\ pc[c] = "rollback" => result[c] # "none"

HistoryInv ==
  /\ RowsInv /\ Exclusive
  /\ \A c \in Clients : LoadedOK(c) /\ OwnRows(c) /\ Ready(c) /\ Logs(c) /\ Outcome(c)

\* Rows in the order of a column: if there is such a sequence, it is one.
LEMMA OrderedIs ==
  ASSUME NEW pks, NEW column,
         NEW t \in [1 .. Cardinality(pks) -> pks],
         \A i, j \in 1 .. Cardinality(pks) : i < j => column[t[i]] < column[t[j]]
  PROVE  LET s == Ordered(pks, column)
         IN  /\ s \in [1 .. Cardinality(pks) -> pks]
             /\ \A i, j \in 1 .. Cardinality(pks) : i < j => column[s[i]] < column[s[j]]
  <1> DEFINE Fits(s) == \A i, j \in 1 .. Cardinality(pks) : i < j => column[s[i]] < column[s[j]]
  <1>1. \E s \in [1 .. Cardinality(pks) -> pks] : Fits(s) OBVIOUS
  <1>2. Ordered(pks, column) = CHOOSE s \in [1 .. Cardinality(pks) -> pks] : Fits(s) BY DEF Ordered
  <1> QED BY <1>1, <1>2

\* Loading a stream returns the committed events after a version.
LEMMA StreamIs ==
  ASSUME EventsTable, DataTypes, NEW k \in LockKeys, NEW after \in 0 .. Len(history[<<"events", k>>])
  PROVE  LET h == history[<<"events", k>>]
         IN  Stream(rows, k, after) = [i \in 1 .. Len(h) - after |-> h[after + i]]
  <1> DEFINE h == history[<<"events", k>>]
             n == Len(h) - after
             pks == {pk \in Table(rows, "events") : pk[2] = k /\ pk[3] > after}
             column == [pk \in pks |-> pk[3]]
             t == [i \in 1 .. n |-> <<"events", k, after + i>>]
             s == Ordered(pks, column)
  <1>1. h \in Seq(AllEvents) BY DEF DataTypes, Stored, Stores
  <1>2. Len(h) \in Nat /\ n \in Nat /\ after \in Nat BY <1>1
  <1>3. ASSUME NEW pk \in pks PROVE pk[3] - after \in 1 .. n /\ pk = <<"events", k, after + (pk[3] - after)>>
    <2>1. PICK kk \in LockKeys : \E i \in 1 .. Len(history[<<"events", kk>>]) : pk = <<"events", kk, i>>
      BY <1>3 DEF EventsTable
    <2>2. PICK i \in 1 .. Len(history[<<"events", kk>>]) : pk = <<"events", kk, i>> BY <2>1
    <2>3. kk = k /\ i > after BY <2>2
    <2>4. i \in 1 .. Len(h) /\ pk[3] = i /\ pk = <<"events", k, i>> BY <2>2, <2>3
    <2>5. i - after \in 1 .. n /\ after + (i - after) = i BY <1>2, <2>3, <2>4
    <2> QED BY <2>4, <2>5
  <1>4. ASSUME NEW i \in 1 .. n PROVE t[i] \in pks /\ t[i][3] = after + i
    <2>1. after + i \in 1 .. Len(h) BY <1>2
    <2>2. <<"events", k, after + i>> \in DOMAIN rows BY <2>1 DEF EventsTable
    <2> QED BY <1>2, <2>2 DEF Table
  <1>5. Cardinality(pks) = n
    <2>1. t \in [1 .. n -> pks] BY <1>4
    <2>2. t \in Injection(1 .. n, pks)
      <3>1. \A i, j \in 1 .. n : t[i] = t[j] => i = j
        <4>1. SUFFICES ASSUME NEW i \in 1 .. n, NEW j \in 1 .. n, t[i] = t[j] PROVE i = j OBVIOUS
        <4>2. after + i = after + j BY <1>4, <4>1
        <4> QED BY <1>2, <4>2
      <3> HIDE DEF t
      <3> QED BY <2>1, <3>1 DEF Injection, IsInjective
    <2>3. t \in Surjection(1 .. n, pks)
      <3>1. ASSUME NEW pk \in pks PROVE \E i \in 1 .. n : t[i] = pk
        <4>1. pk[3] - after \in 1 .. n /\ pk = <<"events", k, after + (pk[3] - after)>> BY <1>3
        <4>2. t[pk[3] - after] = <<"events", k, after + (pk[3] - after)>> BY <4>1
        <4> QED BY <4>1, <4>2
      <3> HIDE DEF t, pks
      <3> QED BY <2>1, <3>1 DEF Surjection
    <2> HIDE DEF t, pks, n
    <2>4. ExistsBijection(1 .. n, pks) BY <2>2, <2>3 DEF Bijection, ExistsBijection
    <2>5. IsFiniteSet(1 .. n) /\ Cardinality(1 .. n) = n
      <3>1. 1 \in Int /\ n \in Int BY <1>2
      <3>2. IsFiniteSet(1 .. n) /\ Cardinality(1 .. n) = IF 1 > n THEN 0 ELSE n - 1 + 1
        BY <3>1, FS_Interval
      <3> QED BY <1>2, <3>2
    <2> QED BY <2>4, <2>5, FS_Bijection
  <1>6. /\ s \in [1 .. n -> pks]
        /\ \A i, j \in 1 .. n : i < j => column[s[i]] < column[s[j]]
    <2>1. t \in [1 .. n -> pks] BY <1>4
    <2>2. \A i, j \in 1 .. n : i < j => column[t[i]] < column[t[j]]
      <3>1. SUFFICES ASSUME NEW i \in 1 .. n, NEW j \in 1 .. n, i < j PROVE column[t[i]] < column[t[j]] OBVIOUS
      <3>2. column[t[i]] = after + i /\ column[t[j]] = after + j BY <1>4
      <3> HIDE DEF column, t, pks
      <3> QED BY <1>2, <3>1, <3>2
    <2> HIDE DEF column, t, pks, n
    <2> QED BY <1>5, <2>1, <2>2, OrderedIs
  <1>7. \A i \in 1 .. n : s[i] = <<"events", k, after + i>>
    <2> DEFINE f == [i \in 1 .. n |-> s[i][3] - after]
    <2>1. \A i \in 1 .. n : s[i] \in pks BY <1>6
    <2> HIDE DEF s
    <2>2. f \in [1 .. n -> 1 .. n] BY <1>3, <2>1
    <2>3. \A i \in 1 .. n : column[s[i]] = s[i][3] BY <2>1
    <2>4. \A i \in 1 .. n : f[i] = s[i][3] - after /\ s[i] = <<"events", k, after + f[i]>> BY <1>3, <2>1
    <2>5. \A i, j \in 1 .. n : i < j => f[i] < f[j]
      <3>1. SUFFICES ASSUME NEW i \in 1 .. n, NEW j \in 1 .. n, i < j PROVE f[i] < f[j] OBVIOUS
      <3>2. s[i][3] < s[j][3] BY <1>6, <2>3, <3>1
      <3>3. f[i] \in 1 .. n /\ f[j] \in 1 .. n BY <2>2
      <3> HIDE DEF f
      <3>4. s[i][3] = after + f[i] /\ s[j][3] = after + f[j] BY <2>4
      <3> QED BY <1>2, <3>2, <3>3, <3>4
    <2> HIDE DEF f, n
    <2>6. \A i \in 1 .. n : f[i] = i BY <1>2, <2>2, <2>5, IncreasingIsIdentity
    <2> QED BY <2>4, <2>6
  <1>8. \A i \in 1 .. n : rows[s[i]].event = h[after + i]
    <2>1. \A i \in 1 .. n : after + i \in 1 .. Len(h) BY <1>2
    <2> HIDE DEF s
    <2> QED BY <1>7, <2>1 DEF EventsTable
  <1>9. Stream(rows, k, after) = [i \in DOMAIN s |-> rows[s[i]].event] BY DEF Stream
  <1>10. DOMAIN s = 1 .. n BY <1>6
  <1> HIDE DEF s, n
  <1> QED BY <1>8, <1>9, <1>10 DEF n

\* The adapters load in the same way.
LEMMA StreamBy ==
  \A r, k, a : D!Stream(r, k, a) = Stream(r, k, a) /\ P!Stream(r, k, a) = Stream(r, k, a) /\ T!Stream(r, k, a) = Stream(r, k, a)
  <1>1. \A pks, column : /\ D!Ordered(pks, column) = Ordered(pks, column)
                         /\ P!Ordered(pks, column) = Ordered(pks, column)
                         /\ T!Ordered(pks, column) = Ordered(pks, column)
    BY CardinalityBy DEF D!Ordered, P!Ordered, T!Ordered, Ordered
  <1>2. ASSUME NEW r, NEW k, NEW a
        PROVE  /\ D!Stream(r, k, a) = Stream(r, k, a) /\ P!Stream(r, k, a) = Stream(r, k, a)
               /\ T!Stream(r, k, a) = Stream(r, k, a)
    <2> DEFINE pks == {pk \in Table(r, "events") : pk[2] = k /\ pk[3] > a}
               column == [pk \in pks |-> pk[3]]
               s == Ordered(pks, column)
               stream == [i \in DOMAIN s |-> r[s[i]].event]
    <2>1. D!Ordered(pks, column) = s /\ P!Ordered(pks, column) = s /\ T!Ordered(pks, column) = s BY <1>1
    <2>2. Stream(r, k, a) = stream BY DEF Stream
    <2>3. D!Stream(r, k, a) = stream BY <2>1, TableBy DEF D!Stream
    <2>4. P!Stream(r, k, a) = stream BY <2>1, TableBy DEF P!Stream
    <2>5. T!Stream(r, k, a) = stream BY <2>1, TableBy DEF T!Stream
    <2> QED BY <2>2, <2>3, <2>4, <2>5
  <1> QED BY <1>2

LEMMA LoadedBy ==
  ASSUME DataTypes, NEW c \in Clients
  PROVE  /\ LoadSnapshot(c) => loaded' = [loaded EXCEPT ![c] = Lookup(rows, <<"snapshots", Key(c)>>)]
         /\ LET events == Stream(rows, Key(c), loaded[c].version)
            IN  LoadedStream(c) = [version |-> loaded[c].version + Len(events), state |-> loaded[c].state \o events]
         /\ job[c].kind = "command" /\ job[c].store # "events" => LoadedState(c) = Lookup(rows, <<job[c].store, Key(c)>>)
  <1>1. LoadSnapshot(c) => loaded' = [loaded EXCEPT ![c] = Lookup(rows, <<"snapshots", Key(c)>>)]
    BY LookupBy DEF LoadSnapshot, By, D!SnapshotLoad, P!SnapshotLoad, T!SnapshotLoad
  <1>2. LET events == Stream(rows, Key(c), loaded[c].version)
        IN  LoadedStream(c) = [version |-> loaded[c].version + Len(events), state |-> loaded[c].state \o events]
    BY StreamBy DEF LoadedStream, By, D!EventsLoad, P!EventsLoad, T!EventsLoad, D!EventsLoadAfterVersion,
                    P!EventsLoadAfterVersion, T!EventsLoadAfterVersion
  <1>3. ASSUME job[c].store # "events" PROVE LoadedState(c) = Lookup(rows, <<job[c].store, Key(c)>>)
    <2>1. job[c].store \in {"states", "dedicated", "sagas"} BY <1>3 DEF DataTypes, Jobs, Stores
    <2>2. job[c].store = "sagas" => locker.adapter \in {"drizzle", "prisma"} BY DEF DataTypes, Lockers
    <2>3. CASE job[c].store = "states"
      BY <2>3, LookupBy DEF LoadedState, By, D!StateLoad, P!StateLoad, T!StateLoad
    <2>4. CASE job[c].store = "dedicated"
      BY <2>4, LookupBy DEF LoadedState, By, D!DedicatedLoad, P!DedicatedLoad, T!DedicatedLoad
    <2>5. CASE job[c].store = "sagas"
      BY <2>2, <2>5, LookupBy DEF LoadedState, By, D!SagaLoad, P!SagaLoad
    <2> QED BY <2>1, <2>3, <2>4, <2>5
  <1> QED BY <1>1, <1>2, <1>3
-----------------------------------------------------------------------------
\* The key of a client, and the history it works on.
LEMMA HistTypes ==
  ASSUME DataTypes, NEW c \in Clients
  PROVE  /\ job[c].store \in Stores /\ Key(c) \in LockKeys
         /\ <<job[c].store, Key(c)>> \in Stored
         /\ Hist(c) \in Seq(AllEvents) /\ Events(c) \in Seq(AllEvents)
         /\ Len(Hist(c)) \in Nat /\ Len(Events(c)) \in Nat
  <1>1. job[c].store \in Stores /\ Key(c) \in LockKeys BY DEF DataTypes, Jobs, Key
  <1>2. <<job[c].store, Key(c)>> \in Stored BY <1>1 DEF Stored
  <1>3. Hist(c) \in Seq(AllEvents) BY <1>2 DEF DataTypes, Hist
  <1> QED BY <1>1, <1>2, <1>3, EventTypes

LEMMA OwnNothing ==
  ASSUME OutboxInv, NEW c \in Clients, pc[c] \notin InTransaction PROVE DOMAIN own[c] = {}
  BY DEF OutboxInv, OutboxOwn

\* Only commits and snapshots write what commands load.
LEMMA StoreRows ==
  ASSUME RelayInv, NEW c \in Clients, ClientStep(c), ~Commit(c)
  PROVE  /\ UNCHANGED history
         /\ \A pk : pk[1] \in Stores => Same(pk)
         /\ ~SaveSnapshot(c) => \A pk : pk[1] = "snapshots" => Same(pk)
  <1> USE DEF Stores
  <1>1. CASE UNCHANGED <<rows, history>> BY <1>1 DEF Same
  <1>2. CASE SaveSnapshot(c) /\ UNCHANGED history
    <2>1. \A pk : pk[1] \in Stores => pk # <<"snapshots", Key(c)>> OBVIOUS
    <2>2. \A p : p # <<"snapshots", Key(c)>> => Same(p) BY <1>2, SnapshotRows
    <2> QED BY <1>2, <2>1, <2>2
  <1>3. CASE MarkByEventIds(c) /\ UNCHANGED history
    <2>1. \A pk : Same(pk) \/ \E e \in ToSet(Events(c)) : pk = <<"outbox", e>> BY <1>3, MarkedRows
    <2>2. \A pk : Same(pk) \/ pk[1] = "outbox" BY <2>1
    <2> QED BY <1>3, <2>2
  <1>4. CASE RelayMark(c) /\ UNCHANGED history
    <2>1. \A pk \in found[c][1] : pk[1] = "outbox" BY <1>4 DEF RelayMark, At, RelayInv, RelayOK
    <2>2. \A pk : Same(pk) \/ pk \in found[c][1] BY <1>4, RelayMarkedRows
    <2> QED BY <1>4, <2>1, <2>2
  <1>5. CASE RelayCleanup(c) /\ UNCHANGED history
    <2>1. \A pk : Same(pk) \/ pk[1] = "outbox" BY <1>5, CleanedRows DEF Table
    <2> QED BY <1>5, <2>1
  <1>6. CASE (DeleteExpired(c) \/ MarkProcessed(c)) /\ UNCHANGED history
    <2>1. \A pk : Same(pk) \/ pk = Record(c) BY <1>6, ExpiredRows, RecordedRows
    <2>2. \A pk : Same(pk) \/ pk[1] = "processed" BY <2>1 DEF Record
    <2> QED BY <1>6, <2>2
  <1>7. CASE Sweep(c) /\ UNCHANGED history
    <2>1. \A pk : Same(pk) \/ pk[1] = "processed" BY <1>7, SweptRows
    <2> QED BY <1>7, <2>1
  <1> QED BY <1>1, <1>2, <1>3, <1>4, <1>5, <1>6, <1>7, DataSteps

\* What such a step leaves as it was.
LEMMA RowsKept ==
  ASSUME RowsInv, UNCHANGED history, \A pk : pk[1] \in Stores => Same(pk)
  PROVE  /\ EventsTable'
         /\ \A k \in LockKeys : \A s \in Stores \ {"events"} : StateRow(s, k)'
         /\ \A k \in LockKeys : Same(<<"snapshots", k>>) => SnapshotRow(k)'
         /\ \A k \in LockKeys : \A s \in Stores \ {"events"} : Lookup(rows', <<s, k>>) = Lookup(rows, <<s, k>>)
  <1>1. \A k, i : Same(<<"events", k, i>>) BY DEF Stores
  <1>2. \A s \in Stores : \A k : Same(<<s, k>>) OBVIOUS
  <1>3. Table(rows', "events") = Table(rows, "events") BY DEF Table, Same, Stores
  <1>4. EventsTable'
    <2>1. EventsTable BY DEF RowsInv
    <2>2. ASSUME NEW pk \in Table(rows', "events")
          PROVE  \E k \in LockKeys : \E i \in 1 .. Len(history'[<<"events", k>>]) : pk = <<"events", k, i>>
      BY <1>3, <2>1 DEF EventsTable
    <2>3. ASSUME NEW k \in LockKeys, NEW i \in 1 .. Len(history'[<<"events", k>>])
          PROVE  /\ <<"events", k, i>> \in DOMAIN rows'
                 /\ rows'[<<"events", k, i>>].event = history'[<<"events", k>>][i]
      <3>1. Same(<<"events", k, i>>) BY <1>1
      <3>2. /\ <<"events", k, i>> \in DOMAIN rows
            /\ rows[<<"events", k, i>>].event = history[<<"events", k>>][i]
        BY <2>1, <2>3 DEF EventsTable
      <3> QED BY <3>1, <3>2 DEF Same
    <2> QED BY <2>2, <2>3 DEF EventsTable
  <1>5. \A k \in LockKeys : \A s \in Stores \ {"events"} : StateRow(s, k)'
    BY <1>2 DEF RowsInv, StateRow, Same
  <1>6. \A k \in LockKeys : Same(<<"snapshots", k>>) => SnapshotRow(k)'
    BY DEF RowsInv, SnapshotRow, Same
  <1>7. \A k \in LockKeys : \A s \in Stores \ {"events"} : Lookup(rows', <<s, k>>) = Lookup(rows, <<s, k>>)
    BY <1>2 DEF Lookup, Same
  <1> QED BY <1>4, <1>5, <1>6, <1>7

\* The steps of a command that neither load nor belong to the transaction.
LEMMA RestSteps ==
  ASSUME DataTypes, RelayInv, NEW c \in Clients, ClientStep(c), ~Transactional(c), ~LoadSnapshot(c), ~Load(c)
  PROVE  /\ loaded'[c] = loaded[c] /\ own'[c] = own[c]
         /\ job[c].kind = "command" =>
              \/ pc'[c] = pc[c] /\ result'[c] = result[c]
              \/ pc'[c] \in {"publish", "mark", "done"}
              \/ /\ pc[c] = "unlock" /\ pc'[c] = "find" /\ job[c].store = "events"
                 /\ result[c] = "none" /\ result'[c] = "none"
              \/ pc[c] = "find" /\ pc'[c] = "snapshot"
  <1> USE DEF At, Goto, Finish
  <1>1. CASE FindSnapshot(c) \/ SaveSnapshot(c) \/ Publish(c) \/ MarkByEventIds(c)
    BY <1>1 DEF FindSnapshot, SaveSnapshot, Publish, MarkByEventIds, DataTypes, dataVars
  <1>2. CASE BackgroundStep(c)
    BY <1>2 DEF BackgroundStep, RelayLoad, RelayPublish, RelayMark, RelayCleanup, ReadBegins, ReadPage, Check,
                DeleteExpired, Handle, MarkProcessed, Sweep, dataVars
  <1>3. CASE TakeLock(c) \/ AskAgain(c) \/ GiveUp(c) \/ DropLock(c)
    BY <1>3 DEF TakeLock, AskAgain, GiveUp, DropLock, dataVars, localVars
  <1>4. CASE LockRefused(c) BY <1>4 DEF LockRefused, DataTypes, dataVars
  <1>5. CASE LockReturned(c) BY <1>5 DEF LockReturned, AfterCommit, DataTypes, dataVars
  <1> QED BY <1>1, <1>2, <1>3, <1>4, <1>5 DEF ClientStep, CommandStep, LockStep, Transactional
-----------------------------------------------------------------------------
\* A step that leaves the stores alone leaves alone what is known of a client.
LEMMA LoadedKept ==
  ASSUME DataTypes, RowsInv, UNCHANGED <<history, job, wants>>, \A pk : pk[1] \in Stores => Same(pk),
         NEW d \in Clients
  PROVE  /\ Hist(d)' = Hist(d) /\ Events(d)' = Events(d) /\ Key(d)' = Key(d)
         /\ job[d].store # "events" =>
              Lookup(rows', <<job[d].store, Key(d)>>) = Lookup(rows, <<job[d].store, Key(d)>>)
         /\ loaded'[d] = loaded[d] /\ LoadedOK(d) => LoadedOK(d)'
         /\ loaded'[d] = loaded[d] /\ own'[d] = own[d] /\ OwnRows(d) => OwnRows(d)'
  <1>1. Hist(d)' = Hist(d) /\ Events(d)' = Events(d) /\ Key(d)' = Key(d) BY DEF Hist, Events, Key
  <1>2. job[d].store # "events" =>
          Lookup(rows', <<job[d].store, Key(d)>>) = Lookup(rows, <<job[d].store, Key(d)>>)
    BY HistTypes, RowsKept
  <1>3. loaded'[d] = loaded[d] /\ LoadedOK(d) => LoadedOK(d)' BY <1>1, <1>2 DEF LoadedOK
  <1>4. loaded'[d] = loaded[d] /\ own'[d] = own[d] /\ OwnRows(d) => OwnRows(d)'
    BY <1>1 DEF OwnRows, NextRow
  <1> QED BY <1>1, <1>2, <1>3, <1>4

LEMMA ClientKept ==
  ASSUME DataTypes, RowsInv, UNCHANGED <<history, job, wants>>, \A pk : pk[1] \in Stores => Same(pk),
         NEW d \in Clients, pc'[d] = pc[d], result'[d] = result[d], own'[d] = own[d], loaded'[d] = loaded[d],
         LoadedOK(d), OwnRows(d), Ready(d), Logs(d), Outcome(d)
  PROVE  LoadedOK(d)' /\ OwnRows(d)' /\ Ready(d)' /\ Logs(d)' /\ Outcome(d)'
  <1>1. Hist(d)' = Hist(d) /\ Events(d)' = Events(d) /\ Key(d)' = Key(d) BY LoadedKept
  <1>2. LoadedOK(d)' /\ OwnRows(d)' BY LoadedKept
  <1>3. Ready(d)' BY <1>1, LoadedKept DEF Ready
  <1>4. Logs(d)' BY <1>1 DEF Logs
  <1>5. Outcome(d)' BY DEF Outcome
  <1> QED BY <1>2, <1>3, <1>4, <1>5

\* What a transaction adds to the log.
LEMMA EventsNext ==
  ASSUME DataTypes, NEW c \in Clients, LoadedOK(c), OwnRows(c), Ready(c),
         job[c].kind = "command", pc[c] \in {"outbox", "commit"}, job[c].store = "events"
  PROVE  LET n == Len(Hist(c))
         IN  /\ \A pk \in DOMAIN own[c] : pk[1] = "events" =>
                  \E i \in 1 .. Len(Events(c)) : pk = <<"events", Key(c), n + i>> /\ own[c][pk].event = Events(c)[i]
             /\ \A i \in 1 .. Len(Events(c)) :
                  /\ <<"events", Key(c), n + i>> \in DOMAIN own[c]
                  /\ own[c][<<"events", Key(c), n + i>>].event = Events(c)[i]
             /\ Events(c) # << >> => loaded[c].state = Hist(c)
  <1> DEFINE n == Len(Hist(c))
             E == Events(c)
             v == loaded[c].version
  <1>1. n \in Nat /\ Len(E) \in Nat /\ E \in Seq(AllEvents) BY HistTypes
  <1>2. \A i \in 1 .. Len(E) : loaded[c].state = Hist(c) /\ v = n BY DEF Ready, LoadedOK
  <1>3. \A i \in 1 .. Len(E) : <<"events", Key(c), n + i>> \in DOMAIN own[c] BY <1>2 DEF Ready
  <1>4. ASSUME NEW pk \in DOMAIN own[c], pk[1] = "events"
        PROVE  \E i \in 1 .. Len(E) : pk = <<"events", Key(c), n + i>> /\ own[c][pk].event = E[i]
    <2>1. PICK i \in 1 .. Len(E) : pk = <<"events", Key(c), v + i>> /\ own[c][pk].event = E[i]
      BY <1>4 DEF OwnRows, NextRow, Stores
    <2> QED BY <1>2, <2>1
  <1>5. ASSUME NEW i \in 1 .. Len(E)
        PROVE  own[c][<<"events", Key(c), n + i>>].event = E[i]
    <2> DEFINE pk == <<"events", Key(c), n + i>>
    <2>1. pk \in DOMAIN own[c] /\ pk[1] = "events" BY <1>3
    <2>2. PICK j \in 1 .. Len(E) : pk = <<"events", Key(c), n + j>> /\ own[c][pk].event = E[j] BY <1>4, <2>1
    <2>3. n + i = n + j BY <2>2
    <2>4. i = j BY <1>1, <2>3
    <2> QED BY <2>2, <2>4
  <1>6. E # << >> => 1 \in 1 .. Len(E) BY <1>1
  <1> HIDE DEF E
  <1>7. E # << >> => loaded[c].state = Hist(c) BY <1>2, <1>6
  <1> QED BY <1>3, <1>4, <1>5, <1>7 DEF E

\* The rows and the histories after a commit.
LEMMA CommitSteps ==
  ASSUME DataTypes, OwnTables, HistoryInv, NEW c \in Clients, Commit(c)
  PROVE  LET sk == <<job[c].store, Key(c)>>
         IN  /\ job[c].kind = "command" /\ pc[c] = "commit"
             /\ rows' = Over(own[c], rows)
             /\ history'[sk] = history[sk] \o Events(c) /\ \A x \in Stored : x # sk => history'[x] = history[x]
             /\ \A pk \in DOMAIN own[c] : pk[1] \in Stores => pk[1] = job[c].store
             /\ \A s \in Stores \ {"events"} : \A k : <<s, k>> \in DOMAIN own[c] <=> <<s, k>> = sk
             /\ job[c].store # "events" =>
                  /\ own[c][sk] = [version |-> loaded[c].version + 1, state |-> history[sk] \o Events(c)]
                  /\ loaded[c].version = Lookup(rows, sk).version
             /\ \A k : <<"snapshots", k>> \notin DOMAIN own[c]
             /\ \A x \in Stored, s \in Seq(AllEvents) : IsPrefix(s, history[x]) => IsPrefix(s, history'[x])
  <1> DEFINE sk == <<job[c].store, Key(c)>>
  <1>1. job[c].kind = "command" /\ pc[c] = "commit" BY DEF Commit, At
  <1>2. rows' = Over(own[c], rows) BY SettledRows DEF Commit
  <1>3. sk \in Stored BY HistTypes
  <1>4. history'[sk] = history[sk] \o Events(c) /\ \A x \in Stored : x # sk => history'[x] = history[x]
    BY <1>3 DEF Commit, DataTypes
  <1>5. LoadedOK(c) /\ OwnRows(c) /\ Ready(c) BY DEF HistoryInv
  <1>6. \A pk \in DOMAIN own[c] : pk[1] \in Stores => pk[1] = job[c].store BY <1>5 DEF OwnRows, NextRow
  <1>7. job[c].store # "events" => sk \in DOMAIN own[c] BY <1>1, <1>5 DEF Ready
  <1>8. ASSUME NEW s \in Stores \ {"events"}, NEW k PROVE <<s, k>> \in DOMAIN own[c] <=> <<s, k>> = sk
    <2>1. ASSUME <<s, k>> \in DOMAIN own[c] PROVE <<s, k>> = sk
      <3>1. job[c].store = s BY <1>6, <2>1
      <3>2. NextRow(c, <<s, k>>) BY <1>5, <2>1 DEF OwnRows
      <3> QED BY <3>1, <3>2 DEF NextRow
    <2>2. <<s, k>> = sk => job[c].store = s OBVIOUS
    <2> QED BY <1>7, <2>1, <2>2
  <1>9. ASSUME job[c].store # "events"
        PROVE  /\ own[c][sk] = [version |-> loaded[c].version + 1, state |-> history[sk] \o Events(c)]
               /\ loaded[c].version = Lookup(rows, sk).version
    <2>1. loaded[c].version = Lookup(rows, sk).version BY <1>1, <1>5, <1>9 DEF Ready
    <2>2. loaded[c].state = history[sk] BY <1>5, <1>9, <2>1 DEF LoadedOK, Hist
    <2>3. NextRow(c, sk) BY <1>5, <1>7, <1>9, HistTypes DEF OwnRows
    <2> QED BY <1>9, <2>1, <2>2, <2>3 DEF NextRow
  <1>10. \A k : <<"snapshots", k>> \notin DOMAIN own[c] BY DEF OwnTables, Stores
  <1>11. ASSUME NEW x \in Stored, NEW s \in Seq(AllEvents), IsPrefix(s, history[x]) PROVE IsPrefix(s, history'[x])
    <2>1. history[x] \in Seq(AllEvents) /\ Events(c) \in Seq(AllEvents) BY HistTypes DEF DataTypes
    <2>2. IsPrefix(s, history[x] \o Events(c)) BY <1>11, <2>1, PrefixGrows
    <2> QED BY <1>4, <1>11, <2>2
  <1> QED BY <1>1, <1>2, <1>4, <1>6, <1>8, <1>9, <1>10, <1>11

\* The tables after a commit.
LEMMA CommitRows ==
  ASSUME DataTypes, OwnTables, HistoryInv, NEW c \in Clients, Commit(c)
  PROVE  RowsInv'
  <1> DEFINE sk == <<job[c].store, Key(c)>>
             n == Len(Hist(c))
             E == Events(c)
  <1>1. /\ job[c].kind = "command" /\ pc[c] = "commit"
        /\ rows' = Over(own[c], rows)
        /\ history'[sk] = history[sk] \o E /\ \A x \in Stored : x # sk => history'[x] = history[x]
        /\ \A pk \in DOMAIN own[c] : pk[1] \in Stores => pk[1] = job[c].store
        /\ \A s \in Stores \ {"events"} : \A k : <<s, k>> \in DOMAIN own[c] <=> <<s, k>> = sk
        /\ job[c].store # "events" =>
             own[c][sk] = [version |-> loaded[c].version + 1, state |-> history[sk] \o E]
        /\ \A k : <<"snapshots", k>> \notin DOMAIN own[c]
        /\ \A x \in Stored, s \in Seq(AllEvents) : IsPrefix(s, history[x]) => IsPrefix(s, history'[x])
    BY CommitSteps
  <1>2. LoadedOK(c) /\ OwnRows(c) /\ Ready(c) /\ RowsInv BY DEF HistoryInv
  <1>3. /\ sk \in Stored /\ Hist(c) \in Seq(AllEvents) /\ E \in Seq(AllEvents) /\ n \in Nat /\ Len(E) \in Nat
        /\ job[c].store \in Stores /\ Key(c) \in LockKeys
    BY HistTypes
  <1>4. /\ DOMAIN rows' = DOMAIN own[c] \cup DOMAIN rows
        /\ \A pk \in DOMAIN own[c] : rows'[pk] = own[c][pk]
        /\ \A pk : pk \notin DOMAIN own[c] => Same(pk)
    BY <1>1 DEF Over, Same
  <1>5. \A k \in LockKeys : <<"events", k>> \in Stored /\ history[<<"events", k>>] \in Seq(AllEvents)
    BY DEF Stored, Stores, DataTypes
  <1> HIDE DEF sk, E, n
  <1>6. EventsTable'
    <2>1. EventsTable BY <1>2 DEF RowsInv
    <2>2. CASE job[c].store # "events"
      <3>1. \A pk : pk[1] = "events" => Same(pk) BY <1>1, <1>4, <2>2 DEF Stores
      <3>2. \A k \in LockKeys : history'[<<"events", k>>] = history[<<"events", k>>]
        BY <1>1, <1>5, <2>2 DEF sk
      <3>3. Table(rows', "events") = Table(rows, "events") BY <3>1 DEF Table, Same
      <3>4. ASSUME NEW k \in LockKeys, NEW i \in 1 .. Len(history'[<<"events", k>>])
            PROVE  /\ <<"events", k, i>> \in DOMAIN rows'
                   /\ rows'[<<"events", k, i>>].event = history'[<<"events", k>>][i]
        <4>1. Same(<<"events", k, i>>) BY <3>1
        <4>2. /\ <<"events", k, i>> \in DOMAIN rows
              /\ rows[<<"events", k, i>>].event = history[<<"events", k>>][i]
          BY <2>1, <3>2 DEF EventsTable
        <4> QED BY <3>2, <4>1, <4>2 DEF Same
      <3>5. ASSUME NEW pk \in Table(rows', "events")
            PROVE  \E k \in LockKeys : \E i \in 1 .. Len(history'[<<"events", k>>]) : pk = <<"events", k, i>>
        BY <2>1, <3>2, <3>3 DEF EventsTable
      <3> QED BY <3>4, <3>5 DEF EventsTable
    <2>3. CASE job[c].store = "events"
      <3>1. /\ \A pk \in DOMAIN own[c] : pk[1] = "events" =>
                 \E i \in 1 .. Len(E) : pk = <<"events", Key(c), n + i>> /\ own[c][pk].event = E[i]
            /\ \A i \in 1 .. Len(E) :
                 /\ <<"events", Key(c), n + i>> \in DOMAIN own[c]
                 /\ own[c][<<"events", Key(c), n + i>>].event = E[i]
        BY <1>1, <1>2, <2>3, EventsNext DEF E, n
      <3>2. sk = <<"events", Key(c)>> /\ history[sk] = Hist(c) BY <2>3 DEF sk, Hist
      <3>3. /\ Len(history'[sk]) = n + Len(E)
            /\ \A i \in 1 .. n : history'[sk][i] = history[sk][i]
            /\ \A i \in 1 .. Len(E) : history'[sk][n + i] = E[i]
        BY <1>1, <1>3, <3>2 DEF n
      <3>4. \A k \in LockKeys : k # Key(c) => history'[<<"events", k>>] = history[<<"events", k>>]
        BY <1>1, <1>5, <3>2
      <3>5. \A k \in LockKeys : \A i \in 1 .. Len(history[<<"events", k>>]) : i \in 1 .. Len(history'[<<"events", k>>])
        <4>1. ASSUME NEW k \in LockKeys, NEW i \in 1 .. Len(history[<<"events", k>>])
              PROVE  i \in 1 .. Len(history'[<<"events", k>>])
          <5>1. CASE k # Key(c) BY <3>4, <5>1
          <5>2. CASE k = Key(c)
            <6>1. i \in 1 .. n BY <3>2, <5>2 DEF n
            <6> QED BY <1>3, <3>2, <3>3, <5>2, <6>1
          <5> QED BY <5>1, <5>2
        <4> QED BY <4>1
      <3>6. ASSUME NEW pk \in Table(rows', "events")
            PROVE  \E k \in LockKeys : \E i \in 1 .. Len(history'[<<"events", k>>]) : pk = <<"events", k, i>>
        <4>1. CASE pk \in DOMAIN own[c]
          <5>1. PICK i \in 1 .. Len(E) : pk = <<"events", Key(c), n + i>> BY <3>1, <3>6, <4>1 DEF Table
          <5>2. n + i \in 1 .. Len(history'[<<"events", Key(c)>>]) BY <1>3, <3>2, <3>3
          <5> QED BY <1>3, <5>1, <5>2
        <4>2. CASE pk \notin DOMAIN own[c]
          <5>1. pk \in Table(rows, "events") BY <1>4, <3>6, <4>2 DEF Table
          <5>2. PICK k \in LockKeys : \E i \in 1 .. Len(history[<<"events", k>>]) : pk = <<"events", k, i>>
            BY <2>1, <5>1 DEF EventsTable
          <5> QED BY <3>5, <5>2
        <4> QED BY <4>1, <4>2
      <3>7. ASSUME NEW k \in LockKeys, NEW i \in 1 .. Len(history[<<"events", k>>])
            PROVE  <<"events", k, i>> \notin DOMAIN own[c]
        <4> DEFINE pk == <<"events", k, i>>
        <4>1. SUFFICES ASSUME pk \in DOMAIN own[c] PROVE FALSE OBVIOUS
        <4>2. PICK j \in 1 .. Len(E) : pk = <<"events", Key(c), n + j>> BY <3>1, <4>1
        <4>3. k = Key(c) /\ i = n + j BY <4>2
        <4>4. i \in 1 .. n BY <3>2, <4>3 DEF n
        <4> QED BY <1>3, <4>3, <4>4
      <3>8. ASSUME NEW k \in LockKeys, NEW i \in 1 .. Len(history'[<<"events", k>>])
            PROVE  /\ <<"events", k, i>> \in DOMAIN rows'
                   /\ rows'[<<"events", k, i>>].event = history'[<<"events", k>>][i]
        <4>1. CASE k # Key(c) \/ i \in 1 .. n
          <5>1. i \in 1 .. Len(history[<<"events", k>>]) BY <3>2, <3>4, <4>1 DEF n
          <5>2. Same(<<"events", k, i>>) BY <1>4, <3>7, <5>1
          <5>3. /\ <<"events", k, i>> \in DOMAIN rows
                /\ rows[<<"events", k, i>>].event = history[<<"events", k>>][i]
            BY <2>1, <5>1 DEF EventsTable
          <5>4. history'[<<"events", k>>][i] = history[<<"events", k>>][i] BY <3>2, <3>3, <3>4, <4>1
          <5> QED BY <5>2, <5>3, <5>4 DEF Same
        <4>2. CASE k = Key(c) /\ i \notin 1 .. n
          <5>1. i \in 1 .. n + Len(E) BY <3>2, <3>3, <4>2
          <5>2. i - n \in 1 .. Len(E) /\ n + (i - n) = i BY <1>3, <4>2, <5>1
          <5>3. /\ <<"events", k, i>> \in DOMAIN own[c]
                /\ own[c][<<"events", k, i>>].event = E[i - n]
            BY <3>1, <4>2, <5>2
          <5>4. history'[<<"events", k>>][i] = E[i - n] BY <3>2, <3>3, <4>2, <5>2
          <5> QED BY <1>4, <5>3, <5>4
        <4> QED BY <4>1, <4>2
      <3> QED BY <3>6, <3>8 DEF EventsTable
    <2> QED BY <2>2, <2>3
  <1>7. ASSUME NEW k \in LockKeys, NEW s \in Stores \ {"events"} PROVE StateRow(s, k)'
    <2>1. <<s, k>> \in Stored BY DEF Stored
    <2>2. CASE <<s, k>> = sk
      <3>1. job[c].store # "events" /\ <<s, k>> \in DOMAIN own[c] BY <1>1, <2>2 DEF sk
      <3>2. rows'[<<s, k>>] = [version |-> loaded[c].version + 1, state |-> history'[<<s, k>>]]
        BY <1>1, <1>4, <2>2, <3>1
      <3>3. loaded[c].version \in Nat BY <1>2, <3>1 DEF LoadedOK
      <3>4. <<s, k>> \in DOMAIN rows' BY <1>4, <3>1
      <3> QED BY <3>2, <3>3, <3>4 DEF StateRow
    <2>3. CASE <<s, k>> # sk
      <3>1. Same(<<s, k>>) /\ history'[<<s, k>>] = history[<<s, k>>] BY <1>1, <1>4, <2>1, <2>3
      <3>2. StateRow(s, k) BY <1>2 DEF RowsInv
      <3> QED BY <3>1, <3>2 DEF StateRow, Same
    <2> QED BY <2>2, <2>3
  <1>8. ASSUME NEW k \in LockKeys PROVE SnapshotRow(k)'
    <2>1. Same(<<"snapshots", k>>) BY <1>1, <1>4
    <2>2. SnapshotRow(k) BY <1>2 DEF RowsInv
    <2> QED BY <1>1, <1>5, <2>1, <2>2 DEF SnapshotRow, Same
  <1> QED BY <1>6, <1>7, <1>8 DEF RowsInv

\* What is known of the clients after a commit.
LEMMA CommitLoaded ==
  ASSUME DataTypes, OwnTables, HistoryInv, NEW c \in Clients, Commit(c), NEW d \in Clients,
         UNCHANGED <<job, wants>>, loaded'[d] = loaded[d]
  PROVE  LoadedOK(d)'
  <1> DEFINE sk == <<job[c].store, Key(c)>>
             x == <<job[d].store, Key(d)>>
  <1>1. /\ rows' = Over(own[c], rows)
        /\ history'[sk] = history[sk] \o Events(c) /\ \A y \in Stored : y # sk => history'[y] = history[y]
        /\ \A s \in Stores \ {"events"} : \A k : <<s, k>> \in DOMAIN own[c] <=> <<s, k>> = sk
        /\ job[c].store # "events" =>
             /\ own[c][sk] = [version |-> loaded[c].version + 1, state |-> history[sk] \o Events(c)]
             /\ loaded[c].version = Lookup(rows, sk).version
        /\ \A y \in Stored, s \in Seq(AllEvents) : IsPrefix(s, history[y]) => IsPrefix(s, history'[y])
    BY CommitSteps
  <1>2. LoadedOK(d) /\ LoadedOK(c) BY DEF HistoryInv
  <1>3. /\ x \in Stored /\ Hist(d) \in Seq(AllEvents) /\ Hist(d) = history[x] /\ Hist(d)' = history'[x]
        /\ job[d].store \in Stores /\ Key(d)' = Key(d) /\ job'[d] = job[d]
    BY HistTypes DEF Hist, Key
  <1>4. Events(c) \in Seq(AllEvents) /\ (CommandsDecide => Events(c) # << >>)
    BY HistTypes DEF CommandsDecide, Events
  <1>5. loaded[d].state \in Seq(AllEvents) /\ IsPrefix(loaded[d].state, Hist(d)') BY <1>1, <1>2, <1>3 DEF LoadedOK
  <1> HIDE DEF sk, x
  <1>6. CASE job[d].store = "events" BY <1>2, <1>3, <1>5, <1>6 DEF LoadedOK
  <1>7. CASE job[d].store # "events" /\ x # sk
    <2>1. x \notin DOMAIN own[c] BY <1>1, <1>3, <1>7 DEF x
    <2>2. Lookup(rows', x) = Lookup(rows, x) BY <1>1, <2>1 DEF Lookup, Over
    <2>3. Hist(d)' = Hist(d) BY <1>1, <1>3, <1>7
    <2> QED BY <1>2, <1>3, <1>5, <1>7, <2>2, <2>3 DEF LoadedOK, x
  <1>8. CASE job[d].store # "events" /\ x = sk
    <2>1. job[c].store # "events" BY <1>8 DEF sk, x
    <2>2. x \in DOMAIN own[c] BY <1>1, <1>3, <1>8 DEF x
    <2>3. Lookup(rows', x) = [version |-> loaded[c].version + 1, state |-> history[sk] \o Events(c)]
      BY <1>1, <1>8, <2>1, <2>2 DEF Lookup, Over
    <2>4. Lookup(rows', x).version = Lookup(rows, x).version + 1 BY <1>1, <1>8, <2>1, <2>3
    <2>5. Lookup(rows, x).version \in Nat BY <1>1, <1>2, <1>8, <2>1 DEF LoadedOK
    <2>6. loaded[d].version \in Nat /\ loaded[d].version <= Lookup(rows, x).version BY <1>2, <1>8 DEF LoadedOK, x
    <2>7. loaded[d].version < Lookup(rows', x).version BY <2>4, <2>5, <2>6
    <2>8. Len(loaded[d].state) <= Len(Hist(d)) BY <1>2, <1>3, <1>5, PrefixIs DEF LoadedOK
    <2>9. Len(Hist(d)') = Len(Hist(d)) + Len(Events(c))
      <3>1. Hist(d)' = Hist(d) \o Events(c) BY <1>1, <1>3, <1>8
      <3> QED BY <1>3, <1>4, <3>1
    <2>10. CommandsDecide => Len(Events(c)) > 0 BY <1>4
    <2>11. Len(Events(c)) \in Nat /\ Len(Hist(d)) \in Nat /\ Len(loaded[d].state) \in Nat BY <1>3, <1>4, <1>5
    <2>12. CommandsDecide => Len(loaded[d].state) < Len(Hist(d)') BY <2>8, <2>9, <2>10, <2>11
    <2>13. Lookup(rows', x).version \in Nat BY <2>4, <2>5
    <2>14. loaded[d].version <= Lookup(rows', x).version /\ loaded[d].version # Lookup(rows', x).version
      BY <2>6, <2>7, <2>13
    <2>15. CommandsDecide' = CommandsDecide BY DEF CommandsDecide
    <2> QED BY <1>3, <1>5, <1>8, <2>6, <2>12, <2>14, <2>15 DEF LoadedOK, x
  <1> QED BY <1>6, <1>7, <1>8

LEMMA CommitReady ==
  ASSUME DataTypes, OwnTables, HistoryInv, NEW c \in Clients, Commit(c), NEW d \in Clients \ {c},
         UNCHANGED <<job, wants>>, loaded'[d] = loaded[d], own'[d] = own[d], pc'[d] = pc[d]
  PROVE  Ready(d)'
  <1> DEFINE sk == <<job[c].store, Key(c)>>
             x == <<job[d].store, Key(d)>>
  <1>1. /\ job[c].kind = "command" /\ pc[c] = "commit"
        /\ rows' = Over(own[c], rows)
        /\ history'[sk] = history[sk] \o Events(c) /\ \A y \in Stored : y # sk => history'[y] = history[y]
        /\ \A s \in Stores \ {"events"} : \A k : <<s, k>> \in DOMAIN own[c] <=> <<s, k>> = sk
    BY CommitSteps
  <1>2. Ready(d) /\ LoadedOK(d) /\ LoadedOK(c) /\ OwnRows(c) /\ Ready(c) /\ Exclusive BY DEF HistoryInv
  <1>3. /\ x \in Stored /\ Hist(d) \in Seq(AllEvents) /\ Hist(d) = history[x] /\ Hist(d)' = history'[x]
        /\ job[d].store \in Stores /\ Key(d)' = Key(d) /\ job'[d] = job[d] /\ Events(d)' = Events(d)
        /\ Hist(c) = history[sk] /\ Hist(c) \in Seq(AllEvents)
    BY HistTypes DEF Hist, Key, Events
  <1>4. Events(c) \in Seq(AllEvents) BY HistTypes
  <1> HIDE DEF sk, x
  <1>5. SUFFICES ASSUME job[d].kind = "command", pc[d] \in {"outbox", "commit"} PROVE Ready(d)'
    BY <1>3 DEF Ready
  <1>6. CASE x # sk
    <2>1. Hist(d)' = Hist(d) BY <1>1, <1>3, <1>6
    <2>2. job[d].store # "events" => Lookup(rows', x) = Lookup(rows, x)
      BY <1>1, <1>3, <1>6 DEF Lookup, Over, x
    <2> QED BY <1>2, <1>3, <2>1, <2>2 DEF Ready, x
  <1>7. CASE x = sk /\ job[d].store # "events"
    <2>1. x \in DOMAIN own[d] BY <1>2, <1>5, <1>7 DEF Ready, x
    <2>2. x \in DOMAIN own[c] BY <1>1, <1>3, <1>7 DEF x
    <2>3. x[1] \in Stores BY <1>3 DEF x
    <2> QED BY <1>2, <2>1, <2>2, <2>3 DEF Exclusive
  <1>8. CASE x = sk /\ job[d].store = "events"
    <2>1. job[c].store = "events" /\ Key(c) = Key(d) BY <1>8 DEF sk, x
    <2>2. CASE Events(c) = << >>
      <3>1. Hist(d)' = Hist(d) BY <1>1, <1>3, <1>8, <2>2
      <3> QED BY <1>2, <1>3, <1>5, <1>8, <3>1 DEF Ready
    <2>3. CASE Events(d) = << >>
      <3>1. Len(Events(d)) = 0 BY <2>3
      <3> HIDE DEF Events
      <3> QED BY <1>3, <1>8, <3>1 DEF Ready
    <2>4. CASE Events(c) # << >> /\ Events(d) # << >>
      <3> DEFINE n == Len(Hist(c))
      <3>1. Events(d) \in Seq(AllEvents) BY HistTypes
      <3>2. 1 \in 1 .. Len(Events(c)) /\ 1 \in 1 .. Len(Events(d)) BY <1>4, <2>4, <3>1
      <3>3. loaded[d].state = Hist(d) /\ <<"events", Key(d), loaded[d].version + 1>> \in DOMAIN own[d]
        BY <1>2, <1>5, <1>8, <3>2 DEF Ready
      <3>4. loaded[d].version = n BY <1>2, <1>3, <1>8, <3>3 DEF LoadedOK
      <3>5. <<"events", Key(c), n + 1>> \in DOMAIN own[c] BY <1>1, <1>2, <2>1, <3>2, EventsNext
      <3>6. <<"events", Key(c), n + 1>> \in DOMAIN own[d] BY <2>1, <3>3, <3>4
      <3> DEFINE pk == <<"events", Key(c), n + 1>>
      <3>7. pk[1] \in Stores BY DEF Stores
      <3> QED BY <1>2, <3>5, <3>6, <3>7 DEF Exclusive
    <2> QED BY <2>2, <2>3, <2>4
  <1> QED BY <1>6, <1>7, <1>8

LEMMA CommitKeeps ==
  ASSUME DataTypes, OwnTables, HistoryInv, NEW c \in Clients, Commit(c), Others(c)
  PROVE  HistoryInv'
  <1> DEFINE sk == <<job[c].store, Key(c)>>
  <1>1. /\ job[c].kind = "command" /\ pc[c] = "commit"
        /\ history'[sk] = history[sk] \o Events(c)
        /\ \A y \in Stored, s \in Seq(AllEvents) : IsPrefix(s, history[y]) => IsPrefix(s, history'[y])
    BY CommitSteps
  <1>2. UNCHANGED <<job, wants, loaded, result>> /\ own' = [own EXCEPT ![c] = << >>]
    BY SettledRows DEF Commit, Others
  <1>3. own'[c] = << >> /\ \A d \in Clients \ {c} : own'[d] = own[d] /\ pc'[d] = pc[d]
    BY <1>2 DEF DataTypes, IsFcn, Others
  <1>4. pc'[c] \in {"unlock", "find", "publish"} /\ (pc'[c] = "find" => job[c].store = "events")
    BY DEF Commit, Goto, AfterCommit, DataTypes
  <1>5. \A d \in Clients : /\ Hist(d) = history[<<job[d].store, Key(d)>>]
                           /\ Hist(d)' = history'[<<job[d].store, Key(d)>>]
                           /\ Events(d)' = Events(d) /\ Key(d)' = Key(d) /\ job'[d] = job[d]
    BY <1>2 DEF Hist, Key, Events
  <1>6. \A d \in Clients : LoadedOK(d) /\ OwnRows(d) /\ Ready(d) /\ Logs(d) /\ Outcome(d) BY DEF HistoryInv
  <1>7. RowsInv' BY CommitRows
  <1>8. \A d \in Clients : LoadedOK(d)' BY <1>2, CommitLoaded
  <1>9. Exclusive'
    <2>1. \A d \in Clients : DOMAIN own'[d] \subseteq DOMAIN own[d] BY <1>3
    <2>2. Exclusive BY DEF HistoryInv
    <2> QED BY <2>1, <2>2 DEF Exclusive
  <1>10. \A d \in Clients : OwnRows(d)'
    <2>1. OwnRows(c)' BY <1>3 DEF OwnRows
    <2>2. ASSUME NEW d \in Clients \ {c} PROVE OwnRows(d)'
      <3>1. own'[d] = own[d] /\ loaded'[d] = loaded[d] /\ job'[d] = job[d] /\ Events(d)' = Events(d) /\ Key(d)' = Key(d)
        BY <1>2, <1>3, <1>5
      <3>2. OwnRows(d) BY <1>6
      <3> QED BY <3>1, <3>2 DEF OwnRows, NextRow
    <2> QED BY <2>1, <2>2
  <1>11. \A d \in Clients : Ready(d)'
    <2>1. Ready(c)' BY <1>4 DEF Ready
    <2>2. ASSUME NEW d \in Clients \ {c} PROVE Ready(d)' BY <1>2, <1>3, CommitReady
    <2> QED BY <2>1, <2>2
  <1>12. \A d \in Clients : Outcome(d)' BY <1>1, <1>2, <1>3, <1>4, <1>6 DEF Outcome
  <1>13. ASSUME NEW d \in Clients PROVE Logs(d)'
    <2>1. /\ <<job[d].store, Key(d)>> \in Stored /\ Hist(d) \in Seq(AllEvents) /\ Events(d) \in Seq(AllEvents)
          /\ loaded[d].state \in Seq(AllEvents)
      BY <1>6, HistTypes DEF LoadedOK
    <2>2. loaded[d].state \o Events(d) \in Seq(AllEvents) BY <2>1
    <2>3. CASE d # c
      <3>1. IsPrefix(loaded[d].state \o Events(d), Hist(d)) => IsPrefix(loaded[d].state \o Events(d), Hist(d)')
        BY <1>1, <1>5, <2>1, <2>2
      <3> QED BY <1>2, <1>3, <1>5, <1>6, <2>3, <3>1 DEF Logs
    <2>4. CASE d = c
      <3>1. job[c].store = "events" => IsPrefix(loaded[c].state \o Events(c), Hist(c)')
        <4>1. SUFFICES ASSUME job[c].store = "events" PROVE IsPrefix(loaded[c].state \o Events(c), Hist(c)') OBVIOUS
        <4>2. CASE Events(c) # << >>
          <5>1. loaded[c].state = Hist(c) BY <1>1, <1>6, <4>1, <4>2, EventsNext
          <5>2. Hist(c)' = loaded[c].state \o Events(c) BY <1>1, <1>5, <5>1
          <5> DEFINE s == loaded[c].state \o Events(c)
          <5>3. s \in Seq(AllEvents) BY <2>2, <2>4
          <5> HIDE DEF s
          <5>4. IsPrefix(s, s) BY <5>3, PrefixIs
          <5> QED BY <5>2, <5>4 DEF s
        <4>3. CASE Events(c) = << >>
          <5>1. loaded[c].state \o Events(c) = loaded[c].state BY <2>1, <2>4, <4>3
          <5>2. IsPrefix(loaded[c].state, Hist(c)') BY <1>8, <1>2 DEF LoadedOK
          <5> QED BY <5>1, <5>2
        <4> QED BY <4>2, <4>3
      <3> QED BY <1>2, <1>4, <1>5, <2>4, <3>1 DEF Logs
    <2> QED BY <2>3, <2>4
  <1> QED BY <1>7, <1>8, <1>9, <1>10, <1>11, <1>12, <1>13 DEF HistoryInv
-----------------------------------------------------------------------------
\* After a save the transaction holds what comes next, all of it, or the command has
\* met a row that was committed after it had loaded.
SaveHolds(c) ==
  /\ DOMAIN own'[c] = SaveTargets(c) /\ pc'[c] \in {"outbox", "commit"} /\ result'[c] = result[c]
  /\ \A pk \in DOMAIN own'[c] : NextRow(c, pk)'
  /\ Ready(c)'
  /\ job[c].store = "events" => own'[c] = EventRows(Key(c), Events(c), loaded[c].version, serial)
SaveConflicts(c) ==
  /\ DOMAIN own'[c] = {} /\ pc'[c] = "rollback" /\ result'[c] = "conflict"
  /\ CommandsDecide /\ Driver # "postgres-js" => Len(loaded[c].state) < Len(Hist(c))

\* The rows of a command's events.
LEMMA EventRowsAre ==
  ASSUME DataTypes, NEW c \in Clients, loaded[c].version \in Nat
  PROVE  LET E == Events(c)
             v == loaded[c].version
             new == EventRows(Key(c), E, v, serial)
         IN  /\ DOMAIN new = {<<"events", Key(c), v + i>> : i \in 1 .. Len(E)}
             /\ \A i \in 1 .. Len(E) : new[<<"events", Key(c), v + i>>] = [event |-> E[i], id |-> serial + i]
  <1> DEFINE E == Events(c)
             v == loaded[c].version
             new == EventRows(Key(c), E, v, serial)
             pks == {<<"events", Key(c), v + i>> : i \in DOMAIN E}
  <1>1. E \in Seq(AllEvents) /\ DOMAIN E = 1 .. Len(E) /\ Len(E) \in Nat
    <2>1. E \in Seq(AllEvents) BY HistTypes
    <2> HIDE DEF E
    <2> QED BY <2>1
  <1>2. new = [pk \in pks |-> [event |-> E[pk[3] - v], id |-> serial + pk[3] - v]] BY DEF EventRows
  <1>3. ASSUME NEW i \in 1 .. Len(E)
        PROVE  new[<<"events", Key(c), v + i>>] = [event |-> E[i], id |-> serial + i]
    <2> DEFINE pk == <<"events", Key(c), v + i>>
    <2>1. pk \in pks BY <1>1
    <2>2. pk[3] = v + i OBVIOUS
    <2> HIDE DEF pk, pks, new
    <2>3. new[pk] = [event |-> E[pk[3] - v], id |-> serial + pk[3] - v] BY <1>2, <2>1
    <2>4. pk[3] - v = i /\ serial + pk[3] - v = serial + i BY <2>2 DEF DataTypes
    <2> QED BY <2>3, <2>4 DEF pk
  <1> HIDE DEF new
  <1>4. DOMAIN new = {<<"events", Key(c), v + i>> : i \in 1 .. Len(E)} BY <1>1, <1>2
  <1> QED BY <1>3, <1>4 DEF new

LEMMA SaveEvents ==
  ASSUME DataTypes, OutboxInv, HistoryInv, NEW c \in Clients, Save(c), Others(c), job[c].store = "events"
  PROVE  SaveHolds(c) \/ SaveConflicts(c)
  <1> DEFINE E == Events(c)
             v == loaded[c].version
             new == EventRows(Key(c), E, v, serial)
             reply == Saved(c)
             next == IF job[c].outbox THEN "outbox" ELSE "commit"
  <1>1. /\ job[c].kind = "command" /\ pc[c] = "save" /\ UNCHANGED <<rows, history, job, wants, loaded>>
        /\ Operation(c, reply, next)
    BY DEF Save, At, Others
  <1>2. DOMAIN own[c] = {} BY <1>1, OwnNothing DEF InTransaction
  <1>3. LoadedOK(c) /\ EventsTable BY DEF HistoryInv, RowsInv
  <1>4. /\ Hist(c) \in Seq(AllEvents) /\ E \in Seq(AllEvents) /\ Len(Hist(c)) \in Nat /\ Len(E) \in Nat
        /\ Key(c) \in LockKeys /\ Hist(c) = history[<<"events", Key(c)>>]
    BY HistTypes DEF Hist
  <1>5. /\ loaded[c].state \in Seq(AllEvents) /\ v = Len(loaded[c].state) /\ v \in Nat /\ v <= Len(Hist(c))
        /\ \A i \in 1 .. v : loaded[c].state[i] = Hist(c)[i]
    <2>1. loaded[c].state \in Seq(AllEvents) /\ IsPrefix(loaded[c].state, Hist(c)) /\ v = Len(loaded[c].state)
      BY <1>3 DEF LoadedOK
    <2>2. /\ Len(loaded[c].state) <= Len(Hist(c))
          /\ \A i \in 1 .. Len(loaded[c].state) : loaded[c].state[i] = Hist(c)[i]
      <3> DEFINE s == loaded[c].state
                 t == Hist(c)
      <3>1. s \in Seq(AllEvents) /\ t \in Seq(AllEvents) /\ IsPrefix(s, t) BY <1>4, <2>1
      <3> HIDE DEF s, t
      <3>2. Len(s) <= Len(t) /\ \A i \in 1 .. Len(s) : s[i] = t[i] BY <3>1, PrefixIs
      <3> QED BY <3>2 DEF s, t
    <2>3. Len(loaded[c].state) \in Nat BY <2>1
    <2> HIDE DEF v
    <2> QED BY <2>1, <2>2, <2>3
  <1>6. Hist(c)' = Hist(c) /\ Events(c)' = Events(c) /\ Key(c)' = Key(c) BY <1>1 DEF Hist, Events, Key
  <1>7. /\ DOMAIN new = {<<"events", Key(c), v + i>> : i \in 1 .. Len(E)}
        /\ \A i \in 1 .. Len(E) : new[<<"events", Key(c), v + i>>] = [event |-> E[i], id |-> serial + i]
    BY <1>5, EventRowsAre
  <1>8. DOMAIN Seen(c) = DOMAIN rows BY <1>2, SeenRows DEF Over
  <1>9. /\ own'[c] = Over(reply.new, own[c])
        /\ pc'[c] = IF reply.error = "none" THEN next ELSE "rollback"
        /\ result'[c] = IF reply.error = "ConcurrencyError" THEN "conflict"
                        ELSE IF reply.error # "none" THEN "failed" ELSE result[c]
    BY <1>1, OperationOwn
  <1>10. next \in {"outbox", "commit"} OBVIOUS
  <1>11. /\ DOMAIN new \cap DOMAIN Seen(c) = {} => reply.error = "none" /\ reply.new = new
         /\ DOMAIN new \cap DOMAIN Seen(c) # {} => reply.error = "ConcurrencyError" /\ reply.new = << >>
    BY SavedEvents
  <1>12. SaveTargets(c) = DOMAIN new BY DEF SaveTargets
  <1>13. new = [pk \in DOMAIN new |-> new[pk]] BY DEF EventRows
  <1> HIDE DEF new, reply, next, E, v
  <1>14. CASE DOMAIN new \cap DOMAIN rows = {}
    <2>1. reply.error = "none" /\ reply.new = new BY <1>8, <1>11, <1>14
    <2>2. own'[c] = new
      <3>1. own'[c] = [pk \in DOMAIN new |-> new[pk]] BY <1>2, <1>9, <2>1 DEF Over
      <3> QED BY <1>13, <3>1
    <2>3. \A i \in 1 .. Len(E) : loaded[c].state = Hist(c)
      <3>1. SUFFICES ASSUME NEW i \in 1 .. Len(E) PROVE loaded[c].state = Hist(c) OBVIOUS
      <3>2. v = Len(Hist(c))
        <4>1. SUFFICES ASSUME v < Len(Hist(c)) PROVE FALSE BY <1>4, <1>5
        <4>2. 1 \in 1 .. Len(E) /\ v + 1 \in 1 .. Len(Hist(c)) BY <1>4, <1>5, <4>1
        <4>3. <<"events", Key(c), v + 1>> \in DOMAIN rows BY <1>3, <1>4, <4>2 DEF EventsTable
        <4>4. <<"events", Key(c), v + 1>> \in DOMAIN new BY <1>7, <4>2
        <4> QED BY <1>14, <4>3, <4>4
      <3>3. IsPrefix(loaded[c].state, Hist(c)) /\ Len(loaded[c].state) = Len(Hist(c)) BY <1>3, <1>5, <3>2 DEF LoadedOK
      <3> QED BY <1>4, <1>5, <3>3, PrefixWhole
    <2>4. \A i \in 1 .. Len(E) : <<"events", Key(c), v + i>> \in DOMAIN new BY <1>7
    <2>5. Ready(c)'
      <3>1. job'[c] = job[c] /\ loaded'[c] = loaded[c] BY <1>1
      <3> QED BY <1>6, <2>2, <2>3, <2>4, <3>1 DEF Ready, E, v
    <2>6. ASSUME NEW pk \in DOMAIN own'[c] PROVE NextRow(c, pk)'
      <3>1. PICK i \in 1 .. Len(E) : pk = <<"events", Key(c), v + i>> BY <1>7, <2>2
      <3>2. new[pk] = [event |-> E[i], id |-> serial + i] BY <1>7, <3>1
      <3>3. job'[c] = job[c] /\ loaded'[c] = loaded[c] BY <1>1
      <3> QED BY <1>6, <2>2, <3>1, <3>2, <3>3 DEF NextRow, E, v
    <2> QED BY <1>9, <1>10, <1>12, <2>1, <2>2, <2>5, <2>6 DEF SaveHolds, new, E, v
  <1>15. CASE DOMAIN new \cap DOMAIN rows # {}
    <2>1. reply.error = "ConcurrencyError" /\ reply.new = << >> BY <1>8, <1>11, <1>15
    <2>2. DOMAIN own'[c] = {} BY <1>2, <1>9, <2>1 DEF Over
    <2>3. PICK i \in 1 .. Len(E) : <<"events", Key(c), v + i>> \in DOMAIN rows BY <1>7, <1>15
    <2> DEFINE pk == <<"events", Key(c), v + i>>
    <2>4. pk \in Table(rows, "events") BY <2>3 DEF Table
    <2>5. PICK k \in LockKeys : \E j \in 1 .. Len(history[<<"events", k>>]) : pk = <<"events", k, j>>
      BY <1>3, <2>4 DEF EventsTable
    <2>6. PICK j \in 1 .. Len(history[<<"events", k>>]) : pk = <<"events", k, j>> BY <2>5
    <2>7. k = Key(c) /\ j = v + i BY <2>6
    <2>8. v + i \in 1 .. Len(Hist(c)) BY <1>4, <2>6, <2>7
    <2>9. Len(loaded[c].state) < Len(Hist(c)) BY <1>4, <1>5, <2>8
    <2> QED BY <1>9, <2>1, <2>2, <2>9 DEF SaveConflicts
  <1> QED BY <1>14, <1>15

LEMMA SaveState ==
  ASSUME DataTypes, OutboxInv, HistoryInv, NEW c \in Clients, Save(c), Others(c), job[c].store # "events"
  PROVE  SaveHolds(c) \/ SaveConflicts(c)
  <1> DEFINE pk == <<job[c].store, Key(c)>>
             x == loaded[c].version
             row == [version |-> x + 1, state |-> loaded[c].state \o Events(c)]
             versioned == VersionedSave(Seen(c), pk, row, x)
             reply == Saved(c)
             next == IF job[c].outbox THEN "outbox" ELSE "commit"
  <1>1. /\ job[c].kind = "command" /\ pc[c] = "save" /\ UNCHANGED <<rows, history, job, wants, loaded>>
        /\ Operation(c, reply, next)
    BY DEF Save, At, Others
  <1>2. DOMAIN own[c] = {} BY <1>1, OwnNothing DEF InTransaction
  <1>3. LoadedOK(c) /\ RowsInv BY DEF HistoryInv
  <1>4. job[c].store \in Stores \ {"events"} /\ Key(c) \in LockKeys BY HistTypes
  <1>5. Hist(c)' = Hist(c) /\ Events(c)' = Events(c) /\ Key(c)' = Key(c) BY <1>1 DEF Hist, Events, Key
  <1>6. DOMAIN Seen(c) = DOMAIN rows /\ \A p \in DOMAIN rows : Seen(c)[p] = rows[p]
    BY <1>2, SeenRows DEF Over
  <1>7. /\ own'[c] = Over(reply.new, own[c])
        /\ pc'[c] = IF reply.error = "none" THEN next ELSE "rollback"
        /\ result'[c] = IF reply.error = "ConcurrencyError" THEN "conflict"
                        ELSE IF reply.error # "none" THEN "failed" ELSE result[c]
    BY <1>1, OperationOwn
  <1>8. next \in {"outbox", "commit"} OBVIOUS
  <1>9. reply = versioned \/ (reply = Refuse /\ Driver = "postgres-js")
    <2>1. job[c].store = "sagas" => locker.adapter \in {"drizzle", "prisma"} BY DEF DataTypes, Lockers
    <2> QED BY <1>4, <2>1, SavedState
  <1>10. \/ /\ versioned.error = "none" /\ DOMAIN versioned.new = {pk} /\ versioned.new[pk] = row
            /\ \/ x = 0 /\ pk \notin DOMAIN Seen(c)
               \/ x # 0 /\ pk \in DOMAIN Seen(c) /\ Seen(c)[pk].version = x
         \/ /\ versioned = Refuse
            /\ \/ x = 0 /\ pk \in DOMAIN Seen(c)
               \/ x # 0 /\ Lookup(Seen(c), pk).version # x
    BY VersionedReply
  <1>11. Lookup(Seen(c), pk) = Lookup(rows, pk) BY <1>6 DEF Lookup
  <1>12. SaveTargets(c) = {pk} BY <1>4 DEF SaveTargets
  <1>13. /\ x \in Nat /\ x <= Lookup(rows, pk).version
         /\ CommandsDecide /\ x < Lookup(rows, pk).version => Len(loaded[c].state) < Len(Hist(c))
    BY <1>3, <1>4 DEF LoadedOK
  <1>14. pk \in DOMAIN rows => Lookup(rows, pk).version \in Nat \ {0} BY <1>3, <1>4 DEF RowsInv, StateRow, Lookup
  <1>15. pk \notin DOMAIN rows => Lookup(rows, pk).version = 0 BY DEF Lookup, NoRow
  <1> HIDE DEF versioned, reply, next
  <1>16. CASE reply = versioned /\ versioned.error = "none"
    <2>1. versioned # Refuse BY <1>16, RefuseReply
    <2>2. /\ DOMAIN reply.new = {pk} /\ reply.new[pk] = row
          /\ \/ x = 0 /\ pk \notin DOMAIN rows
             \/ pk \in DOMAIN rows /\ rows[pk].version = x
      BY <1>6, <1>10, <1>16, <2>1
    <2>3. x = Lookup(rows, pk).version BY <1>15, <2>2 DEF Lookup
    <2> HIDE DEF pk, row
    <2>4. DOMAIN own'[c] = {pk} /\ own'[c][pk] = row BY <1>2, <1>7, <2>2 DEF Over
    <2>5. job'[c] = job[c] /\ loaded'[c] = loaded[c] /\ rows' = rows BY <1>1
    <2>6. Ready(c)' BY <1>5, <1>4, <2>3, <2>4, <2>5 DEF Ready, pk
    <2>7. \A p \in DOMAIN own'[c] : NextRow(c, p)' BY <1>4, <1>5, <2>4, <2>5 DEF NextRow, pk, row
    <2> QED BY <1>4, <1>7, <1>8, <1>12, <1>16, <2>4, <2>6, <2>7 DEF SaveHolds
  <1>17. CASE reply = Refuse
    <2>1. reply.error = "ConcurrencyError" /\ reply.new = << >> BY <1>17, RefuseReply
    <2>2. DOMAIN own'[c] = {} BY <1>2, <1>7, <2>1 DEF Over
    <2>3. ASSUME CommandsDecide, Driver # "postgres-js" PROVE Len(loaded[c].state) < Len(Hist(c))
      <3>1. versioned = Refuse /\ versioned.error # "none" BY <1>9, <1>17, <2>3, RefuseReply
      <3>2. \/ x = 0 /\ pk \in DOMAIN rows
            \/ x # 0 /\ Lookup(rows, pk).version # x
        BY <1>6, <1>10, <1>11, <3>1
      <3>3. Lookup(rows, pk).version \in Nat BY <1>14, <1>15
      <3>4. x < Lookup(rows, pk).version BY <1>13, <1>14, <3>2, <3>3
      <3> QED BY <1>13, <2>3, <3>4
    <2> QED BY <1>7, <2>1, <2>2, <2>3 DEF SaveConflicts
  <1> QED BY <1>9, <1>10, <1>16, <1>17

LEMMA SaveEnds ==
  ASSUME DataTypes, OutboxInv, HistoryInv, NEW c \in Clients, Save(c)
  PROVE  SaveHolds(c) \/ SaveConflicts(c)
  <1>1. ClientStep(c) BY DEF ClientStep, CommandStep
  <1>2. Others(c) BY <1>1, ClientFrame
  <1> QED BY <1>2, SaveEvents, SaveState

\* No two transactions write the same row.
LEMMA SaveTargetsAre ==
  ASSUME DataTypes, NEW c \in Clients
  PROVE  \A pk \in SaveTargets(c) : pk[1] = job[c].store
  <1>1. CASE job[c].store = "events"
    <2> DEFINE new == EventRows(Key(c), Events(c), loaded[c].version, serial)
    <2>1. \A pk \in DOMAIN new : pk[1] = "events" BY DEF EventRows
    <2> QED BY <1>1, <2>1 DEF SaveTargets
  <1>2. CASE job[c].store # "events" BY <1>2 DEF SaveTargets
  <1> QED BY <1>1, <1>2

LEMMA SaveKeeps ==
  ASSUME DataTypes, OutboxInv, RelayInv, HistoryInv, NEW c \in Clients, Save(c), Others(c)
  PROVE  HistoryInv'
  <1>1. /\ job[c].kind = "command" /\ pc[c] = "save"
        /\ UNCHANGED <<rows, history, job, wants, loaded>> /\ ~Contended(c, SaveTargets(c))
    BY DEF Save, At, Others
  <1>2. SaveHolds(c) \/ SaveConflicts(c) BY SaveEnds
  <1>3. \A pk : pk[1] \in Stores => Same(pk) BY <1>1 DEF Same
  <1>4. RowsInv /\ Exclusive /\ \A d \in Clients : LoadedOK(d) /\ OwnRows(d) /\ Ready(d) /\ Logs(d) /\ Outcome(d)
    BY DEF HistoryInv
  <1>5. RowsInv' BY <1>1, <1>4 DEF RowsInv, EventsTable, SnapshotRow, StateRow
  <1>6. \A d \in Clients \ {c} : LoadedOK(d)' /\ OwnRows(d)' /\ Ready(d)' /\ Logs(d)' /\ Outcome(d)'
    <2>1. SUFFICES ASSUME NEW d \in Clients \ {c}
                   PROVE  LoadedOK(d)' /\ OwnRows(d)' /\ Ready(d)' /\ Logs(d)' /\ Outcome(d)'
      OBVIOUS
    <2>2. pc'[d] = pc[d] /\ result'[d] = result[d] /\ own'[d] = own[d] /\ loaded'[d] = loaded[d] BY DEF Others
    <2>3. LoadedOK(d) /\ OwnRows(d) /\ Ready(d) /\ Logs(d) /\ Outcome(d) BY <1>4
    <2> QED BY <1>1, <1>3, <1>4, <2>2, <2>3, ClientKept
  <1>7. LoadedOK(c)' BY <1>1, <1>3, <1>4, LoadedKept
  <1>8. OwnRows(c)' BY <1>1, <1>2 DEF SaveHolds, SaveConflicts, OwnRows
  <1>9. Ready(c)' BY <1>2 DEF SaveHolds, SaveConflicts, Ready
  <1>10. Logs(c)' BY <1>2 DEF SaveHolds, SaveConflicts, Logs
  <1>11. Outcome(c)'
    <2>1. result[c] = "none" BY <1>1, <1>4 DEF Outcome
    <2> QED BY <1>2, <2>1 DEF SaveHolds, SaveConflicts, Outcome
  <1>12. Exclusive'
    <2>1. \A d \in Clients \ {c} : own'[d] = own[d] BY DEF Others
    <2>2. \A d \in Clients \ {c} : DOMAIN own'[c] \cap DOMAIN own[d] = {}
      BY <1>1, <1>2 DEF SaveHolds, SaveConflicts, Contended
    <2> QED BY <1>4, <2>1, <2>2 DEF Exclusive
  <1> QED BY <1>5, <1>6, <1>7, <1>8, <1>9, <1>10, <1>11, <1>12 DEF HistoryInv

\* The other statements of a transaction concern the outbox only.
LEMMA OutboxReply ==
  ASSUME NEW c \in Clients, SaveOutbox(c) \/ OperationFails(c)
  PROVE  \E reply : /\ Operation(c, reply, "commit") /\ \A pk \in DOMAIN reply.new : pk[1] = "outbox"
                    /\ reply.error # "ConcurrencyError"
  <1>0. DOMAIN << >> = {} OBVIOUS
  <1>1. CASE SaveOutbox(c)
    <2> DEFINE new == Entry(c)
               seen == Seen(c)
               ins == INSERT(seen, new)
    <2>1. Operation(c, ins, "commit") BY <1>1, SavedOutbox
    <2>2. \A pk \in DOMAIN new : pk[1] = "outbox" BY DEF Entry
    <2> HIDE DEF new, seen
    <2>3. CASE DOMAIN new \cap DOMAIN seen = {}
      <3>1. ins.error = "none" /\ ins.new = new BY <2>3, InsertReply
      <3> HIDE DEF ins
      <3>2. \A pk \in DOMAIN ins.new : pk[1] = "outbox" BY <2>2, <3>1
      <3>3. ins.error # "ConcurrencyError" BY <3>1
      <3> QED BY <2>1, <3>2, <3>3
    <2>4. CASE DOMAIN new \cap DOMAIN seen # {}
      <3>1. ins.error = "duplicate key" /\ ins.new = << >> BY <2>4, InsertReply
      <3> HIDE DEF ins
      <3>2. DOMAIN ins.new = {} BY <1>0, <3>1
      <3>3. ins.error # "ConcurrencyError" BY <3>1
      <3> QED BY <2>1, <3>2, <3>3
    <2> QED BY <2>3, <2>4
  <1>2. CASE OperationFails(c)
    <2> DEFINE err == Raise("driver error")
    <2>1. err.new = << >> /\ err.error = "driver error" BY DEF Raise
    <2>2. Operation(c, err, "commit") BY <1>2 DEF OperationFails
    <2> HIDE DEF err
    <2>3. DOMAIN err.new = {} BY <1>0, <2>1
    <2>4. err.error # "ConcurrencyError" BY <2>1
    <2> QED BY <2>2, <2>3, <2>4
  <1> QED BY <1>1, <1>2

LEMMA OutboxKeeps ==
  ASSUME DataTypes, OutboxInv, RelayInv, HistoryInv, NEW c \in Clients, SaveOutbox(c) \/ OperationFails(c), Others(c)
  PROVE  HistoryInv'
  <1>1. /\ job[c].kind = "command" /\ pc[c] = "outbox" /\ UNCHANGED <<rows, history, job, wants, loaded>>
    BY DEF SaveOutbox, OperationFails, At, Others
  <1>2. PICK reply : /\ Operation(c, reply, "commit") /\ \A pk \in DOMAIN reply.new : pk[1] = "outbox"
                     /\ reply.error # "ConcurrencyError"
    BY OutboxReply
  <1>3. /\ DOMAIN own'[c] = DOMAIN reply.new \cup DOMAIN own[c]
        /\ \A pk \in DOMAIN own[c] : pk \notin DOMAIN reply.new => own'[c][pk] = own[c][pk]
        /\ pc'[c] = IF reply.error = "none" THEN "commit" ELSE "rollback"
        /\ result'[c] = IF reply.error # "none" THEN "failed" ELSE result[c]
    BY <1>2, OperationOwn
  <1>4. \A pk : pk[1] \in Stores => (pk \in DOMAIN own'[c] <=> pk \in DOMAIN own[c])
    BY <1>2, <1>3 DEF Stores
  <1>5. \A pk \in DOMAIN own[c] : pk[1] \in Stores => own'[c][pk] = own[c][pk] BY <1>2, <1>3 DEF Stores
  <1>6. RowsInv /\ Exclusive /\ \A d \in Clients : LoadedOK(d) /\ OwnRows(d) /\ Ready(d) /\ Logs(d) /\ Outcome(d)
    BY DEF HistoryInv
  <1>7. \A pk : pk[1] \in Stores => Same(pk) BY <1>1 DEF Same
  <1>8. RowsInv' BY <1>1, <1>6 DEF RowsInv, EventsTable, SnapshotRow, StateRow
  <1>9. \A d \in Clients \ {c} : LoadedOK(d)' /\ OwnRows(d)' /\ Ready(d)' /\ Logs(d)' /\ Outcome(d)'
    <2>1. SUFFICES ASSUME NEW d \in Clients \ {c}
                   PROVE  LoadedOK(d)' /\ OwnRows(d)' /\ Ready(d)' /\ Logs(d)' /\ Outcome(d)'
      OBVIOUS
    <2>2. pc'[d] = pc[d] /\ result'[d] = result[d] /\ own'[d] = own[d] /\ loaded'[d] = loaded[d] BY DEF Others
    <2>3. LoadedOK(d) /\ OwnRows(d) /\ Ready(d) /\ Logs(d) /\ Outcome(d) BY <1>6
    <2> QED BY <1>1, <1>6, <1>7, <2>2, <2>3, ClientKept
  <1>10. LoadedOK(c)' BY <1>1, <1>6, <1>7, LoadedKept
  <1>11. Hist(c)' = Hist(c) /\ Events(c)' = Events(c) /\ Key(c)' = Key(c) BY <1>1 DEF Hist, Events, Key
  <1>12. job'[c] = job[c] /\ loaded'[c] = loaded[c] /\ rows' = rows BY <1>1
  <1>13. OwnRows(c)'
    <2>1. ASSUME NEW pk \in DOMAIN own'[c], pk[1] \in Stores PROVE NextRow(c, pk)'
      <3>1. pk \in DOMAIN own[c] /\ own'[c][pk] = own[c][pk] BY <1>4, <1>5, <2>1
      <3>2. NextRow(c, pk) BY <1>6, <2>1, <3>1 DEF OwnRows
      <3> QED BY <1>11, <1>12, <3>1, <3>2 DEF NextRow
    <2> QED BY <1>1, <1>12, <2>1 DEF OwnRows
  <1>14. Ready(c)'
    <2>1. Ready(c) BY <1>6
    <2>2. job[c].store \in Stores BY HistTypes
    <2>3. CASE job[c].store = "events"
      <3>1. ASSUME NEW i \in 1 .. Len(Events(c))
            PROVE  <<"events", Key(c), loaded[c].version + i>> \in DOMAIN own'[c] /\ loaded[c].state = Hist(c)
        <4> DEFINE pk == <<"events", Key(c), loaded[c].version + i>>
        <4>1. pk[1] \in Stores BY DEF Stores
        <4>2. pk \in DOMAIN own[c] /\ loaded[c].state = Hist(c) BY <1>1, <2>1, <2>3 DEF Ready
        <4> HIDE DEF pk
        <4>3. pk \in DOMAIN own'[c] BY <1>4, <4>1, <4>2
        <4> QED BY <4>2, <4>3 DEF pk
      <3> QED BY <1>11, <1>12, <2>3, <3>1 DEF Ready
    <2>4. CASE job[c].store # "events"
      <3> DEFINE pk == <<job[c].store, Key(c)>>
      <3>1. pk[1] \in Stores BY <2>2
      <3>2. pk \in DOMAIN own[c] /\ loaded[c].version = Lookup(rows, pk).version BY <1>1, <2>1, <2>4 DEF Ready
      <3> HIDE DEF pk
      <3>3. pk \in DOMAIN own'[c] BY <1>4, <3>1, <3>2
      <3> QED BY <1>11, <1>12, <2>4, <3>2, <3>3 DEF Ready, pk
    <2> QED BY <2>3, <2>4
  <1>15. Logs(c)' BY <1>3 DEF Logs
  <1>16. Outcome(c)'
    <2>1. result[c] = "none" BY <1>1, <1>6 DEF Outcome
    <2> QED BY <1>3, <2>1 DEF Outcome
  <1>17. Exclusive'
    <2>1. \A d \in Clients \ {c} : own'[d] = own[d] BY DEF Others
    <2>2. ASSUME NEW d \in Clients, NEW e \in Clients, d # e, NEW pk \in DOMAIN own'[d] \cap DOMAIN own'[e],
                 pk[1] \in Stores
          PROVE  FALSE
      <3>1. pk \in DOMAIN own[d] BY <1>4, <2>1, <2>2
      <3>2. pk \in DOMAIN own[e] BY <1>4, <2>1, <2>2
      <3> QED BY <1>6, <2>2, <3>1, <3>2 DEF Exclusive
    <2> QED BY <2>2 DEF Exclusive
  <1> QED BY <1>8, <1>9, <1>10, <1>13, <1>14, <1>15, <1>16, <1>17 DEF HistoryInv

LEMMA RollbackKeeps ==
  ASSUME DataTypes, RelayInv, HistoryInv, NEW c \in Clients, Rollback(c), Others(c)
  PROVE  HistoryInv'
  <1>1. /\ job[c].kind = "command" /\ pc[c] = "rollback" /\ own' = [own EXCEPT ![c] = << >>]
        /\ UNCHANGED <<rows, history, job, wants, loaded, result>>
    BY SettledRows DEF Rollback, At, Others
  <1>2. DOMAIN own'[c] = {} BY <1>1 DEF DataTypes, IsFcn
  <1>3. pc'[c] \in {"unlock", "done"} BY DEF Rollback, Goto, DataTypes
  <1>4. RowsInv /\ Exclusive /\ \A d \in Clients : LoadedOK(d) /\ OwnRows(d) /\ Ready(d) /\ Logs(d) /\ Outcome(d)
    BY DEF HistoryInv
  <1>5. \A pk : pk[1] \in Stores => Same(pk) BY <1>1 DEF Same
  <1>6. RowsInv' BY <1>1, <1>4 DEF RowsInv, EventsTable, SnapshotRow, StateRow
  <1>7. \A d \in Clients \ {c} : LoadedOK(d)' /\ OwnRows(d)' /\ Ready(d)' /\ Logs(d)' /\ Outcome(d)'
    <2>1. SUFFICES ASSUME NEW d \in Clients \ {c}
                   PROVE  LoadedOK(d)' /\ OwnRows(d)' /\ Ready(d)' /\ Logs(d)' /\ Outcome(d)'
      OBVIOUS
    <2>2. pc'[d] = pc[d] /\ result'[d] = result[d] /\ own'[d] = own[d] /\ loaded'[d] = loaded[d] BY DEF Others
    <2>3. LoadedOK(d) /\ OwnRows(d) /\ Ready(d) /\ Logs(d) /\ Outcome(d) BY <1>4
    <2> QED BY <1>1, <1>4, <1>5, <2>2, <2>3, ClientKept
  <1>8. LoadedOK(c)' BY <1>1, <1>4, <1>5, LoadedKept
  <1>9. OwnRows(c)' BY <1>2 DEF OwnRows
  <1>10. Ready(c)' BY <1>3 DEF Ready
  <1>11. result'[c] # "none" BY <1>1, <1>4 DEF Outcome
  <1>12. Logs(c)' /\ Outcome(c)' BY <1>3, <1>11 DEF Logs, Outcome
  <1>13. Exclusive' BY <1>2, <1>4 DEF Exclusive, Others
  <1> QED BY <1>6, <1>7, <1>8, <1>9, <1>10, <1>12, <1>13 DEF HistoryInv
-----------------------------------------------------------------------------
\* What a command has loaded is what is committed, or the snapshot's part of it.
LEMMA SnapshotLoaded ==
  ASSUME DataTypes, RowsInv, NEW c \in Clients, LoadSnapshot(c)
  PROVE  LoadedOK(c)'
  <1> DEFINE pk == <<"snapshots", Key(c)>>
             s == Lookup(rows, pk)
  <1>1. /\ job[c].store = "events" /\ UNCHANGED <<rows, history, job, wants>>
        /\ loaded' = [loaded EXCEPT ![c] = s]
    BY LoadedBy DEF LoadSnapshot, dataVars, lockerVars
  <1>2. loaded'[c] = s BY <1>1 DEF DataTypes, IsFcn
  <1>3. Hist(c)' = Hist(c) /\ job'[c] = job[c] BY <1>1 DEF Hist, Key
  <1>4. /\ Key(c) \in LockKeys /\ Hist(c) \in Seq(AllEvents) /\ Hist(c) = history[<<"events", Key(c)>>]
    BY <1>1, HistTypes DEF Hist
  <1>5. s.state \in Seq(AllEvents) /\ s.version = Len(s.state) /\ IsPrefix(s.state, Hist(c))
    <2>1. CASE pk \in DOMAIN rows
      <3>1. SnapshotRow(Key(c)) BY <1>4 DEF RowsInv
      <3> QED BY <1>4, <2>1, <3>1 DEF SnapshotRow, Lookup
    <2>2. CASE pk \notin DOMAIN rows
      <3>1. s.state = << >> /\ s.version = 0 BY <2>2 DEF Lookup, NoRow
      <3>2. << >> \in Seq(AllEvents) /\ Len(<< >>) = 0 OBVIOUS
      <3>3. IsPrefix(<< >>, Hist(c)) BY <1>4, EmptyPrefix
      <3> QED BY <3>1, <3>2, <3>3
    <2> QED BY <2>1, <2>2
  <1> QED BY <1>1, <1>2, <1>3, <1>5 DEF LoadedOK

LEMMA StreamLoaded ==
  ASSUME DataTypes, RowsInv, NEW c \in Clients, Load(c), LoadedOK(c), job[c].store = "events"
  PROVE  LoadedOK(c)'
  <1> DEFINE h == Hist(c)
             v == loaded[c].version
             s == loaded[c].state
             t == Stream(rows, Key(c), v)
  <1>1. UNCHANGED <<rows, history, job, wants>> /\ loaded' = [loaded EXCEPT ![c] = LoadedStream(c)]
    BY DEF Load, dataVars, lockerVars
  <1>2. LoadedStream(c) = [version |-> v + Len(t), state |-> s \o t] BY LoadedBy
  <1>3. loaded'[c] = LoadedStream(c) BY <1>1 DEF DataTypes, IsFcn
  <1>4. Hist(c)' = h /\ job'[c] = job[c] BY <1>1 DEF Hist, Key
  <1>5. Key(c) \in LockKeys /\ h \in Seq(AllEvents) /\ h = history[<<"events", Key(c)>>]
    BY HistTypes DEF Hist
  <1>6. s \in Seq(AllEvents) /\ IsPrefix(s, h) /\ v = Len(s) BY DEF LoadedOK
  <1>7. t = [i \in 1 .. Len(h) - v |-> h[v + i]]
    <2> DEFINE hk == history[<<"events", Key(c)>>]
    <2> HIDE DEF v, s, h
    <2>1. v \in 0 .. Len(hk)
      <3>1. Len(s) <= Len(h) BY <1>5, <1>6, PrefixIs
      <3>2. Len(s) \in Nat /\ Len(h) \in Nat BY <1>5, <1>6
      <3> QED BY <1>5, <1>6, <3>1, <3>2
    <2>2. EventsTable BY DEF RowsInv
    <2>3. Stream(rows, Key(c), v) = [i \in 1 .. Len(hk) - v |-> hk[v + i]]
      BY <1>5, <2>1, <2>2, StreamIs
    <2> QED BY <1>5, <2>3 DEF v
  <1> HIDE DEF h, s, t, v
  <1>8. s \o t = h /\ v + Len(t) = Len(h)
    <2>1. Len(s) <= Len(h) /\ \A i \in 1 .. Len(s) : s[i] = h[i] BY <1>5, <1>6, PrefixIs
    <2>2. Len(s) \in Nat /\ Len(h) \in Nat BY <1>5, <1>6
    <2>3. t \in Seq(AllEvents) /\ Len(t) = Len(h) - v
      <3>1. Len(h) - v \in Nat BY <1>6, <2>1, <2>2
      <3>2. \A i \in 1 .. Len(h) - v : v + i \in 1 .. Len(h) BY <1>6, <2>1, <2>2
      <3>3. \A i \in 1 .. Len(h) - v : h[v + i] \in AllEvents BY <1>5, <3>2
      <3> QED BY <1>7, <3>1, <3>3
    <2>4. Len(s \o t) = Len(h) BY <1>6, <2>2, <2>3
    <2>5. ASSUME NEW i \in 1 .. Len(h) PROVE (s \o t)[i] = h[i]
      <3>1. CASE i \in 1 .. Len(s) BY <1>6, <2>1, <2>3, <3>1
      <3>2. CASE i \notin 1 .. Len(s)
        <4>1. i - v \in 1 .. Len(h) - v /\ v + (i - v) = i BY <1>6, <2>1, <2>2, <3>2
        <4>2. (s \o t)[i] = t[i - v] BY <1>6, <2>2, <2>3, <3>2, <4>1
        <4> QED BY <1>7, <4>1, <4>2
      <3> QED BY <3>1, <3>2
    <2>6. s \o t \in Seq(AllEvents) BY <1>6, <2>3
    <2> DEFINE w == s \o t
    <2> HIDE DEF w
    <2>7. w \in Seq(AllEvents) /\ Len(w) = Len(h) /\ \A i \in 1 .. Len(w) : w[i] = h[i] BY <2>4, <2>5, <2>6 DEF w
    <2>8. w = h BY <1>5, <2>7
    <2> QED BY <1>6, <2>2, <2>3, <2>8 DEF w
  <1>9. loaded'[c] = [version |-> Len(h), state |-> h] BY <1>2, <1>3, <1>8
  <1>10. IsPrefix(h, h) BY <1>5, PrefixIs
  <1> QED BY <1>4, <1>5, <1>9, <1>10 DEF LoadedOK, h

LEMMA StateLoaded ==
  ASSUME DataTypes, RowsInv, NEW c \in Clients, Load(c), job[c].store # "events", pc[c] # "load"
  PROVE  LoadedOK(c)'
  <1> DEFINE sk == <<job[c].store, Key(c)>>
             row == Lookup(rows, sk)
  <1>1. /\ job[c].kind = "command" /\ UNCHANGED <<rows, history, job, wants>>
        /\ loaded' = [loaded EXCEPT ![c] = LoadedState(c)]
    BY DEF Load, At, dataVars, lockerVars
  <1>2. LoadedState(c) = row BY <1>1, LoadedBy
  <1>3. loaded'[c] = row BY <1>1, <1>2 DEF DataTypes, IsFcn
  <1>4. Hist(c)' = Hist(c) /\ job'[c] = job[c] /\ Key(c)' = Key(c) BY <1>1 DEF Hist, Key
  <1>5. /\ job[c].store \in Stores \ {"events"} /\ Key(c) \in LockKeys
        /\ Hist(c) \in Seq(AllEvents) /\ Hist(c) = history[sk]
    BY HistTypes DEF Hist
  <1>6. row.version \in Nat /\ row.state = Hist(c)
    <2>1. StateRow(job[c].store, Key(c)) BY <1>5 DEF RowsInv
    <2>2. CASE sk \in DOMAIN rows BY <1>5, <2>1, <2>2 DEF StateRow, Lookup
    <2>3. CASE sk \notin DOMAIN rows BY <1>5, <2>1, <2>3 DEF StateRow, Lookup, NoRow
    <2> QED BY <2>2, <2>3
  <1> DEFINE h == Hist(c)
  <1>7. IsPrefix(Hist(c), Hist(c))
    <2>1. h \in Seq(AllEvents) BY <1>5
    <2> HIDE DEF h
    <2>2. IsPrefix(h, h) BY <2>1, PrefixIs
    <2> QED BY <2>2 DEF h
  <1>8. Lookup(rows', <<job'[c].store, Key(c)'>>) = row BY <1>1, <1>4
  <1> HIDE DEF row, sk
  <1>9. row.version <= row.version /\ ~(row.version < row.version) BY <1>6
  <1> QED BY <1>3, <1>4, <1>5, <1>6, <1>7, <1>8, <1>9 DEF LoadedOK

LEMMA LoadKeeps ==
  ASSUME DataTypes, OutboxInv, HistoryInv, NEW c \in Clients, LoadSnapshot(c) \/ Load(c), Others(c)
  PROVE  HistoryInv'
  <1>1. /\ job[c].kind = "command" /\ pc[c] \in {"start", "load"}
        /\ UNCHANGED <<rows, history, job, wants, own, result>>
    BY DEF LoadSnapshot, Load, At, dataVars, lockerVars
  <1>2. RowsInv /\ Exclusive /\ \A d \in Clients : LoadedOK(d) /\ OwnRows(d) /\ Ready(d) /\ Logs(d) /\ Outcome(d)
    BY DEF HistoryInv
  <1>3. DOMAIN own[c] = {} BY <1>1, OwnNothing DEF InTransaction
  <1>4. pc'[c] = "save" \/ (pc'[c] = "load" /\ job[c].store = "events")
    BY DEF LoadSnapshot, Load, Goto, DataTypes
  <1>5. LoadedOK(c)'
    <2>1. CASE LoadSnapshot(c) BY <1>2, <2>1, SnapshotLoaded
    <2>2. CASE Load(c) /\ job[c].store = "events" BY <1>2, <2>2, StreamLoaded
    <2>3. CASE Load(c) /\ job[c].store # "events"
      <3>1. pc[c] # "load" BY <1>1, <1>2, <2>3 DEF Logs
      <3> QED BY <1>2, <2>3, <3>1, StateLoaded
    <2> QED BY <2>1, <2>2, <2>3
  <1>6. \A pk : pk[1] \in Stores => Same(pk) BY <1>1 DEF Same
  <1>7. RowsInv' BY <1>1, <1>2 DEF RowsInv, EventsTable, SnapshotRow, StateRow
  <1>8. \A d \in Clients \ {c} : LoadedOK(d)' /\ OwnRows(d)' /\ Ready(d)' /\ Logs(d)' /\ Outcome(d)'
    <2>1. SUFFICES ASSUME NEW d \in Clients \ {c}
                   PROVE  LoadedOK(d)' /\ OwnRows(d)' /\ Ready(d)' /\ Logs(d)' /\ Outcome(d)'
      OBVIOUS
    <2>2. pc'[d] = pc[d] /\ result'[d] = result[d] /\ own'[d] = own[d] /\ loaded'[d] = loaded[d] BY DEF Others
    <2>3. LoadedOK(d) /\ OwnRows(d) /\ Ready(d) /\ Logs(d) /\ Outcome(d) BY <1>2
    <2> QED BY <1>1, <1>2, <1>6, <2>2, <2>3, ClientKept
  <1>9. OwnRows(c)' BY <1>1, <1>3 DEF OwnRows
  <1>10. Ready(c)' BY <1>4 DEF Ready
  <1>11. Logs(c)' BY <1>1, <1>4 DEF Logs
  <1>12. Outcome(c)' BY <1>1, <1>2, <1>4 DEF Outcome
  <1>13. Exclusive' BY <1>1, <1>2 DEF Exclusive
  <1> QED BY <1>5, <1>7, <1>8, <1>9, <1>10, <1>11, <1>12, <1>13 DEF HistoryInv

\* The steps of a command that neither load nor belong to its transaction.
LEMMA RestKeeps ==
  ASSUME DataTypes, RelayInv, HistoryInv, NEW c \in Clients, ClientStep(c), Others(c),
         ~Transactional(c), ~LoadSnapshot(c), ~Load(c)
  PROVE  HistoryInv'
  <1>1. UNCHANGED <<job, wants>> BY DEF Others
  <1>2. UNCHANGED history /\ \A pk : pk[1] \in Stores => Same(pk) BY StoreRows DEF Transactional
  <1>3. RowsInv /\ Exclusive /\ \A d \in Clients : LoadedOK(d) /\ OwnRows(d) /\ Ready(d) /\ Logs(d) /\ Outcome(d)
    BY DEF HistoryInv
  <1>4. loaded'[c] = loaded[c] /\ own'[c] = own[c] BY RestSteps
  <1>5. Hist(c)' = Hist(c) /\ Events(c)' = Events(c) /\ Key(c)' = Key(c) /\ job'[c] = job[c]
    BY <1>1, <1>2 DEF Hist, Events, Key
  <1>6. \A d \in Clients \ {c} : LoadedOK(d)' /\ OwnRows(d)' /\ Ready(d)' /\ Logs(d)' /\ Outcome(d)'
    <2>1. SUFFICES ASSUME NEW d \in Clients \ {c}
                   PROVE  LoadedOK(d)' /\ OwnRows(d)' /\ Ready(d)' /\ Logs(d)' /\ Outcome(d)'
      OBVIOUS
    <2>2. pc'[d] = pc[d] /\ result'[d] = result[d] /\ own'[d] = own[d] /\ loaded'[d] = loaded[d] BY DEF Others
    <2>3. LoadedOK(d) /\ OwnRows(d) /\ Ready(d) /\ Logs(d) /\ Outcome(d) BY <1>3
    <2> QED BY <1>1, <1>2, <1>3, <2>2, <2>3, ClientKept
  <1>7. RowsInv'
    <2>1. /\ EventsTable' /\ \A k \in LockKeys : \A s \in Stores \ {"events"} : StateRow(s, k)'
          /\ \A k \in LockKeys : Same(<<"snapshots", k>>) => SnapshotRow(k)'
      BY <1>2, <1>3, RowsKept
    <2>2. ASSUME NEW k \in LockKeys PROVE SnapshotRow(k)'
      <3> DEFINE pk == <<"snapshots", k>>
      <3>1. CASE ~SaveSnapshot(c)
        <4>1. Same(pk) BY <3>1, StoreRows DEF Transactional
        <4> QED BY <2>1, <4>1
      <3>2. CASE SaveSnapshot(c) /\ k # Key(c)
        <4>1. pk # <<"snapshots", Key(c)>> BY <3>2
        <4> HIDE DEF pk
        <4>2. Same(pk) BY <3>2, <4>1, SnapshotRows
        <4> QED BY <2>1, <4>2 DEF pk
      <3>3. CASE SaveSnapshot(c) /\ k = Key(c)
        <4> DEFINE events == loaded[c].state \o Events(c)
        <4>1. job[c].kind = "command" /\ pc[c] = "snapshot" BY <3>3 DEF SaveSnapshot, At
        <4>2. job[c].store = "events" /\ IsPrefix(events, Hist(c)) BY <1>3, <4>1 DEF Logs
        <4>3. loaded[c].state \in Seq(AllEvents) /\ Events(c) \in Seq(AllEvents) BY <1>3, HistTypes DEF LoadedOK
        <4>4. events \in Seq(AllEvents) BY <4>3
        <4>5. Same(pk) \/ (pk \in DOMAIN rows' /\ rows'[pk] = [version |-> Len(events), state |-> events])
          BY <3>3, SnapshotRows
        <4>6. Hist(c) = history'[<<"events", k>>] BY <1>2, <3>3, <4>2 DEF Hist
        <4> HIDE DEF events, pk
        <4>7. CASE Same(pk) BY <2>1, <4>7 DEF pk
        <4>8. CASE pk \in DOMAIN rows' /\ rows'[pk] = [version |-> Len(events), state |-> events]
          BY <4>2, <4>4, <4>6, <4>8 DEF SnapshotRow, pk
        <4> QED BY <4>5, <4>7, <4>8
      <3> QED BY <3>1, <3>2, <3>3
    <2> QED BY <2>1, <2>2 DEF RowsInv
  <1>8. LoadedOK(c)' /\ OwnRows(c)' BY <1>1, <1>2, <1>3, <1>4, LoadedKept
  <1>9. Ready(c)' /\ Logs(c)' /\ Outcome(c)'
    <2>1. CASE job[c].kind # "command" BY <1>5, <2>1 DEF Ready, Logs, Outcome
    <2>2. CASE pc'[c] = pc[c] /\ result'[c] = result[c]
      <3>1. LoadedOK(c) /\ OwnRows(c) /\ Ready(c) /\ Logs(c) /\ Outcome(c) BY <1>3
      <3> QED BY <1>1, <1>2, <1>3, <1>4, <2>2, <3>1, ClientKept
    <2>3. CASE pc'[c] \in {"publish", "mark", "done"} BY <2>3 DEF Ready, Logs, Outcome
    <2>4. CASE /\ job[c].kind = "command" /\ pc[c] = "unlock" /\ pc'[c] = "find" /\ job[c].store = "events"
               /\ result[c] = "none" /\ result'[c] = "none"
      <3>1. IsPrefix(loaded[c].state \o Events(c), Hist(c)) BY <1>3, <2>4 DEF Logs
      <3> QED BY <1>4, <1>5, <2>4, <3>1 DEF Ready, Logs, Outcome
    <2>5. CASE job[c].kind = "command" /\ pc[c] = "find" /\ pc'[c] = "snapshot"
      <3>1. job[c].store = "events" /\ IsPrefix(loaded[c].state \o Events(c), Hist(c)) BY <1>3, <2>5 DEF Logs
      <3> QED BY <1>4, <1>5, <2>5, <3>1 DEF Ready, Logs, Outcome
    <2> QED BY <2>1, <2>2, <2>3, <2>4, <2>5, RestSteps
  <1>10. Exclusive'
    <2>1. \A d \in Clients : own'[d] = own[d] BY <1>4 DEF Others
    <2> QED BY <1>3, <2>1 DEF Exclusive
  <1> QED BY <1>6, <1>7, <1>8, <1>9, <1>10 DEF HistoryInv

LEMMA StepHistory ==
  ASSUME DataTypes, OwnTables, RelayInv, OutboxInv, HistoryInv, [DatabaseNext]_databaseVars
  PROVE  HistoryInv'
  <1>1. CASE Quiet
    <2>1. UNCHANGED <<rows, own, history, job, wants, loaded, pc, result>> BY <1>1 DEF Quiet, dataVars
    <2>2. RowsInv' /\ Exclusive'
      BY <2>1 DEF HistoryInv, RowsInv, EventsTable, SnapshotRow, StateRow, Exclusive
    <2>3. \A pk : pk[1] \in Stores => Same(pk) BY <2>1 DEF Same
    <2>4. ASSUME NEW d \in Clients PROVE LoadedOK(d)' /\ OwnRows(d)' /\ Ready(d)' /\ Logs(d)' /\ Outcome(d)'
      <3>1. RowsInv /\ LoadedOK(d) /\ OwnRows(d) /\ Ready(d) /\ Logs(d) /\ Outcome(d) BY DEF HistoryInv
      <3>2. UNCHANGED <<history, job, wants>> BY <2>1
      <3> QED BY <2>1, <2>3, <3>1, <3>2, ClientKept
    <2> QED BY <2>2, <2>4 DEF HistoryInv
  <1>2. ASSUME NEW c \in Clients, ClientStep(c) PROVE HistoryInv'
    <2>1. Others(c) BY <1>2, ClientFrame
    <2>2. CASE Save(c) BY <2>1, <2>2, SaveKeeps
    <2>3. CASE SaveOutbox(c) \/ OperationFails(c) BY <2>1, <2>3, OutboxKeeps
    <2>4. CASE Commit(c) BY <2>1, <2>4, CommitKeeps
    <2>5. CASE Rollback(c) BY <2>1, <2>5, RollbackKeeps
    <2>6. CASE LoadSnapshot(c) \/ Load(c) BY <2>1, <2>6, LoadKeeps
    <2> QED BY <1>2, <2>1, <2>2, <2>3, <2>4, <2>5, <2>6, RestKeeps DEF Transactional
  <1> QED BY <1>1, <1>2, StepKinds

\* The invariants of the data, together.
DatabaseInv == DataTypes /\ OwnTables /\ RelayInv /\ OutboxInv /\ HistoryInv

LEMMA InitData ==
  ASSUME DatabaseInit PROVE DatabaseInv
  <1>1. DataTypes BY InitTypes
  <1>2. OwnTables BY DEF DatabaseInit, OwnTables
  <1>3. \A c \in Clients : pc[c] \in {"start", "done"} BY DEF DatabaseInit
  <1>4. RelayInv BY <1>3 DEF RelayInv, RelayOK
  <1>5. Committed = {} BY DEF DatabaseInit, Committed, ToSet
  <1>6. rows = << >> /\ \A sk \in Stored : history[sk] = << >> BY DEF DatabaseInit
  <1>7. \A c \in Clients : own[c] = << >> /\ loaded[c] = NoRow /\ result[c] = "none" BY DEF DatabaseInit
  <1>8. OutboxInv
    <2>1. \A c \in Clients : OutboxOwn(c) BY <1>3, <1>7 DEF OutboxOwn
    <2>2. \A c \in Clients : Backlog(c) BY <1>5 DEF Backlog
    <2>3. Table(rows, "outbox") = {} BY <1>6 DEF Table
    <2> QED BY <2>1, <2>2, <2>3 DEF OutboxInv
  <1>9. HistoryInv
    <2>1. DOMAIN rows = {} BY <1>6
    <2>2. \A s \in Stores, k \in LockKeys : history[<<s, k>>] = << >> BY <1>6 DEF Stored
    <2>3. Len(<< >>) = 0 OBVIOUS
    <2>4. EventsTable
      <3>1. Table(rows, "events") = {} BY <2>1 DEF Table
      <3>2. \A k \in LockKeys : Len(history[<<"events", k>>]) = 0 BY <2>2, <2>3 DEF Stores
      <3> QED BY <3>1, <3>2 DEF EventsTable
    <2>5. RowsInv BY <2>1, <2>2, <2>4 DEF RowsInv, SnapshotRow, StateRow
    <2>6. ASSUME NEW c \in Clients PROVE LoadedOK(c)
      <3>1. Hist(c) = << >> BY <1>1, <2>2, HistTypes DEF Hist
      <3>2. loaded[c].state = << >> /\ loaded[c].version = 0 BY <1>7 DEF NoRow
      <3>3. \A pk : Lookup(rows, pk).version = 0 BY <2>1 DEF Lookup, NoRow
      <3>4. << >> \in Seq(AllEvents) OBVIOUS
      <3>5. IsPrefix(<< >>, << >>) BY <3>4, EmptyPrefix
      <3> QED BY <2>3, <3>1, <3>2, <3>3, <3>4, <3>5 DEF LoadedOK
    <2>7. \A c \in Clients : OwnRows(c) /\ Ready(c) /\ Logs(c) /\ Outcome(c)
      BY <1>3, <1>7 DEF OwnRows, Ready, Logs, Outcome
    <2>8. Exclusive BY <1>7 DEF Exclusive
    <2> QED BY <2>5, <2>6, <2>7, <2>8 DEF HistoryInv
  <1> QED BY <1>1, <1>2, <1>4, <1>8, <1>9 DEF DatabaseInv

LEMMA StepData ==
  ASSUME DatabaseInv, [DatabaseNext]_databaseVars PROVE DatabaseInv'
  BY StepTypes, StepOwnTables, StepRelay, StepOutbox, StepHistory DEF DatabaseInv

\* No committed write is lost or applied twice: whatever commands, retries and
\* snapshots run against one database, what a load returns of a key is what was
\* committed for it, in order, and a snapshot is a part of its stream.
THEOREM DatabaseNoLostUpdate == DatabaseSpec => []NoLostUpdate
  <1>1. DatabaseInit => DatabaseInv BY InitData
  <1>2. DatabaseInv /\ [DatabaseNext]_databaseVars => DatabaseInv' BY StepData
  <1>3. DatabaseInv => NoLostUpdate
    <2>1. SUFFICES ASSUME DatabaseInv, NEW k \in LockKeys
          PROVE  /\ Stream(rows, k, 0) = history[<<"events", k>>]
                 /\ \A s \in Stores \ {"events"} : Lookup(rows, <<s, k>>).state = history[<<s, k>>]
                 /\ LET snapshot == Lookup(rows, <<"snapshots", k>>)
                    IN  /\ snapshot.version = Len(snapshot.state)
                        /\ IsPrefix(snapshot.state, history[<<"events", k>>])
      BY DEF NoLostUpdate
    <2>2. DataTypes /\ RowsInv /\ EventsTable BY <2>1 DEF DatabaseInv, HistoryInv, RowsInv
    <2> DEFINE h == history[<<"events", k>>]
    <2>3. h \in Seq(AllEvents) BY <2>2 DEF DataTypes, Stored, Stores
    <2>4. Stream(rows, k, 0) = h
      <3>1. 0 \in 0 .. Len(h) BY <2>3
      <3>2. Stream(rows, k, 0) = [i \in 1 .. Len(h) - 0 |-> h[0 + i]] BY <2>2, <3>1, StreamIs
      <3> HIDE DEF h
      <3>3. [i \in 1 .. Len(h) - 0 |-> h[0 + i]] = [i \in 1 .. Len(h) |-> h[i]] BY <2>3
      <3>4. h = [i \in 1 .. Len(h) |-> h[i]] BY <2>3
      <3> QED BY <3>2, <3>3, <3>4
    <2>5. ASSUME NEW s \in Stores \ {"events"} PROVE Lookup(rows, <<s, k>>).state = history[<<s, k>>]
      <3>1. StateRow(s, k) BY <2>2 DEF RowsInv
      <3> QED BY <3>1 DEF StateRow, Lookup, NoRow
    <2> DEFINE pk == <<"snapshots", k>>
               snapshot == Lookup(rows, pk)
    <2>6. snapshot.version = Len(snapshot.state) /\ IsPrefix(snapshot.state, h)
      <3>1. CASE pk \in DOMAIN rows
        <4>1. SnapshotRow(k) BY <2>2 DEF RowsInv
        <4> QED BY <3>1, <4>1 DEF SnapshotRow, Lookup
      <3>2. CASE pk \notin DOMAIN rows
        <4>1. snapshot.state = << >> /\ snapshot.version = 0 BY <3>2 DEF Lookup, NoRow
        <4>2. Len(<< >>) = 0 OBVIOUS
        <4>3. IsPrefix(<< >>, h) BY <2>3, EmptyPrefix
        <4> QED BY <4>1, <4>2, <4>3
      <3> QED BY <3>1, <3>2
    <2> QED BY <2>4, <2>5, <2>6
  <1> QED BY <1>1, <1>2, <1>3, PTL DEF DatabaseSpec
-----------------------------------------------------------------------------
\* A conflict is a fact about the log: somebody else's commit followed the load.
ConflictOK(c) ==
  result[c] = "conflict" =>
    /\ job[c].kind = "command" /\ pc[c] \in {"rollback", "unlock", "done"}
    /\ Len(loaded[c].state) < Len(Hist(c))

\* Only a save raises one, and nothing takes it back.
LEMMA ConflictStays ==
  ASSUME DataTypes, NEW c \in Clients, ClientStep(c), ~Save(c), ~SaveOutbox(c), ~OperationFails(c),
         result'[c] = "conflict"
  PROVE  /\ result[c] = "conflict"
         /\ job[c].kind = "command" /\ pc[c] \in {"rollback", "unlock", "done"} =>
              pc'[c] \in {"rollback", "unlock", "done"} /\ loaded'[c] = loaded[c]
  <1> USE DEF At, Goto, Finish
  <1>1. CASE LoadSnapshot(c) \/ Load(c) \/ Commit(c) \/ Rollback(c) \/ FindSnapshot(c) \/ SaveSnapshot(c)
    BY <1>1 DEF LoadSnapshot, Load, Commit, Rollback, FindSnapshot, SaveSnapshot, DataTypes
  <1>2. CASE Publish(c) \/ MarkByEventIds(c)
    BY <1>2 DEF Publish, MarkByEventIds, DataTypes
  <1>3. CASE BackgroundStep(c)
    <2>1. job[c].kind # "command"
      BY <1>3 DEF BackgroundStep, RelayLoad, RelayPublish, RelayMark, RelayCleanup, ReadBegins, ReadPage, Check,
                  DeleteExpired, Handle, MarkProcessed, Sweep
    <2>2. UNCHANGED result \/ \E r \in {"ok", "skipped", "handled", "failed"} : result' = [result EXCEPT ![c] = r]
      BY <1>3 DEF BackgroundStep, RelayLoad, RelayPublish, RelayMark, RelayCleanup, ReadBegins, ReadPage, Check,
                  DeleteExpired, Handle, MarkProcessed, Sweep
    <2>3. UNCHANGED result \/ result'[c] \in {"ok", "skipped", "handled", "failed"} BY <2>2 DEF DataTypes
    <2> QED BY <2>1, <2>3
  <1>4. CASE TakeLock(c) \/ AskAgain(c) \/ GiveUp(c) \/ DropLock(c)
    BY <1>4 DEF TakeLock, AskAgain, GiveUp, DropLock, dataVars, localVars
  <1>5. CASE LockRefused(c) BY <1>5 DEF LockRefused, DataTypes
  <1>6. CASE LockReturned(c) BY <1>6 DEF LockReturned, DataTypes
  <1> QED BY <1>1, <1>2, <1>3, <1>4, <1>5, <1>6 DEF ClientStep, CommandStep, LockStep

\* The log only grows.
LEMMA HistGrows ==
  ASSUME DataTypes, NEW c \in Clients, ClientStep(c), NEW d \in Clients
  PROVE  Len(Hist(d)) <= Len(Hist(d)')
  <1> DEFINE sk == <<job[c].store, Key(c)>>
             x == <<job[d].store, Key(d)>>
  <1>1. Others(c) BY ClientFrame
  <1>2. /\ x \in Stored /\ sk \in Stored /\ history[x] \in Seq(AllEvents) /\ Events(c) \in Seq(AllEvents)
        /\ Hist(d) = history[x] /\ Len(Hist(d)) \in Nat
    BY HistTypes DEF Hist
  <1>3. Hist(d)' = history'[x] BY <1>1 DEF Others, Hist, Key
  <1> HIDE DEF sk, x
  <1>4. CASE Commit(c)
    <2>1. history' = [history EXCEPT ![sk] = @ \o Events(c)] BY <1>4 DEF Commit, sk
    <2>2. CASE x = sk
      <3>1. history'[x] = history[x] \o Events(c) BY <1>2, <2>1, <2>2 DEF DataTypes
      <3>2. Len(history'[x]) = Len(history[x]) + Len(Events(c)) /\ Len(Events(c)) \in Nat BY <1>2, <3>1
      <3> QED BY <1>2, <1>3, <3>2
    <2>3. CASE x # sk
      <3>1. history'[x] = history[x] BY <1>2, <2>1, <2>3 DEF DataTypes
      <3> QED BY <1>2, <1>3, <3>1
    <2> QED BY <2>2, <2>3
  <1>5. CASE ~Commit(c)
    <2>1. UNCHANGED history BY <1>5, DataSteps
    <2> QED BY <1>2, <1>3, <2>1
  <1> QED BY <1>4, <1>5

LEMMA StepConflict ==
  ASSUME DatabaseInv, [DatabaseNext]_databaseVars, CommandsDecide, Driver # "postgres-js",
         \A c \in Clients : ConflictOK(c)
  PROVE  \A d \in Clients : ConflictOK(d)'
  <1>0. DataTypes /\ OutboxInv /\ HistoryInv /\ DataTypes' BY StepTypes DEF DatabaseInv
  <1>1. CASE Quiet BY <1>1 DEF Quiet, ConflictOK, Hist, Key
  <1>2. ASSUME NEW c \in Clients, ClientStep(c), NEW d \in Clients PROVE ConflictOK(d)'
    <2>1. SUFFICES ASSUME result'[d] = "conflict" PROVE ConflictOK(d)' BY DEF ConflictOK
    <2>2. Others(c) /\ job'[d] = job[d] BY <1>0, <1>2, ClientFrame DEF Others
    <2>3. Len(Hist(d)) <= Len(Hist(d)') BY <1>0, <1>2, HistGrows
    <2>4. Len(Hist(d)) \in Nat /\ Len(Hist(d)') \in Nat
      <3>1. Len(Hist(d)) \in Nat BY <1>0, HistTypes
      <3>2. history'[<<job'[d].store, Key(d)'>>] \in Seq(AllEvents)
        <4>1. <<job[d].store, Key(d)>> \in Stored BY <1>0, HistTypes
        <4>2. <<job'[d].store, Key(d)'>> = <<job[d].store, Key(d)>> BY <2>2 DEF Others, Key
        <4> QED BY <1>0, <4>1, <4>2 DEF DataTypes
      <3>3. Hist(d)' = history'[<<job'[d].store, Key(d)'>>] BY DEF Hist
      <3> QED BY <3>1, <3>2, <3>3
    <2>5. LoadedOK(d) BY <1>0 DEF HistoryInv
    <2>6. Len(loaded[d].state) \in Nat BY <2>5 DEF LoadedOK
    <2>7. SUFFICES /\ job[d].kind = "command" /\ pc'[d] \in {"rollback", "unlock", "done"}
                   /\ loaded'[d] = loaded[d] /\ Len(loaded[d].state) < Len(Hist(d))
      BY <2>2, <2>3, <2>4, <2>6 DEF ConflictOK
    <2>8. CASE d # c \/ (~Save(c) /\ ~SaveOutbox(c) /\ ~OperationFails(c))
      <3>1. /\ result[d] = "conflict"
            /\ job[d].kind = "command" /\ pc[d] \in {"rollback", "unlock", "done"} =>
                 pc'[d] \in {"rollback", "unlock", "done"} /\ loaded'[d] = loaded[d]
        <4>1. CASE d # c BY <2>1, <2>2, <4>1 DEF Others
        <4>2. CASE d = c BY <1>0, <1>2, <2>1, <2>8, <4>2, ConflictStays
        <4> QED BY <4>1, <4>2
      <3> QED BY <3>1 DEF ConflictOK
    <2>9. CASE d = c /\ Save(c)
      <3>1. /\ job[c].kind = "command" /\ pc[c] = "save" /\ loaded'[c] = loaded[c] BY <2>9 DEF Save, At
      <3>2. result[c] = "none" BY <1>0, <3>1 DEF HistoryInv, Outcome
      <3>3. SaveHolds(c) \/ SaveConflicts(c) BY <1>0, <2>9, SaveEnds
      <3>4. SaveConflicts(c) BY <2>1, <2>9, <3>2, <3>3 DEF SaveHolds
      <3> QED BY <2>9, <3>1, <3>4 DEF SaveConflicts
    <2>10. CASE d = c /\ (SaveOutbox(c) \/ OperationFails(c))
      <3>1. job[c].kind = "command" /\ pc[c] = "outbox" BY <2>10 DEF SaveOutbox, OperationFails, At
      <3>2. result[c] = "none" BY <1>0, <3>1 DEF HistoryInv, Outcome
      <3>3. PICK reply : /\ Operation(c, reply, "commit") /\ reply.error # "ConcurrencyError"
        BY <2>10, OutboxReply
      <3>4. result'[c] = IF reply.error # "none" THEN "failed" ELSE result[c] BY <1>0, <3>3, OperationOwn
      <3> QED BY <2>1, <2>10, <3>2, <3>4
    <2> QED BY <2>8, <2>9, <2>10
  <1> QED BY <1>1, <1>2, StepKinds

\* A ConcurrencyError is raised only if another command committed on the same
\* aggregate or saga after this one had loaded it, provided that every command
\* decides on an event and that the driver is not postgres-js, whose affected rows
\* Drizzle's saga persistence does not find.
THEOREM DatabaseConflictsAreReal ==
  ASSUME CommandsDecide, Driver # "postgres-js" PROVE DatabaseSpec => []ConflictsAreReal
  <1> DEFINE Inv == DatabaseInv /\ \A c \in Clients : ConflictOK(c)
  <1>1. DatabaseInit => Inv
    <2>1. SUFFICES ASSUME DatabaseInit PROVE Inv OBVIOUS
    <2>2. \A c \in Clients : result[c] = "none" BY <2>1 DEF DatabaseInit
    <2> QED BY <2>1, <2>2, InitData DEF ConflictOK
  <1>2. Inv /\ [DatabaseNext]_databaseVars => Inv' BY StepData, StepConflict
  <1>3. Inv => ConflictsAreReal
    <2>1. SUFFICES ASSUME Inv, NEW c \in Clients, result[c] = "conflict"
                   PROVE  Len(history[<<job[c].store, Key(c)>>]) > Len(loaded[c].state)
      BY DEF ConflictsAreReal
    <2>2. Len(loaded[c].state) < Len(Hist(c)) BY <2>1 DEF ConflictOK
    <2>3. Hist(c) = history[<<job[c].store, Key(c)>>] BY DEF Hist
    <2>4. Len(Hist(c)) \in Nat BY <2>1, HistTypes DEF DatabaseInv
    <2>5. LoadedOK(c) BY <2>1 DEF DatabaseInv, HistoryInv
    <2>6. Len(loaded[c].state) \in Nat BY <2>5 DEF LoadedOK
    <2> QED BY <2>2, <2>3, <2>4, <2>6
  <1> QED BY <1>1, <1>2, <1>3, PTL DEF DatabaseSpec
-----------------------------------------------------------------------------
\* Rows with distinct numbers in a column can be put in its order, and ORDER BY
\* returns all of them.
LEMMA Enumerated ==
  ASSUME NEW pks, NEW column, NEW N \in Nat, \A p \in pks : column[p] \in 1 .. N,
         \A p, q \in pks : column[p] = column[q] => p = q
  PROVE  LET n == Cardinality(pks)
             s == Ordered(pks, column)
         IN  /\ n \in Nat /\ s \in [1 .. n -> pks]
             /\ \A i, j \in 1 .. n : i < j => column[s[i]] < column[s[j]]
             /\ \A p \in pks : \E i \in 1 .. n : s[i] = p
  <1> DEFINE n == Cardinality(pks)
             s == Ordered(pks, column)
             Below(p) == {q \in pks : column[q] <= column[p]}
             rank == [p \in pks |-> Cardinality(Below(p))]
             t == [i \in 1 .. n |-> CHOOSE p \in pks : rank[p] = i]
  <1>1. IsFiniteSet(pks) /\ n \in Nat
    <2> DEFINE f == [p \in pks |-> column[p]]
    <2>1. f \in [pks -> 1 .. N] OBVIOUS
    <2>2. \A p, q \in pks : f[p] = f[q] => p = q OBVIOUS
    <2> HIDE DEF f
    <2>3. f \in Injection(pks, 1 .. N) BY <2>1, <2>2 DEF Injection, IsInjective
    <2>4. IsFiniteSet(1 .. N) BY FS_Interval
    <2>5. IsFiniteSet(pks) BY <2>3, <2>4, FS_Injection
    <2> QED BY <2>5, FS_CardinalityType
  <1>2. IsFiniteSet(1 .. n) /\ Cardinality(1 .. n) = n
    <2> HIDE DEF n
    <2>1. IsFiniteSet(1 .. n) /\ Cardinality(1 .. n) = IF 1 > n THEN 0 ELSE n - 1 + 1 BY <1>1, FS_Interval
    <2> QED BY <1>1, <2>1
  <1>3. ASSUME NEW p \in pks PROVE /\ IsFiniteSet(Below(p)) /\ Cardinality(Below(p)) \in 1 .. n
    <2>1. Below(p) \in SUBSET pks /\ p \in Below(p) OBVIOUS
    <2> HIDE DEF Below
    <2>2. IsFiniteSet(Below(p)) /\ Cardinality(Below(p)) <= n BY <1>1, <2>1, FS_Subset
    <2>3. Cardinality(Below(p)) \in Nat BY <2>2, FS_CardinalityType
    <2>4. Cardinality(Below(p)) # 0 BY <2>1, <2>2, FS_EmptySet
    <2> QED BY <1>1, <2>2, <2>3, <2>4
  <1>4. ASSUME NEW p \in pks, NEW q \in pks, column[p] < column[q]
        PROVE  rank[p] < rank[q]
    <2>1. Below(p) \in SUBSET Below(q) /\ q \in Below(q) /\ q \notin Below(p) BY <1>4
    <2>2. rank[p] = Cardinality(Below(p)) /\ rank[q] = Cardinality(Below(q)) OBVIOUS
    <2> HIDE DEF Below, rank
    <2>3. Cardinality(Below(p)) <= Cardinality(Below(q)) /\ Cardinality(Below(p)) # Cardinality(Below(q))
      BY <1>3, <2>1, FS_Subset
    <2>4. Cardinality(Below(p)) \in 1 .. n /\ Cardinality(Below(q)) \in 1 .. n BY <1>3
    <2> QED BY <1>1, <2>2, <2>3, <2>4
  <1>5. rank \in [pks -> 1 .. n]
    <2> HIDE DEF Below
    <2> QED BY <1>3
  <1> HIDE DEF rank, Below
  <1>6. \A p, q \in pks : rank[p] = rank[q] => p = q
    <2>1. SUFFICES ASSUME NEW p \in pks, NEW q \in pks, rank[p] = rank[q], p # q PROVE FALSE OBVIOUS
    <2>2. column[p] # column[q] BY <2>1
    <2>3. column[p] < column[q] \/ column[q] < column[p] BY <2>2
    <2>4. rank[p] < rank[q] \/ rank[q] < rank[p] BY <1>4, <2>3
    <2>5. rank[p] \in 1 .. n /\ rank[q] \in 1 .. n BY <1>5
    <2> QED BY <1>1, <2>1, <2>4, <2>5
  <1>7. rank \in Surjection(pks, 1 .. n)
    <2>1. rank \in Injection(pks, 1 .. n) BY <1>5, <1>6 DEF Injection, IsInjective
    <2> QED BY <1>2, <2>1, FS_Injection
  <1>8. \A i \in 1 .. n : \E p \in pks : rank[p] = i BY <1>7 DEF Surjection
  <1>9. \A i \in 1 .. n : t[i] \in pks /\ rank[t[i]] = i BY <1>8
  <1>10. t \in [1 .. n -> pks] BY <1>9
  <1> HIDE DEF t
  <1>11. \A i, j \in 1 .. n : i < j => column[t[i]] < column[t[j]]
    <2>1. SUFFICES ASSUME NEW i \in 1 .. n, NEW j \in 1 .. n, i < j PROVE column[t[i]] < column[t[j]] OBVIOUS
    <2>2. t[i] \in pks /\ t[j] \in pks /\ rank[t[i]] = i /\ rank[t[j]] = j BY <1>9
    <2>3. column[t[i]] # column[t[j]] BY <2>1, <2>2
    <2>4. ~(column[t[j]] < column[t[i]])
      <3>1. SUFFICES ASSUME column[t[j]] < column[t[i]] PROVE FALSE OBVIOUS
      <3>2. j < i BY <1>4, <2>2, <3>1
      <3> QED BY <2>1, <3>2
    <2>5. column[t[i]] \in 1 .. N /\ column[t[j]] \in 1 .. N BY <2>2
    <2> QED BY <2>3, <2>4, <2>5
  <1>12. s \in [1 .. n -> pks] /\ \A i, j \in 1 .. n : i < j => column[s[i]] < column[s[j]]
    BY <1>10, <1>11, OrderedIs
  <1> HIDE DEF s
  <1>13. \A i, j \in 1 .. n : s[i] = s[j] => i = j
    <2>1. SUFFICES ASSUME NEW i \in 1 .. n, NEW j \in 1 .. n, s[i] = s[j], i # j PROVE FALSE OBVIOUS
    <2>2. i < j \/ j < i BY <2>1
    <2>3. column[s[i]] < column[s[j]] \/ column[s[j]] < column[s[i]] BY <1>12, <2>2
    <2>4. column[s[i]] \in 1 .. N BY <1>12
    <2> QED BY <2>1, <2>3, <2>4
  <1>14. s \in Surjection(1 .. n, pks)
    <2> HIDE DEF n
    <2>1. s \in Injection(1 .. n, pks) BY <1>12, <1>13 DEF Injection, IsInjective
    <2>2. Cardinality(1 .. n) = Cardinality(pks) BY <1>2 DEF n
    <2> QED BY <1>1, <2>1, <2>2, FS_Injection
  <1>15. \A p \in pks : \E i \in 1 .. n : s[i] = p BY <1>14 DEF Surjection
  <1> QED BY <1>1, <1>12, <1>15 DEF s
-----------------------------------------------------------------------------
\* The ids of event rows, committed or not: each is given once, and they grow along
\* every stream.
OwnEvents(c) == {pk \in DOMAIN own[c] : pk[1] = "events"}
RowIds ==
  /\ \A p \in Table(rows, "events") : rows[p].id \in 1 .. serial
  /\ \A p, q \in Table(rows, "events") :
       /\ rows[p].id = rows[q].id => p = q
       /\ p[2] = q[2] /\ p[3] < q[3] => rows[p].id < rows[q].id
OwnIds(c) ==
  \A p \in OwnEvents(c) :
    /\ own[c][p].id \in 1 .. serial
    /\ \A q \in OwnEvents(c) : p[3] < q[3] => own[c][p].id < own[c][q].id
    /\ \A q \in Table(rows, "events") : rows[q].id # own[c][p].id
    /\ \A d \in Clients \ {c} : \A q \in OwnEvents(d) : own[c][p].id # own[d][q].id
    /\ pc[c] \in {"outbox", "commit"} =>
         \A q \in Table(rows, "events") : q[2] = Key(c) => rows[q].id < own[c][p].id
IdInv == RowIds /\ \A c \in Clients : OwnIds(c)

LEMMA IdsKept ==
  ASSUME IdInv, serial \in Nat, serial' \in Nat, serial <= serial', UNCHANGED wants,
         \A pk : pk[1] = "events" => Same(pk),
         \A d \in Clients : \A p \in OwnEvents(d)' : p \in OwnEvents(d) /\ own'[d][p] = own[d][p],
         \A d \in Clients : OwnEvents(d)' # {} /\ pc'[d] \in {"outbox", "commit"} => pc[d] \in {"outbox", "commit"}
  PROVE  IdInv'
  <1>1. Table(rows', "events") = Table(rows, "events") /\ \A p \in Table(rows, "events") : rows'[p] = rows[p]
    BY DEF Table, Same
  <1>2. RowIds'
    <2>1. RowIds BY DEF IdInv
    <2>2. \A p \in Table(rows, "events") : rows[p].id \in 1 .. serial' BY <2>1 DEF RowIds
    <2> QED BY <1>1, <2>1, <2>2 DEF RowIds
  <1>3. ASSUME NEW c \in Clients PROVE OwnIds(c)'
    <2>1. OwnIds(c) BY DEF IdInv
    <2>2. ASSUME NEW p \in OwnEvents(c)'
          PROVE  /\ own'[c][p].id \in 1 .. serial'
                 /\ \A q \in OwnEvents(c)' : p[3] < q[3] => own'[c][p].id < own'[c][q].id
                 /\ \A q \in Table(rows', "events") : rows'[q].id # own'[c][p].id
                 /\ \A d \in Clients \ {c} : \A q \in OwnEvents(d)' : own'[c][p].id # own'[d][q].id
                 /\ pc'[c] \in {"outbox", "commit"} =>
                      \A q \in Table(rows', "events") : q[2] = Key(c)' => rows'[q].id < own'[c][p].id
      <3>1. p \in OwnEvents(c) /\ own'[c][p] = own[c][p] BY <2>2
      <3>2. own'[c][p].id \in 1 .. serial' BY <2>1, <3>1 DEF OwnIds
      <3>3. \A q \in OwnEvents(c)' : p[3] < q[3] => own'[c][p].id < own'[c][q].id BY <2>1, <3>1 DEF OwnIds
      <3>4. \A q \in Table(rows', "events") : rows'[q].id # own'[c][p].id BY <1>1, <2>1, <3>1 DEF OwnIds
      <3>5. \A d \in Clients \ {c} : \A q \in OwnEvents(d)' : own'[c][p].id # own'[d][q].id
        BY <2>1, <3>1 DEF OwnIds
      <3>6. ASSUME pc'[c] \in {"outbox", "commit"}
            PROVE  \A q \in Table(rows', "events") : q[2] = Key(c)' => rows'[q].id < own'[c][p].id
        <4>1. pc[c] \in {"outbox", "commit"} BY <2>2, <3>6
        <4>2. Key(c)' = Key(c) BY DEF Key
        <4> QED BY <1>1, <2>1, <3>1, <4>1, <4>2 DEF OwnIds
      <3> QED BY <3>2, <3>3, <3>4, <3>5, <3>6
    <2> QED BY <2>2 DEF OwnIds
  <1> QED BY <1>2, <1>3 DEF IdInv

\* A save of events takes the next ids.
LEMMA SaveIds ==
  ASSUME DataTypes, OutboxInv, HistoryInv, IdInv, NEW c \in Clients, Save(c), Others(c),
         job[c].store = "events", SaveHolds(c)
  PROVE  IdInv'
  <1> DEFINE E == Events(c)
             v == loaded[c].version
             new == EventRows(Key(c), E, v, serial)
  <1>1. /\ job[c].kind = "command" /\ pc[c] = "save" /\ serial' = serial + Len(E)
        /\ UNCHANGED <<rows, wants>>
    BY DEF Save, At, Others
  <1>2. Len(E) \in Nat /\ serial \in Nat /\ LoadedOK(c) BY HistTypes DEF DataTypes, HistoryInv
  <1>3. v \in Nat BY <1>2 DEF LoadedOK
  <1>4. /\ DOMAIN new = {<<"events", Key(c), v + i>> : i \in 1 .. Len(E)}
        /\ \A i \in 1 .. Len(E) : new[<<"events", Key(c), v + i>>] = [event |-> E[i], id |-> serial + i]
    BY <1>3, EventRowsAre
  <1>5. own'[c] = new BY DEF SaveHolds
  <1>6. \A d \in Clients \ {c} : own'[d] = own[d] /\ pc'[d] = pc[d] BY DEF Others
  <1>7. RowIds /\ \A d \in Clients : OwnIds(d) BY DEF IdInv
  <1> HIDE DEF E, v, new
  <1>8. ASSUME NEW p \in OwnEvents(c)'
        PROVE  \E i \in 1 .. Len(E) : p = <<"events", Key(c), v + i>> /\ p[3] = v + i /\ own'[c][p].id = serial + i
    <2>1. p \in DOMAIN new BY <1>5 DEF OwnEvents
    <2>2. PICK i \in 1 .. Len(E) : p = <<"events", Key(c), v + i>> BY <1>4, <2>1
    <2>3. new[<<"events", Key(c), v + i>>] = [event |-> E[i], id |-> serial + i] BY <1>4
    <2>4. new[p].id = serial + i BY <2>2, <2>3
    <2> QED BY <1>5, <2>2, <2>4
  <1>9. \A p \in OwnEvents(c)' : own'[c][p].id \in serial + 1 .. serial' BY <1>1, <1>2, <1>8
  <1>10. \A q \in Table(rows, "events") : rows[q].id \in 1 .. serial BY <1>7 DEF RowIds
  <1>11. \A d \in Clients \ {c} : \A q \in OwnEvents(d)' : q \in OwnEvents(d) /\ own'[d][q] = own[d][q]
    BY <1>6 DEF OwnEvents
  <1>12. \A d \in Clients \ {c} : \A q \in OwnEvents(d)' : own'[d][q].id \in 1 .. serial
    BY <1>7, <1>11 DEF OwnIds
  <1>13. RowIds'
    <2>1. \A p \in Table(rows, "events") : rows[p].id \in 1 .. serial' BY <1>1, <1>2, <1>10
    <2> QED BY <1>1, <1>7, <2>1 DEF RowIds
  <1>14. OwnIds(c)'
    <2>1. ASSUME NEW p \in OwnEvents(c)', NEW q \in OwnEvents(c)', p[3] < q[3]
          PROVE  own'[c][p].id < own'[c][q].id
      <3>1. PICK i \in 1 .. Len(E) : p[3] = v + i /\ own'[c][p].id = serial + i BY <1>8
      <3>2. PICK j \in 1 .. Len(E) : q[3] = v + j /\ own'[c][q].id = serial + j BY <1>8
      <3>3. i < j BY <1>3, <2>1, <3>1, <3>2
      <3> QED BY <1>2, <3>1, <3>2, <3>3
    <2>2. ASSUME NEW p \in OwnEvents(c)'
          PROVE  /\ own'[c][p].id \in 1 .. serial'
                 /\ \A q \in Table(rows, "events") : rows[q].id # own'[c][p].id /\ rows[q].id < own'[c][p].id
                 /\ \A d \in Clients \ {c} : \A q \in OwnEvents(d)' : own'[c][p].id # own'[d][q].id
      BY <1>1, <1>2, <1>9, <1>10, <1>12
    <2> QED BY <1>1, <2>1, <2>2 DEF OwnIds
  <1>15. ASSUME NEW d \in Clients \ {c} PROVE OwnIds(d)'
    <2>1. OwnIds(d) /\ Key(d)' = Key(d) BY <1>1, <1>7 DEF Key
    <2>2. ASSUME NEW p \in OwnEvents(d)'
          PROVE  /\ own'[d][p].id \in 1 .. serial'
                 /\ \A q \in OwnEvents(d)' : p[3] < q[3] => own'[d][p].id < own'[d][q].id
                 /\ \A q \in Table(rows', "events") : rows'[q].id # own'[d][p].id
                 /\ \A e \in Clients \ {d} : \A q \in OwnEvents(e)' : own'[d][p].id # own'[e][q].id
                 /\ pc'[d] \in {"outbox", "commit"} =>
                      \A q \in Table(rows', "events") : q[2] = Key(d)' => rows'[q].id < own'[d][p].id
      <3>1. p \in OwnEvents(d) /\ own'[d][p] = own[d][p] BY <1>11
      <3>2. own'[d][p].id \in 1 .. serial' BY <1>1, <1>2, <1>12
      <3>3. \A q \in OwnEvents(d)' : p[3] < q[3] => own'[d][p].id < own'[d][q].id BY <1>11, <2>1, <3>1 DEF OwnIds
      <3>4. \A q \in Table(rows', "events") : rows'[q].id # own'[d][p].id BY <1>1, <2>1, <3>1 DEF OwnIds
      <3>5. ASSUME NEW e \in Clients \ {d}, NEW q \in OwnEvents(e)' PROVE own'[d][p].id # own'[e][q].id
        <4>1. CASE e = c
          <5>1. own'[c][q].id \in serial + 1 .. serial' BY <1>9, <3>5, <4>1
          <5>2. own'[d][p].id \in 1 .. serial BY <1>12
          <5> QED BY <1>2, <4>1, <5>1, <5>2
        <4>2. CASE e # c BY <1>11, <2>1, <3>1, <3>5, <4>2 DEF OwnIds
        <4> QED BY <4>1, <4>2
      <3>6. pc'[d] \in {"outbox", "commit"} =>
              \A q \in Table(rows', "events") : q[2] = Key(d)' => rows'[q].id < own'[d][p].id
        BY <1>1, <1>6, <2>1, <3>1 DEF OwnIds
      <3> QED BY <3>2, <3>3, <3>4, <3>5, <3>6
    <2> QED BY <2>2 DEF OwnIds
  <1> QED BY <1>13, <1>14, <1>15 DEF IdInv

\* A commit adds the transaction's events to those that are there.
LEMMA CommitEvents ==
  ASSUME DataTypes, OwnTables, HistoryInv, NEW c \in Clients, Commit(c)
  PROVE  /\ Table(rows', "events") = Table(rows, "events") \cup OwnEvents(c)
         /\ \A p \in Table(rows, "events") : p \notin OwnEvents(c) /\ rows'[p] = rows[p]
         /\ \A p \in OwnEvents(c) :
              /\ rows'[p] = own[c][p]
              /\ job[c].store = "events" /\ p[2] = Key(c) /\ p[3] \in Nat /\ p = <<"events", Key(c), p[3]>>
              /\ \A q \in Table(rows, "events") : q[2] = Key(c) => q[3] < p[3]
  <1>1. /\ job[c].kind = "command" /\ pc[c] = "commit" /\ rows' = Over(own[c], rows)
        /\ \A pk \in DOMAIN own[c] : pk[1] \in Stores => pk[1] = job[c].store
    BY CommitSteps
  <1>2. LoadedOK(c) /\ OwnRows(c) /\ Ready(c) /\ EventsTable BY DEF HistoryInv, RowsInv
  <1> DEFINE n == Len(Hist(c))
             E == Events(c)
  <1>3. /\ n \in Nat /\ Len(E) \in Nat /\ Key(c) \in LockKeys
        /\ job[c].store = "events" => Hist(c) = history[<<"events", Key(c)>>]
    BY HistTypes DEF Hist
  <1>4. ASSUME NEW p \in OwnEvents(c)
        PROVE  job[c].store = "events" /\ \E i \in 1 .. Len(E) : p = <<"events", Key(c), n + i>>
    <2>1. p \in DOMAIN own[c] /\ p[1] = "events" BY DEF OwnEvents
    <2>2. job[c].store = "events" BY <1>1, <2>1 DEF Stores
    <2> QED BY <1>1, <1>2, <2>1, <2>2, EventsNext
  <1>5. ASSUME NEW q \in Table(rows, "events"), NEW p \in OwnEvents(c), q[2] = Key(c) PROVE q[3] < p[3]
    <2>1. PICK k \in LockKeys : \E i \in 1 .. Len(history[<<"events", k>>]) : q = <<"events", k, i>>
      BY <1>2, <1>5 DEF EventsTable
    <2>2. PICK i \in 1 .. Len(history[<<"events", k>>]) : q = <<"events", k, i>> BY <2>1
    <2>3. k = Key(c) /\ q[3] = i BY <1>5, <2>2
    <2>4. i \in 1 .. n BY <1>3, <1>4, <2>2, <2>3
    <2>5. PICK j \in 1 .. Len(E) : p = <<"events", Key(c), n + j>> BY <1>4
    <2>6. p[3] = n + j BY <2>5
    <2> QED BY <1>3, <2>3, <2>4, <2>6
  <1>6. ASSUME NEW p \in OwnEvents(c)
        PROVE  p[2] = Key(c) /\ p[3] \in Nat /\ p = <<"events", Key(c), p[3]>>
    <2>1. PICK j \in 1 .. Len(E) : p = <<"events", Key(c), n + j>> BY <1>4
    <2>2. p[2] = Key(c) /\ p[3] = n + j BY <2>1
    <2> QED BY <1>3, <2>1, <2>2
  <1>7. ASSUME NEW q \in Table(rows, "events") PROVE q \notin OwnEvents(c)
    <2>1. SUFFICES ASSUME q \in OwnEvents(c) PROVE FALSE OBVIOUS
    <2>2. q[2] = Key(c) /\ q[3] \in Nat BY <1>6, <2>1
    <2>3. q[3] < q[3] BY <1>5, <2>1, <2>2
    <2> QED BY <2>2, <2>3
  <1>8. /\ Table(rows', "events") = Table(rows, "events") \cup OwnEvents(c)
        /\ \A p \in OwnEvents(c) : rows'[p] = own[c][p]
        /\ \A p \in Table(rows, "events") : p \notin OwnEvents(c) => rows'[p] = rows[p]
    BY <1>1 DEF Over, Table, OwnEvents
  <1> QED BY <1>4, <1>5, <1>6, <1>7, <1>8

LEMMA CommitIds ==
  ASSUME DataTypes, OwnTables, HistoryInv, IdInv, NEW c \in Clients, Commit(c), Others(c)
  PROVE  IdInv'
  <1>1. /\ job[c].kind = "command" /\ pc[c] = "commit" /\ serial' = serial /\ UNCHANGED <<job, wants, loaded>>
        /\ own' = [own EXCEPT ![c] = << >>]
    BY SettledRows DEF Commit, At, Others
  <1>2. own'[c] = << >> /\ \A d \in Clients \ {c} : own'[d] = own[d] /\ pc'[d] = pc[d]
    BY <1>1 DEF DataTypes, IsFcn, Others
  <1>3. /\ Table(rows', "events") = Table(rows, "events") \cup OwnEvents(c)
        /\ \A p \in Table(rows, "events") : p \notin OwnEvents(c) /\ rows'[p] = rows[p]
        /\ \A p \in OwnEvents(c) :
             /\ rows'[p] = own[c][p]
             /\ job[c].store = "events" /\ p[2] = Key(c) /\ p[3] \in Nat /\ p = <<"events", Key(c), p[3]>>
             /\ \A q \in Table(rows, "events") : q[2] = Key(c) => q[3] < p[3]
    BY CommitEvents
  <1>4. RowIds /\ \A d \in Clients : OwnIds(d) BY DEF IdInv
  <1>5. \A p, q \in OwnEvents(c) : own[c][p].id = own[c][q].id => p = q
    <2>1. SUFFICES ASSUME NEW p \in OwnEvents(c), NEW q \in OwnEvents(c), own[c][p].id = own[c][q].id, p # q
                   PROVE  FALSE
      OBVIOUS
    <2>2. p[3] # q[3] /\ p[3] \in Nat /\ q[3] \in Nat BY <1>3, <2>1
    <2>3. p[3] < q[3] \/ q[3] < p[3] BY <2>2
    <2>4. own[c][p].id \in 1 .. serial /\ own[c][q].id \in 1 .. serial BY <1>4 DEF OwnIds
    <2>5. own[c][p].id < own[c][q].id \/ own[c][q].id < own[c][p].id BY <1>4, <2>3 DEF OwnIds
    <2> QED BY <2>1, <2>4, <2>5 DEF DataTypes
  <1>6. RowIds'
    <2>1. \A p \in Table(rows', "events") : rows'[p].id \in 1 .. serial' BY <1>1, <1>3, <1>4 DEF RowIds, OwnIds
    <2>2. ASSUME NEW p \in Table(rows', "events"), NEW q \in Table(rows', "events"), rows'[p].id = rows'[q].id
          PROVE  p = q
      <3>1. CASE p \in Table(rows, "events") /\ q \in Table(rows, "events") BY <1>3, <1>4, <2>2, <3>1 DEF RowIds
      <3>2. CASE p \in OwnEvents(c) /\ q \in OwnEvents(c) BY <1>3, <1>5, <2>2, <3>2
      <3>3. CASE p \in Table(rows, "events") /\ q \in OwnEvents(c) BY <1>3, <1>4, <2>2, <3>3 DEF OwnIds
      <3>4. CASE p \in OwnEvents(c) /\ q \in Table(rows, "events")
        <4>1. rows[q].id # own[c][p].id BY <1>4, <3>4 DEF OwnIds
        <4> QED BY <1>3, <2>2, <3>4, <4>1
      <3> QED BY <1>3, <3>1, <3>2, <3>3, <3>4
    <2>3. ASSUME NEW p \in Table(rows', "events"), NEW q \in Table(rows', "events"), p[2] = q[2], p[3] < q[3]
          PROVE  rows'[p].id < rows'[q].id
      <3>1. CASE p \in Table(rows, "events") /\ q \in Table(rows, "events") BY <1>3, <1>4, <2>3, <3>1 DEF RowIds
      <3>2. CASE p \in OwnEvents(c) /\ q \in OwnEvents(c) BY <1>3, <1>4, <2>3, <3>2 DEF OwnIds
      <3>3. CASE p \in Table(rows, "events") /\ q \in OwnEvents(c)
        <4>1. p[2] = Key(c) BY <1>3, <2>3, <3>3
        <4>2. rows[p].id < own[c][q].id BY <1>1, <1>4, <3>3, <4>1 DEF OwnIds
        <4> QED BY <1>3, <3>3, <4>2
      <3>4. CASE p \in OwnEvents(c) /\ q \in Table(rows, "events")
        <4>1. q[2] = Key(c) BY <1>3, <2>3, <3>4
        <4>2. q[3] < p[3] /\ p[3] \in Nat BY <1>3, <3>4, <4>1
        <4>3. EventsTable BY DEF HistoryInv, RowsInv
        <4>4. PICK k \in LockKeys : \E i \in 1 .. Len(history[<<"events", k>>]) : q = <<"events", k, i>>
          BY <3>4, <4>3 DEF EventsTable
        <4>5. q[3] \in Int BY <4>4
        <4> QED BY <2>3, <4>2, <4>5
      <3> QED BY <1>3, <3>1, <3>2, <3>3, <3>4
    <2> QED BY <2>1, <2>2, <2>3 DEF RowIds
  <1>7. OwnIds(c)' BY <1>2 DEF OwnIds, OwnEvents
  <1>8. ASSUME NEW d \in Clients \ {c} PROVE OwnIds(d)'
    <2>1. OwnEvents(d)' = OwnEvents(d) /\ own'[d] = own[d] /\ pc'[d] = pc[d] /\ Key(d)' = Key(d)
      BY <1>1, <1>2 DEF OwnEvents, Key
    <2>2. ASSUME NEW p \in OwnEvents(d)
          PROVE  /\ own[d][p].id \in 1 .. serial'
                 /\ \A q \in OwnEvents(d) : p[3] < q[3] => own[d][p].id < own[d][q].id
                 /\ \A q \in Table(rows', "events") : rows'[q].id # own[d][p].id
                 /\ \A e \in Clients \ {d} : \A q \in OwnEvents(e)' : own[d][p].id # own'[e][q].id
                 /\ pc[d] \in {"outbox", "commit"} =>
                      \A q \in Table(rows', "events") : q[2] = Key(d) => rows'[q].id < own[d][p].id
      <3>1. own[d][p].id \in 1 .. serial' /\ \A q \in OwnEvents(d) : p[3] < q[3] => own[d][p].id < own[d][q].id
        BY <1>1, <1>4 DEF OwnIds
      <3>2. ASSUME NEW q \in Table(rows', "events") PROVE rows'[q].id # own[d][p].id
        <4>1. CASE q \in Table(rows, "events") BY <1>3, <1>4, <4>1 DEF OwnIds
        <4>2. CASE q \in OwnEvents(c) BY <1>3, <1>4, <4>2 DEF OwnIds
        <4> QED BY <1>3, <4>1, <4>2
      <3>3. ASSUME NEW e \in Clients \ {d}, NEW q \in OwnEvents(e)' PROVE own[d][p].id # own'[e][q].id
        <4>1. CASE e = c BY <1>2, <3>3, <4>1 DEF OwnEvents
        <4>2. CASE e # c BY <1>2, <1>4, <3>3, <4>2 DEF OwnIds, OwnEvents
        <4> QED BY <4>1, <4>2
      <3>4. ASSUME pc[d] \in {"outbox", "commit"}, NEW q \in Table(rows', "events"), q[2] = Key(d)
            PROVE  rows'[q].id < own[d][p].id
        <4>1. CASE q \in Table(rows, "events") BY <1>3, <1>4, <3>4, <4>1 DEF OwnIds
        <4>2. CASE q \in OwnEvents(c)
          <5>1. /\ job[c].store = "events" /\ Key(c) = Key(d) BY <1>3, <3>4, <4>2
          <5>2. LoadedOK(c) /\ OwnRows(c) /\ Ready(c) /\ LoadedOK(d) /\ OwnRows(d) /\ Ready(d) /\ Exclusive
            BY DEF HistoryInv
          <5>3. p \in DOMAIN own[d] /\ p[1] = "events" BY DEF OwnEvents
          <5>4. job[d].kind = "command" /\ job[d].store = "events" BY <5>2, <5>3 DEF OwnRows, NextRow, Stores
          <5>5. Hist(d) = Hist(c) BY <5>1, <5>4 DEF Hist
          <5> DEFINE n == Len(Hist(c))
          <5>6. \E i \in 1 .. Len(Events(d)) : TRUE
            <6>1. OwnRows(d) /\ p[1] \in Stores BY <5>2, <5>3 DEF Stores
            <6>2. NextRow(d, p) BY <5>3, <6>1 DEF OwnRows
            <6> QED BY <5>3, <6>2 DEF NextRow
          <5>7. Len(Events(d)) \in Nat BY HistTypes
          <5>8. 1 \in 1 .. Len(Events(d)) BY <5>6, <5>7
          <5>9. <<"events", Key(d), n + 1>> \in DOMAIN own[d]
            BY <3>4, <5>2, <5>4, <5>5, <5>8, EventsNext
          <5>10. q \in DOMAIN own[c] /\ q[1] = "events" BY <4>2 DEF OwnEvents
          <5>11. PICK j \in 1 .. Len(Events(c)) : q = <<"events", Key(c), n + j>>
            BY <1>1, <5>1, <5>2, <5>10, EventsNext
          <5>12. Len(Events(c)) \in Nat BY HistTypes
          <5>13. 1 \in 1 .. Len(Events(c)) BY <5>12
          <5>14. <<"events", Key(c), n + 1>> \in DOMAIN own[c] BY <1>1, <5>1, <5>2, <5>13, EventsNext
          <5> DEFINE pk == <<"events", Key(c), n + 1>>
          <5>15. pk[1] \in Stores /\ pk \in DOMAIN own[c] /\ pk \in DOMAIN own[d] BY <5>1, <5>9, <5>14 DEF Stores
          <5> QED BY <5>2, <5>15 DEF Exclusive
        <4> QED BY <1>3, <4>1, <4>2
      <3> QED BY <3>1, <3>2, <3>3, <3>4
    <2> QED BY <2>1, <2>2 DEF OwnIds
  <1> QED BY <1>6, <1>7, <1>8 DEF IdInv
-----------------------------------------------------------------------------
LEMMA StepIds ==
  ASSUME DatabaseInv, IdInv, [DatabaseNext]_databaseVars PROVE IdInv'
  <1>0. /\ DataTypes /\ OwnTables /\ RelayInv /\ OutboxInv /\ HistoryInv
        /\ serial \in Nat /\ serial' \in Nat
    BY StepTypes DEF DatabaseInv, DataTypes
  <1>1. CASE Quiet
    <2>1. UNCHANGED <<rows, serial, own, wants, pc>> BY <1>1 DEF Quiet, dataVars
    <2>2. \A pk : pk[1] = "events" => Same(pk) BY <2>1 DEF Same
    <2>3. serial <= serial' BY <1>0, <2>1
    <2>4. \A d \in Clients : \A p \in OwnEvents(d)' : p \in OwnEvents(d) /\ own'[d][p] = own[d][p]
      BY <2>1 DEF OwnEvents
    <2> QED BY <1>0, <2>1, <2>2, <2>3, <2>4, IdsKept
  <1>2. ASSUME NEW c \in Clients, ClientStep(c) PROVE IdInv'
    <2>1. Others(c) /\ UNCHANGED wants BY <1>0, <1>2, ClientFrame DEF Others
    <2>2. SUFFICES ASSUME ~Commit(c), ~(Save(c) /\ job[c].store = "events" /\ SaveHolds(c)) PROVE IdInv'
      BY <1>0, <2>1, CommitIds, SaveIds
    <2>3. \A pk : pk[1] = "events" => Same(pk)
      <3>1. \A pk : pk[1] \in Stores => Same(pk) BY <1>0, <1>2, <2>2, StoreRows
      <3> QED BY <3>1 DEF Stores
    <2>4. SUFFICES /\ serial <= serial'
                   /\ \A p \in OwnEvents(c)' : p \in OwnEvents(c) /\ own'[c][p] = own[c][p]
                   /\ OwnEvents(c)' # {} /\ pc'[c] \in {"outbox", "commit"} => pc[c] \in {"outbox", "commit"}
      <3>1. \A d \in Clients \ {c} : /\ \A p \in OwnEvents(d)' : p \in OwnEvents(d) /\ own'[d][p] = own[d][p]
                                     /\ pc'[d] = pc[d]
        BY <2>1 DEF Others, OwnEvents
      <3> QED BY <1>0, <2>1, <2>3, <2>4, <3>1, IdsKept
    <2>5. CASE Save(c)
      <3>1. serial' = serial \/ serial' = serial + Len(Events(c)) BY <2>5 DEF Save
      <3>2. serial <= serial' BY <1>0, <3>1, HistTypes
      <3>3. OwnEvents(c)' = {}
        <4>1. CASE SaveHolds(c)
          <5>1. DOMAIN own'[c] = SaveTargets(c) /\ job[c].store # "events" BY <2>2, <2>5, <4>1 DEF SaveHolds
          <5> QED BY <1>0, <5>1, SaveTargetsAre DEF OwnEvents
        <4>2. CASE SaveConflicts(c) BY <4>2 DEF SaveConflicts, OwnEvents
        <4> QED BY <1>0, <2>5, <4>1, <4>2, SaveEnds
      <3> QED BY <3>2, <3>3
    <2>6. CASE SaveOutbox(c) \/ OperationFails(c)
      <3>1. serial' = serial /\ pc[c] = "outbox" BY <2>6 DEF SaveOutbox, OperationFails, At
      <3>2. PICK reply : Operation(c, reply, "commit") /\ \A pk \in DOMAIN reply.new : pk[1] = "outbox"
        BY <2>6, OutboxReply
      <3>3. /\ DOMAIN own'[c] = DOMAIN reply.new \cup DOMAIN own[c]
            /\ \A pk \in DOMAIN own[c] : pk \notin DOMAIN reply.new => own'[c][pk] = own[c][pk]
        BY <1>0, <3>2, OperationOwn
      <3>4. \A p \in OwnEvents(c)' : p \in OwnEvents(c) /\ own'[c][p] = own[c][p] BY <3>2, <3>3 DEF OwnEvents
      <3> QED BY <1>0, <3>1, <3>4
    <2>7. CASE Rollback(c)
      <3>1. serial' = serial /\ own' = [own EXCEPT ![c] = << >>] BY <2>7, SettledRows DEF Rollback
      <3>2. DOMAIN own'[c] = {} BY <1>0, <3>1 DEF DataTypes, IsFcn
      <3> QED BY <1>0, <3>1, <3>2 DEF OwnEvents
    <2>8. CASE ~Transactional(c)
      <3>1. UNCHANGED <<serial, own>> BY <1>2, <2>8, DataSteps DEF Transactional
      <3>2. \A p \in OwnEvents(c)' : p \in OwnEvents(c) /\ own'[c][p] = own[c][p] BY <3>1 DEF OwnEvents
      <3>3. ASSUME OwnEvents(c)' # {} PROVE pc'[c] = pc[c]
        <4>1. pc[c] \in InTransaction BY <1>0, <3>2, <3>3, OwnNothing DEF OwnEvents
        <4> QED BY <1>0, <1>2, <2>8, <4>1, StageSteps
      <3> QED BY <1>0, <3>1, <3>2, <3>3
    <2> QED BY <2>2, <2>5, <2>6, <2>7, <2>8 DEF Transactional
  <1> QED BY <1>1, <1>2, StepKinds
-----------------------------------------------------------------------------
\* The three adapters read a page in the same way.
Page(r, cursor) ==
  LET later == {pk \in Table(r, "events") : r[pk].id > cursor}
  IN  Limit(Ordered(later, [pk \in later |-> r[pk].id]), PageSize)

LEMMA PageBy ==
  \A r, a : D!EventReaderPage(r, a) = Page(r, a) /\ P!EventReaderPage(r, a) = Page(r, a) /\ T!EventReaderPage(r, a) = Page(r, a)
  <1>1. \A pks, column : /\ D!Ordered(pks, column) = Ordered(pks, column)
                         /\ P!Ordered(pks, column) = Ordered(pks, column)
                         /\ T!Ordered(pks, column) = Ordered(pks, column)
    BY CardinalityBy DEF D!Ordered, P!Ordered, T!Ordered, Ordered
  <1>2. \A s, n : D!Limit(s, n) = Limit(s, n) /\ P!Limit(s, n) = Limit(s, n) /\ T!Limit(s, n) = Limit(s, n)
    BY DEF D!Limit, P!Limit, T!Limit, Limit
  <1>3. ASSUME NEW r, NEW a
        PROVE  D!EventReaderPage(r, a) = Page(r, a) /\ P!EventReaderPage(r, a) = Page(r, a) /\ T!EventReaderPage(r, a) = Page(r, a)
    <2> DEFINE later == {pk \in Table(r, "events") : r[pk].id > a}
               column == [pk \in later |-> r[pk].id]
               s == Ordered(later, column)
               page == Limit(s, PageSize)
    <2>1. D!Ordered(later, column) = s /\ P!Ordered(later, column) = s /\ T!Ordered(later, column) = s BY <1>1
    <2>2. Page(r, a) = page BY DEF Page
    <2>3. D!Limit(s, PageSize) = page /\ P!Limit(s, PageSize) = page /\ T!Limit(s, PageSize) = page BY <1>2
    <2>4. D!EventReaderPage(r, a) = page BY <2>1, <2>3, TableBy DEF D!EventReaderPage
    <2>5. P!EventReaderPage(r, a) = page BY <2>1, <2>3, TableBy DEF P!EventReaderPage
    <2>6. T!EventReaderPage(r, a) = page BY <2>1, <2>3, TableBy DEF T!EventReaderPage
    <2> QED BY <2>2, <2>4, <2>5, <2>6
  <1> QED BY <1>3

\* A page holds the next rows after the cursor in the order of their ids, and when it
\* is not full there are no more.
LEMMA PageIs ==
  ASSUME RowIds, serial \in Nat, NEW cursor \in Nat
  PROVE  LET page == Page(rows, cursor)
         IN  /\ page \in Seq(Table(rows, "events"))
             /\ \A i \in 1 .. Len(page) : cursor < rows[page[i]].id
             /\ \A i, j \in 1 .. Len(page) : i < j => rows[page[i]].id < rows[page[j]].id
             /\ \A pk \in Table(rows, "events") : cursor < rows[pk].id =>
                  \/ \E i \in 1 .. Len(page) : page[i] = pk
                  \/ Len(page) = PageSize /\ rows[page[Len(page)]].id < rows[pk].id
  <1> DEFINE later == {pk \in Table(rows, "events") : rows[pk].id > cursor}
             column == [pk \in later |-> rows[pk].id]
             n == Cardinality(later)
             s == Ordered(later, column)
             m == IF n < PageSize THEN n ELSE PageSize
             page == Page(rows, cursor)
  <1>1. \A p \in later : column[p] \in 1 .. serial BY DEF RowIds
  <1>2. \A p, q \in later : column[p] = column[q] => p = q BY DEF RowIds
  <1>3. \A p \in later : column[p] = rows[p].id /\ p \in Table(rows, "events") /\ cursor < rows[p].id
    <2>1. \A p \in later : rows[p].id \in Nat BY DEF RowIds
    <2> QED BY <2>1
  <1>4. \A p \in Table(rows, "events") : cursor < rows[p].id => p \in later
    <2>1. \A p \in Table(rows, "events") : rows[p].id \in Nat BY DEF RowIds
    <2> QED BY <2>1
  <1>5. page = Limit(s, PageSize) BY DEF Page
  <1> HIDE DEF later, column, page
  <1>6. /\ n \in Nat /\ s \in [1 .. n -> later]
        /\ \A i, j \in 1 .. n : i < j => column[s[i]] < column[s[j]]
        /\ \A p \in later : \E i \in 1 .. n : s[i] = p
    BY <1>1, <1>2, Enumerated
  <1> HIDE DEF n, s
  <1>7. s \in Seq(later) /\ Len(s) = n BY <1>6
  <1>8. m \in 0 .. n /\ PageSize \in Nat \ {0} /\ (m < n => m = PageSize) BY <1>6, NumbersAssumption
  <1>9. page = SubSeq(s, 1, m) BY <1>5, <1>7 DEF Limit
  <1> HIDE DEF m
  <1>10. page \in Seq(later) /\ Len(page) = m /\ \A i \in 1 .. m : page[i] = s[i] /\ i \in 1 .. n
    BY <1>6, <1>7, <1>8, <1>9
  <1>11. \A i \in 1 .. m : page[i] \in later /\ page[i] = s[i] /\ i \in 1 .. n BY <1>10
  <1>12. \A i \in 1 .. m : cursor < rows[page[i]].id BY <1>3, <1>11
  <1>13. \A i, j \in 1 .. m : i < j => rows[page[i]].id < rows[page[j]].id
    <2>1. SUFFICES ASSUME NEW i \in 1 .. m, NEW j \in 1 .. m, i < j PROVE rows[page[i]].id < rows[page[j]].id OBVIOUS
    <2>2. column[s[i]] < column[s[j]] BY <1>6, <1>11, <2>1
    <2> QED BY <1>3, <1>11, <2>2
  <1>14. ASSUME NEW pk \in Table(rows, "events"), cursor < rows[pk].id
         PROVE  \/ \E i \in 1 .. m : page[i] = pk
                \/ m = PageSize /\ rows[page[m]].id < rows[pk].id
    <2>1. pk \in later BY <1>4, <1>14
    <2>2. PICK i \in 1 .. n : s[i] = pk BY <1>6, <2>1
    <2>3. CASE i <= m
      <3>1. i \in 1 .. m BY <1>8, <2>3
      <3> QED BY <1>10, <2>2, <3>1
    <2>4. CASE m < i
      <3>1. m = PageSize /\ m \in 1 .. m /\ m \in 1 .. n BY <1>6, <1>8, <2>4
      <3>2. column[s[m]] < column[s[i]] BY <1>6, <2>4, <3>1
      <3> QED BY <1>3, <1>11, <2>1, <2>2, <3>1, <3>2
    <2> QED BY <1>8, <2>3, <2>4
  <1>15. page \in Seq(Table(rows, "events"))
    <2>1. \A i \in 1 .. m : page[i] \in Table(rows, "events") BY <1>3, <1>11
    <2> QED BY <1>10, <2>1
  <1> QED BY <1>10, <1>12, <1>13, <1>14, <1>15 DEF page
-----------------------------------------------------------------------------
\* What a reader has read, and what is still ahead of its cursor.
Cursor(c) == IF found[c] = << >> THEN 0 ELSE rows[Last(found[c])].id
Promised(c, e) ==
  \E pk \in Table(rows, "events") :
    /\ rows[pk].event = e
    /\ (\E i \in 1 .. Len(found[c]) : found[c][i] = pk) \/ (pc[c] # "done" /\ Cursor(c) < rows[pk].id)
ReaderOK(c) ==
  job[c].kind = "reader" =>
    /\ pc[c] \in {"start", "read", "done"}
    /\ pc[c] = "start" => found[c] = << >> /\ before[c] = {}
    /\ found[c] \in Seq(Table(rows, "events"))
    /\ \A i, j \in 1 .. Len(found[c]) : i < j => rows[found[c][i]].id < rows[found[c][j]].id
    /\ \A e \in before[c] : Promised(c, e)

\* What a step may be for a reader.
LEMMA ReaderSteps ==
  ASSUME DataTypes, NEW c \in Clients, ClientStep(c), job[c].kind = "reader", pc[c] \in {"start", "read", "done"}
  PROVE  \/ ReadBegins(c) \/ ReadPage(c)
         \/ pc[c] = "start" /\ pc'[c] = "done" /\ UNCHANGED <<found, before>>
         \/ UNCHANGED <<pc, found, before>>
  <1> USE DEF At, Goto, Finish
  <1>1. ~CommandStep(c) /\ ~OperationFails(c)
    BY DEF CommandStep, LoadSnapshot, Load, Save, SaveOutbox, Commit, Rollback, FindSnapshot, SaveSnapshot,
           Publish, MarkByEventIds, OperationFails
  <1>2. BackgroundStep(c) => ReadBegins(c) \/ ReadPage(c)
    BY DEF BackgroundStep, RelayLoad, RelayPublish, RelayMark, RelayCleanup, Check, DeleteExpired, Handle,
           MarkProcessed, Sweep
  <1>3. CASE TakeLock(c) \/ AskAgain(c) \/ GiveUp(c) \/ DropLock(c)
    BY <1>3 DEF TakeLock, AskAgain, GiveUp, DropLock, localVars
  <1>4. CASE LockRefused(c) BY <1>4 DEF LockRefused, DataTypes
  <1>5. ~LockReturned(c) BY DEF LockReturned
  <1> QED BY <1>1, <1>2, <1>3, <1>4, <1>5 DEF ClientStep, LockStep

\* A committed event stays as it is.
LEMMA EventRowsStay ==
  ASSUME DatabaseInv, NEW c \in Clients, ClientStep(c)
  PROVE  \A p \in Table(rows, "events") : p \in Table(rows', "events") /\ rows'[p] = rows[p]
  <1>1. CASE Commit(c)
    <2>1. /\ Table(rows', "events") = Table(rows, "events") \cup OwnEvents(c)
          /\ \A p \in Table(rows, "events") : rows'[p] = rows[p]
      BY <1>1, CommitEvents DEF DatabaseInv
    <2> QED BY <2>1
  <1>2. CASE ~Commit(c)
    <2>1. \A pk : pk[1] \in Stores => Same(pk) BY <1>2, StoreRows DEF DatabaseInv
    <2>2. \A pk : pk[1] = "events" => Same(pk) BY <2>1 DEF Stores
    <2> QED BY <2>2 DEF Table, Same
  <1> QED BY <1>1, <1>2

\* What a reader has read stays read, and what is ahead of it stays ahead.
LEMMA ReaderKept ==
  ASSUME NEW d \in Clients, ReaderOK(d), job'[d] = job[d], found'[d] = found[d], before'[d] = before[d],
         pc'[d] = pc[d] \/ (pc[d] = "start" /\ pc'[d] = "done"),
         \A p \in Table(rows, "events") : p \in Table(rows', "events") /\ rows'[p] = rows[p]
  PROVE  ReaderOK(d)'
  <1> DEFINE read == found[d]
             n == Len(read)
  <1>1. SUFFICES ASSUME job[d].kind = "reader" PROVE ReaderOK(d)' BY DEF ReaderOK
  <1>2. /\ pc[d] \in {"start", "read", "done"}
        /\ pc[d] = "start" => read = << >> /\ before[d] = {}
        /\ read \in Seq(Table(rows, "events"))
        /\ \A i, j \in 1 .. n : i < j => rows[read[i]].id < rows[read[j]].id
        /\ \A e \in before[d] : Promised(d, e)
    BY <1>1 DEF ReaderOK
  <1>3. n \in Nat /\ read \in Seq(Table(rows', "events")) BY <1>2
  <1>4. \A i \in 1 .. n : read[i] \in Table(rows, "events") BY <1>2
  <1>5. \A i, j \in 1 .. n : i < j => rows'[read[i]].id < rows'[read[j]].id BY <1>2, <1>4
  <1>6. Cursor(d)' = Cursor(d)
    <2>1. CASE read = << >> BY <2>1 DEF Cursor
    <2>2. CASE read # << >>
      <3>1. Last(read) \in Table(rows, "events")
        <4>1. n \in 1 .. n BY <1>2, <2>2
        <4> QED BY <1>4, <4>1 DEF Last
      <3>2. rows'[Last(read)] = rows[Last(read)] BY <3>1
      <3> QED BY <2>2, <3>2 DEF Cursor
    <2> QED BY <2>1, <2>2
  <1>7. ASSUME NEW e \in before[d] PROVE Promised(d, e)'
    <2>1. PICK pk \in Table(rows, "events") :
            /\ rows[pk].event = e
            /\ (\E i \in 1 .. n : read[i] = pk) \/ (pc[d] # "done" /\ Cursor(d) < rows[pk].id)
      BY <1>2, <1>7 DEF Promised
    <2>2. pc'[d] = pc[d] BY <1>2, <1>7
    <2> QED BY <1>6, <2>1, <2>2 DEF Promised
  <1> QED BY <1>2, <1>3, <1>5, <1>7 DEF ReaderOK

\* When a reader begins, all that is in the log is ahead of it.
LEMMA ReaderBegins ==
  ASSUME DatabaseInv, RowIds, NEW c \in Clients, ReadBegins(c), ReaderOK(c)
  PROVE  ReaderOK(c)'
  <1>1. /\ job[c].kind = "reader" /\ pc[c] = "start" /\ UNCHANGED <<rows, found, history, job>>
        /\ before' = [before EXCEPT ![c] = Logged] /\ pc' = [pc EXCEPT ![c] = "read"]
    BY DEF ReadBegins, At, Goto, dataVars
  <1>2. DataTypes /\ EventsTable BY DEF DatabaseInv, HistoryInv, RowsInv
  <1>3. before'[c] = Logged /\ pc'[c] = "read" BY <1>1, <1>2 DEF DataTypes, IsFcn
  <1>4. found[c] = << >> BY <1>1 DEF ReaderOK
  <1>5. ASSUME NEW e \in Logged PROVE Promised(c, e)'
    <2>1. PICK k \in LockKeys : e \in ToSet(history[<<"events", k>>]) BY <1>5 DEF Logged
    <2> DEFINE h == history[<<"events", k>>]
    <2>2. h \in Seq(AllEvents) BY <1>2 DEF DataTypes, Stored, Stores
    <2>3. PICK i \in 1 .. Len(h) : h[i] = e
      <3> HIDE DEF h
      <3> QED BY <2>1, <2>2 DEF ToSet, h
    <2> DEFINE pk == <<"events", k, i>>
    <2>4. pk \in DOMAIN rows /\ rows[pk].event = e BY <1>2, <2>3 DEF EventsTable
    <2>5. pk \in Table(rows, "events") BY <2>4 DEF Table
    <2>6. 0 < rows[pk].id BY <2>5 DEF RowIds
    <2>7. Cursor(c)' = 0 BY <1>1, <1>4 DEF Cursor
    <2> HIDE DEF pk
    <2> QED BY <1>1, <1>3, <2>4, <2>5, <2>6, <2>7 DEF Promised
  <1>6. << >> \in Seq(Table(rows, "events")) /\ Len(<< >>) = 0 OBVIOUS
  <1> QED BY <1>1, <1>3, <1>4, <1>5, <1>6 DEF ReaderOK

\* A page moves the cursor over what it holds and nothing else.
LEMMA ReaderReads ==
  ASSUME DatabaseInv, RowIds, NEW c \in Clients, ReadPage(c), ReaderOK(c)
  PROVE  ReaderOK(c)'
  <1> DEFINE read == found[c]
             page == Page(rows, Cursor(c))
             new == read \o page
             n == Len(read)
             m == Len(page)
  <1>1. DataTypes /\ serial \in Nat BY DEF DatabaseInv, DataTypes
  <1>2. /\ job[c].kind = "reader" /\ pc[c] = "read" /\ UNCHANGED <<rows, job, before>>
        /\ found' = [found EXCEPT ![c] = new]
        /\ m < PageSize => pc' = [pc EXCEPT ![c] = "done"]
        /\ ~(m < PageSize) => pc' = pc
    <2>1. /\ By(D!EventReaderPage(rows, Cursor(c)), P!EventReaderPage(rows, Cursor(c)),
                T!EventReaderPage(rows, Cursor(c))) = page
      BY PageBy DEF By
    <2> HIDE DEF page
    <2>2. m < PageSize => pc' = [pc EXCEPT ![c] = "done"] BY <2>1 DEF ReadPage, Finish, Goto, Cursor
    <2>3. ~(m < PageSize) => pc' = pc BY <2>1 DEF ReadPage, Cursor
    <2>4. found' = [found EXCEPT ![c] = new] BY <2>1 DEF ReadPage, Cursor
    <2> QED BY <2>2, <2>3, <2>4 DEF ReadPage, At, dataVars
  <1>3. found'[c] = new /\ pc'[c] \in {"read", "done"} /\ (~(m < PageSize) => pc'[c] = "read")
    BY <1>1, <1>2 DEF DataTypes, IsFcn
  <1>4. /\ read \in Seq(Table(rows, "events")) /\ n \in Nat
        /\ \A i, j \in 1 .. n : i < j => rows[read[i]].id < rows[read[j]].id
        /\ \A e \in before[c] : Promised(c, e)
    BY <1>2 DEF ReaderOK
  <1>5. \A pk \in Table(rows, "events") : rows[pk].id \in Nat BY DEF RowIds
  <1>6. \A i \in 1 .. n : read[i] \in Table(rows, "events") /\ rows[read[i]].id \in Nat BY <1>4, <1>5
  <1>7. Cursor(c) \in Nat /\ \A i \in 1 .. n : rows[read[i]].id <= Cursor(c)
    <2>1. CASE read = << >> BY <1>4, <2>1 DEF Cursor
    <2>2. CASE read # << >>
      <3>1. n \in 1 .. n BY <1>4, <2>2
      <3>2. Cursor(c) = rows[read[n]].id BY <2>2 DEF Cursor, Last
      <3>3. \A i \in 1 .. n : i = n \/ i < n BY <1>4
      <3> QED BY <1>4, <1>6, <3>1, <3>2, <3>3
    <2> QED BY <2>1, <2>2
  <1>8. /\ page \in Seq(Table(rows, "events"))
        /\ \A i \in 1 .. m : Cursor(c) < rows[page[i]].id
        /\ \A i, j \in 1 .. m : i < j => rows[page[i]].id < rows[page[j]].id
        /\ \A pk \in Table(rows, "events") : Cursor(c) < rows[pk].id =>
             (\E i \in 1 .. m : page[i] = pk) \/ (m = PageSize /\ rows[page[m]].id < rows[pk].id)
    BY <1>1, <1>7, PageIs
  <1> HIDE DEF page, read
  <1>9. m \in Nat /\ new \in Seq(Table(rows, "events")) /\ Len(new) = n + m BY <1>4, <1>8
  <1>10. \A i \in 1 .. n : i \in 1 .. Len(new) /\ new[i] = read[i] BY <1>4, <1>8, <1>9
  <1>11. \A i \in 1 .. m : n + i \in 1 .. Len(new) /\ new[n + i] = page[i] BY <1>4, <1>8, <1>9
  <1>12. ASSUME NEW i \in 1 .. Len(new) PROVE i \in 1 .. n \/ (i - n \in 1 .. m /\ n + (i - n) = i)
    BY <1>4, <1>9
  <1> HIDE DEF new, m, n
  <1>13. ASSUME NEW i \in 1 .. Len(new), NEW j \in 1 .. Len(new), i < j
         PROVE  rows[new[i]].id < rows[new[j]].id
    <2>1. CASE i \in 1 .. n /\ j \in 1 .. n BY <1>4, <1>10, <1>13, <2>1
    <2>2. CASE i \in 1 .. n /\ j \notin 1 .. n
      <3>1. j - n \in 1 .. m /\ n + (j - n) = j BY <1>12, <2>2
      <3>2. new[j] = page[j - n] BY <1>11, <3>1
      <3>3. Cursor(c) < rows[new[j]].id BY <1>8, <3>1, <3>2
      <3>4. rows[new[i]].id <= Cursor(c) /\ rows[new[i]].id \in Nat BY <1>6, <1>7, <1>10, <2>2
      <3>5. rows[new[j]].id \in Nat
        <4>1. new[j] \in Table(rows, "events") BY <1>9
        <4> QED BY <1>5, <4>1
      <3> QED BY <1>7, <3>3, <3>4, <3>5
    <2>3. CASE i \notin 1 .. n
      <3>1. i - n \in 1 .. m /\ n + (i - n) = i BY <1>12, <2>3
      <3>2. j \notin 1 .. n BY <1>4, <1>9, <1>13, <2>3
      <3>3. j - n \in 1 .. m /\ n + (j - n) = j BY <1>12, <3>2
      <3>4. i - n < j - n BY <1>4, <1>9, <1>13
      <3>5. new[i] = page[i - n] /\ new[j] = page[j - n] BY <1>11, <3>1, <3>3
      <3> QED BY <1>8, <3>1, <3>3, <3>4, <3>5
    <2> QED BY <2>1, <2>2, <2>3
  <1>14. ASSUME NEW e \in before[c] PROVE Promised(c, e)'
    <2>1. PICK pk \in Table(rows, "events") :
            /\ rows[pk].event = e
            /\ (\E i \in 1 .. n : read[i] = pk) \/ Cursor(c) < rows[pk].id
      BY <1>4, <1>14 DEF Promised, read, n
    <2>2. SUFFICES (\E i \in 1 .. Len(new) : new[i] = pk) \/ (pc'[c] # "done" /\ Cursor(c)' < rows[pk].id)
      BY <1>2, <1>3, <2>1 DEF Promised
    <2>3. CASE \E i \in 1 .. n : read[i] = pk BY <1>10, <2>3
    <2>4. CASE Cursor(c) < rows[pk].id /\ \E i \in 1 .. m : page[i] = pk BY <1>11, <2>4
    <2>5. CASE Cursor(c) < rows[pk].id /\ m = PageSize /\ rows[page[m]].id < rows[pk].id
      <3>0. pc'[c] # "done" BY <1>3, <1>9, <2>5
      <3>1. m \in 1 .. m /\ n + m = Len(new) BY <1>9, <2>5, NumbersAssumption
      <3>2. new[Len(new)] = page[m] /\ Len(new) # 0 BY <1>4, <1>9, <1>11, <3>1
      <3>3. new # << >> BY <1>9, <3>2
      <3>4. Cursor(c)' = rows[page[m]].id BY <1>2, <1>3, <3>2, <3>3 DEF Cursor, Last
      <3> QED BY <2>5, <3>0, <3>4
    <2> QED BY <1>8, <2>1, <2>3, <2>4, <2>5
  <1> QED BY <1>2, <1>3, <1>9, <1>13, <1>14 DEF ReaderOK

LEMMA StepReaders ==
  ASSUME DatabaseInv, RowIds, \A c \in Clients : ReaderOK(c), [DatabaseNext]_databaseVars
  PROVE  \A d \in Clients : ReaderOK(d)'
  <1>0. DataTypes BY DEF DatabaseInv
  <1>1. CASE Quiet
    <2>1. UNCHANGED <<rows, job, pc, found, before>> BY <1>1 DEF Quiet, dataVars
    <2> QED BY <2>1, ReaderKept
  <1>2. ASSUME NEW c \in Clients, ClientStep(c), NEW d \in Clients PROVE ReaderOK(d)'
    <2>1. Others(c) /\ job' = job BY <1>0, <1>2, ClientFrame DEF Others
    <2>2. \A p \in Table(rows, "events") : p \in Table(rows', "events") /\ rows'[p] = rows[p]
      BY <1>2, EventRowsStay
    <2>3. CASE d # c
      <3>1. pc'[d] = pc[d] /\ found'[d] = found[d] /\ before'[d] = before[d] BY <2>1, <2>3 DEF Others
      <3> QED BY <2>1, <2>2, <3>1, ReaderKept
    <2>4. CASE d = c /\ job[c].kind # "reader" BY <2>1, <2>4 DEF ReaderOK
    <2>5. CASE d = c /\ job[c].kind = "reader"
      <3>1. pc[c] \in {"start", "read", "done"} BY <2>5 DEF ReaderOK
      <3>2. CASE ReadBegins(c) BY <2>5, <3>2, ReaderBegins
      <3>3. CASE ReadPage(c) BY <2>5, <3>3, ReaderReads
      <3>4. CASE /\ UNCHANGED <<found, before>>
                 /\ (pc[c] = "start" /\ pc'[c] = "done") \/ UNCHANGED pc
        BY <2>1, <2>2, <2>5, <3>4, ReaderKept
      <3> QED BY <1>0, <1>2, <2>5, <3>1, <3>2, <3>3, <3>4, ReaderSteps
    <2> QED BY <2>3, <2>4, <2>5
  <1> QED BY <1>1, <1>2, StepKinds

\* An event reader yields no event twice and keeps the order of every stream, whatever
\* commits and rolls back between its pages, and when it ends it has yielded all that
\* was in the log when it began.
THEOREM DatabaseReadsWhatWasThere == DatabaseSpec => []ReadsWhatWasThere
  <1> DEFINE Inv == DatabaseInv /\ IdInv /\ \A c \in Clients : ReaderOK(c)
  <1>1. DatabaseInit => Inv
    <2>1. SUFFICES ASSUME DatabaseInit PROVE Inv OBVIOUS
    <2>2. /\ DOMAIN rows = {} /\ \A c \in Clients : DOMAIN own[c] = {}
          /\ \A c \in Clients : pc[c] \in {"start", "done"} /\ found[c] = << >> /\ before[c] = {}
      BY <2>1 DEF DatabaseInit
    <2>3. IdInv
      <3>1. Table(rows, "events") = {} /\ \A c \in Clients : OwnEvents(c) = {} BY <2>2 DEF Table, OwnEvents
      <3> QED BY <3>1 DEF IdInv, RowIds, OwnIds
    <2>4. << >> \in Seq(Table(rows, "events")) /\ Len(<< >>) = 0 OBVIOUS
    <2>5. ASSUME NEW c \in Clients PROVE ReaderOK(c)
      <3>1. found[c] \in Seq(Table(rows, "events")) /\ Len(found[c]) = 0 BY <2>2, <2>4
      <3>2. \A i \in 1 .. Len(found[c]) : FALSE BY <3>1
      <3>3. \A e \in before[c] : FALSE BY <2>2
      <3>4. pc[c] \in {"start", "read", "done"} /\ found[c] = << >> /\ before[c] = {} BY <2>2
      <3> QED BY <3>1, <3>2, <3>3, <3>4 DEF ReaderOK
    <2> QED BY <2>1, <2>3, <2>5, InitData
  <1>2. Inv /\ [DatabaseNext]_databaseVars => Inv' BY StepData, StepIds, StepReaders DEF IdInv
  <1>3. Inv => ReadsWhatWasThere
    <2>1. SUFFICES ASSUME Inv, NEW c \in Clients, job[c].kind = "reader"
          PROVE  LET read == found[c]
                 IN  /\ \A i, j \in DOMAIN read : i < j =>
                          /\ read[i] # read[j]
                          /\ read[i][2] = read[j][2] => read[i][3] < read[j][3]
                     /\ pc[c] = "done" => before[c] \subseteq {rows[read[i]].event : i \in DOMAIN read}
      BY DEF ReadsWhatWasThere
    <2> DEFINE read == found[c]
    <2>2. RowIds /\ EventsTable BY <2>1 DEF DatabaseInv, IdInv, HistoryInv, RowsInv
    <2>3. /\ read \in Seq(Table(rows, "events"))
          /\ \A i, j \in 1 .. Len(read) : i < j => rows[read[i]].id < rows[read[j]].id
          /\ \A e \in before[c] : Promised(c, e)
      BY <2>1 DEF ReaderOK
    <2>4. DOMAIN read = 1 .. Len(read) /\ \A i \in DOMAIN read : read[i] \in Table(rows, "events") BY <2>3
    <2>5. ASSUME NEW i \in DOMAIN read, NEW j \in DOMAIN read, i < j
          PROVE  read[i] # read[j] /\ (read[i][2] = read[j][2] => read[i][3] < read[j][3])
      <3> DEFINE p == read[i]
                 q == read[j]
      <3>1. rows[p].id < rows[q].id BY <2>3, <2>4, <2>5
      <3>2. p \in Table(rows, "events") /\ q \in Table(rows, "events") BY <2>4
      <3> HIDE DEF p, q
      <3>3. rows[p].id \in Nat /\ rows[q].id \in Nat BY <2>2, <3>2 DEF RowIds
      <3>4. p # q BY <3>1, <3>3
      <3>5. ASSUME p[2] = q[2] PROVE p[3] < q[3]
        <4>1. PICK k \in LockKeys : \E x \in 1 .. Len(history[<<"events", k>>]) : p = <<"events", k, x>>
          BY <2>2, <3>2 DEF EventsTable
        <4>2. PICK x \in 1 .. Len(history[<<"events", k>>]) : p = <<"events", k, x>> BY <4>1
        <4>3. PICK l \in LockKeys : \E y \in 1 .. Len(history[<<"events", l>>]) : q = <<"events", l, y>>
          BY <2>2, <3>2 DEF EventsTable
        <4>4. PICK y \in 1 .. Len(history[<<"events", l>>]) : q = <<"events", l, y>> BY <4>3
        <4>5. k = l /\ p[3] = x /\ q[3] = y /\ p[3] # q[3] BY <3>4, <3>5, <4>2, <4>4
        <4>6. ~(q[3] < p[3])
          <5>1. SUFFICES ASSUME q[3] < p[3] PROVE FALSE OBVIOUS
          <5>2. rows[q].id < rows[p].id BY <2>2, <3>2, <3>5, <5>1 DEF RowIds
          <5> QED BY <3>1, <3>3, <5>2
        <4>7. p[3] \in Int /\ q[3] \in Int BY <4>2, <4>4
        <4> QED BY <4>5, <4>6, <4>7
      <3> QED BY <3>4, <3>5 DEF p, q
    <2>6. ASSUME pc[c] = "done", NEW e \in before[c]
          PROVE  e \in {rows[read[i]].event : i \in DOMAIN read}
      <3>1. PICK pk \in Table(rows, "events") : rows[pk].event = e /\ \E i \in 1 .. Len(read) : read[i] = pk
        BY <2>3, <2>6 DEF Promised
      <3> QED BY <2>4, <3>1
    <2> QED BY <2>5, <2>6
  <1> QED BY <1>1, <1>2, <1>3, PTL DEF DatabaseSpec
=============================================================================
