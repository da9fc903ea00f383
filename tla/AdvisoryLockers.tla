--------------------------- MODULE AdvisoryLockers --------------------------
(***************************************************************************)
(* The database-backed AggregateLocker of the Drizzle, Prisma and TypeORM  *)
(* adapters, on PostgreSQL, MySQL and SQL Server, in several processes.    *)
(*                                                                         *)
(* Each process takes a per-key mutex of its own first, because the locks  *)
(* of the database are re-entrant within a session, and then the lock of   *)
(* the database, over one connection that it keeps for the purpose.  The   *)
(* connection runs one statement at a time, in order: a statement that     *)
(* waits for a lock holds up the ones behind it, unlocks included.         *)
(* PostgreSQL with a timeout polls instead of waiting.                     *)
(*                                                                         *)
(* A session may be lost, and its locks with it.  Drizzle and TypeORM keep *)
(* the dead connection; Prisma opens a new one.                            *)
(***************************************************************************)
EXTENDS Naturals, Sequences, FiniteSets

CONSTANTS
  Clients,      \* calls of acquire ... release
  ProcessOf,    \* the process of each
  LockKeys,     \* aggregates
  LockNames,    \* the ways a database may name the keys: truncation and hashing
                \* may give two keys one name
  MaxLosses     \* bound: lost sessions

ASSUME ClientsAssumption == IsFiniteSet(Clients)

VARIABLES
  wants,     \* the aggregate each call locks
  locker,    \* adapter, dialect, names, and whether acquire gets a timeout
  mutex,     \* keys taken in each process's mutex
  queue,     \* statements submitted to each process's connection
  up,        \* whether the connection is usable
  owner,     \* the session that holds each lock of the database, and how often
  believed,  \* _held: what each process believes it holds
  acq,       \* stage of each call
  losses     \* processes whose session was lost, in order

lockerVars == <<wants, locker, mutex, queue, up, owner, believed, acq, losses>>

Processes == {ProcessOf[c] : c \in Clients}
Names == UNION {{name[k] : k \in LockKeys} : name \in LockNames}
Nobody == {}

AcqStages == {"idle", "asking", "polling", "held", "releasing", "released",
              "releaseFailed", "rejected"}

\* SQL Server is TypeORM's alone.
Lockers == [adapter : {"drizzle", "prisma", "typeorm"}, dialect : {"pg", "mysql", "mssql"},
            timed : BOOLEAN, name : LockNames]
Supported(l) == l.dialect = "mssql" => l.adapter = "typeorm"

LockersInit ==
  /\ wants \in [Clients -> LockKeys]
  /\ locker \in {l \in Lockers : Supported(l)}
  /\ mutex = [p \in Processes |-> {}]
  /\ queue = [p \in Processes |-> << >>]
  /\ up = [p \in Processes |-> TRUE]
  /\ owner = [n \in Names |-> [by |-> Nobody, count |-> 0]]
  /\ believed = [p \in Processes |-> {}]
  /\ acq = [c \in Clients |-> "idle"]
  /\ losses = << >>

NameOf(c) == locker.name[wants[c]]
\* Drizzle and Prisma remember the database's name of a lock, TypeORM the key.
BelievedKey(c) == IF locker.adapter = "typeorm" THEN wants[c] ELSE NameOf(c)

Polls == locker.dialect = "pg" /\ locker.timed
Submit(c, op) == queue' = [queue EXCEPT ![ProcessOf[c]] = Append(@, [call |-> c, op |-> op])]
Running(p, op) == queue[p] # << >> /\ Head(queue[p]).op = op
Dequeue(p) == queue' = [queue EXCEPT ![p] = Tail(@)]
Unlock(c) == mutex' = [mutex EXCEPT ![ProcessOf[c]] = @ \ {wants[c]}]
Grantable(c) == owner[NameOf(c)].by \subseteq {ProcessOf[c]}

\* Mutant: no mutex in front of the re-entrant lock of the database.
AcquireReentrant(c) ==
  /\ acq[c] = "idle"
  /\ mutex' = [mutex EXCEPT ![ProcessOf[c]] = @ \cup {wants[c]}]
  /\ acq' = [acq EXCEPT ![c] = "asking"]
  /\ Submit(c, IF Polls THEN "try" ELSE "lock")
  /\ UNCHANGED <<wants, locker, up, owner, believed, losses>>

\* acquire(): the wait for the mutex has no deadline.
Acquire(c) ==
  /\ acq[c] = "idle"
  /\ wants[c] \notin mutex[ProcessOf[c]]
  /\ mutex' = [mutex EXCEPT ![ProcessOf[c]] = @ \cup {wants[c]}]
  /\ acq' = [acq EXCEPT ![c] = "asking"]
  /\ Submit(c, IF Polls THEN "try" ELSE "lock")
  /\ UNCHANGED <<wants, locker, up, owner, believed, losses>>

\* The lock is granted: pg_advisory_lock, pg_try_advisory_lock, GET_LOCK or
\* sp_getapplock.
Granted(p) ==
  /\ up[p] /\ (Running(p, "lock") \/ Running(p, "try"))
  /\ LET c == Head(queue[p]).call
     IN  /\ Grantable(c)
         /\ owner' = [owner EXCEPT ![NameOf(c)] = [by |-> {p}, count |-> @.count + 1]]
         /\ believed' = IF locker.dialect = "mssql" THEN believed
                        ELSE [believed EXCEPT ![p] = @ \cup {BelievedKey(c)}]
         /\ acq' = [acq EXCEPT ![c] = "held"]
  /\ Dequeue(p)
  /\ UNCHANGED <<wants, locker, mutex, up, losses>>

\* pg_try_advisory_lock returns false: sleep, then try again or give up.
TryFails(p) ==
  /\ up[p] /\ Running(p, "try") /\ ~Grantable(Head(queue[p]).call)
  /\ acq' = [acq EXCEPT ![Head(queue[p]).call] = "polling"]
  /\ Dequeue(p)
  /\ UNCHANGED <<wants, locker, mutex, up, owner, believed, losses>>

PollAgain(c) ==
  /\ acq[c] = "polling"
  /\ acq' = [acq EXCEPT ![c] = "asking"]
  /\ Submit(c, "try")
  /\ UNCHANGED <<wants, locker, mutex, up, owner, believed, losses>>
DeadlinePassed(c) ==
  /\ acq[c] = "polling"
  /\ acq' = [acq EXCEPT ![c] = "rejected"]
  /\ Unlock(c)
  /\ UNCHANGED <<wants, locker, queue, up, owner, believed, losses>>

\* Mutant: the mutex stays taken when the database refuses the lock.
RejectHeadKeepsMutex(p) ==
  /\ acq' = [acq EXCEPT ![Head(queue[p]).call] = "rejected"]
  /\ Dequeue(p)
  /\ UNCHANGED <<wants, locker, mutex, up, owner, believed, losses>>

\* The statement that asks for a lock reports a failure: acquire() releases the
\* mutex and throws.
RejectHead(p) ==
  /\ acq' = [acq EXCEPT ![Head(queue[p]).call] = "rejected"]
  /\ Unlock(Head(queue[p]).call)
  /\ Dequeue(p)
  /\ UNCHANGED <<wants, locker, up, owner, believed, losses>>

Waiting(p) == up[p] /\ Running(p, "lock") /\ ~Grantable(Head(queue[p]).call)
LockTimesOut(p) == Waiting(p) /\ locker.timed /\ RejectHead(p)

\* Each of two sessions waits for a lock of the other: the database picks one.
DeadlockVictim(p) ==
  /\ Waiting(p)
  /\ \E q \in owner[NameOf(Head(queue[p]).call)].by :
       Waiting(q) /\ p \in owner[NameOf(Head(queue[q]).call)].by
  /\ RejectHead(p)

Release(c) ==
  /\ acq[c] = "held"
  /\ acq' = [acq EXCEPT ![c] = "releasing"]
  /\ Submit(c, "unlock")
  /\ UNCHANGED <<wants, locker, mutex, up, owner, believed, losses>>

\* The end of release(): the mutex is released whatever happened.
ReleaseEnds(p, stage) ==
  /\ acq' = [acq EXCEPT ![Head(queue[p]).call] = stage]
  /\ Unlock(Head(queue[p]).call)
  /\ Dequeue(p)
  /\ UNCHANGED <<wants, locker, up, losses>>

Unlocked(p) ==
  /\ up[p] /\ Running(p, "unlock")
  /\ LET c == Head(queue[p]).call
     IN  /\ p \in owner[NameOf(c)].by
         /\ owner' = [owner EXCEPT ![NameOf(c)] =
              IF @.count = 1 THEN [by |-> Nobody, count |-> 0] ELSE [by |-> @.by, count |-> @.count - 1]]
         /\ believed' = [believed EXCEPT ![p] = @ \ {BelievedKey(c)}]
  /\ ReleaseEnds(p, "released")

\* The session does not hold the lock: an error if it is believed to, except on
\* SQL Server, where the failure is swallowed.
NotHeld(p) ==
  /\ up[p] /\ Running(p, "unlock")
  /\ LET c == Head(queue[p]).call
     IN  /\ p \notin owner[NameOf(c)].by
         /\ ReleaseEnds(p, IF BelievedKey(c) \in believed[p] THEN "releaseFailed" ELSE "released")
  /\ UNCHANGED <<owner, believed>>

LoseSession(p) ==
  /\ up[p] /\ Len(losses) < MaxLosses
  /\ up' = [up EXCEPT ![p] = FALSE]
  /\ owner' = [n \in Names |-> IF owner[n].by = {p} THEN [by |-> Nobody, count |-> 0] ELSE owner[n]]
  /\ losses' = Append(losses, p)
  /\ UNCHANGED <<wants, locker, mutex, queue, believed, acq>>

Reconnect(p) ==
  /\ ~up[p] /\ locker.adapter = "prisma"
  /\ up' = [up EXCEPT ![p] = TRUE]
  /\ UNCHANGED <<wants, locker, mutex, queue, owner, believed, acq, losses>>

\* A statement on a dead connection rejects.
StatementRejected(p) ==
  /\ ~up[p] /\ queue[p] # << >>
  /\ \/ ~Running(p, "unlock") /\ RejectHead(p)
     \/ /\ Running(p, "unlock")
        /\ ReleaseEnds(p, IF locker.dialect = "mssql" THEN "released" ELSE "releaseFailed")
        /\ UNCHANGED <<owner, believed>>

ServerStep(p) ==
  \/ Granted(p) \/ TryFails(p) \/ LockTimesOut(p) \/ DeadlockVictim(p)
  \/ Unlocked(p) \/ NotHeld(p) \/ StatementRejected(p)

LockersTypeOK ==
  /\ wants \in [Clients -> LockKeys]
  /\ locker \in Lockers
  /\ mutex \in [Processes -> SUBSET LockKeys]
  /\ \A p \in Processes : \A i \in DOMAIN queue[p] :
       /\ ProcessOf[queue[p][i].call] = p
       /\ acq[queue[p][i].call] = IF queue[p][i].op = "unlock" THEN "releasing" ELSE "asking"
  /\ up \in [Processes -> BOOLEAN]
  /\ owner \in [Names -> [by : SUBSET Processes, count : Nat]]
  /\ acq \in [Clients -> AcqStages]
=============================================================================
