-------------------------- MODULE AggregateLocking --------------------------
(***************************************************************************)
(* Pessimistic locking of aggregates in the engine.                        *)
(*                                                                         *)
(*  - InMemoryAggregateLocker: per key a `locked` flag and a FIFO queue of *)
(*    waiters, each with an optional timeout;                              *)
(*  - PessimisticConcurrencyStrategy: `execute` (implicit unit of work:    *)
(*    acquire, attempt, release in `finally`) and `acquireForUow` (explicit*)
(*    unit of work: acquire, register the release as a completion hook);   *)
(*  - uow-completion-hooks: the hooks run once, in registration order,     *)
(*    when the owning unit of work settles;                                *)
(*  - Domain.withUnitOfWork: settle, run the hooks, publish, return.  The  *)
(*    event bus awaits its handlers, so a client that publishes waits for  *)
(*    the commands its events' handlers dispatch.                          *)
(*                                                                         *)
(* A client is one dispatchCommand call outside a unit of work, or one     *)
(* withUnitOfWork call.                                                    *)
(***************************************************************************)
EXTENDS Naturals, Sequences, SequencesExt

CONSTANTS
  Clients,         \* every caller that takes locks
  Uows,            \* those that are explicit units of work
  Keys,            \* lock keys, one per aggregate instance
  NoClient,        \* null for Clients
  NoKey,           \* null for Keys
  ReactsTo,        \* the client whose events' handler starts this one, or NoClient
  MaxAcquires,     \* bound: commands on aggregates per unit of work
  Timeouts,        \* TRUE iff lockTimeoutMs > 0 is configured
  ReleaseMayFail   \* TRUE iff locker.release can reject (database lockers)

ASSUME LockingAssumption ==
  /\ Uows \subseteq Clients
  /\ NoClient \notin Clients
  /\ NoKey \notin Keys
  /\ ReactsTo \in [Clients -> Clients \cup {NoClient}]
  /\ MaxAcquires \in Nat
  /\ Timeouts \in BOOLEAN
  /\ ReleaseMayFail \in BOOLEAN

VARIABLES
  locked,     \* entry.locked per key
  queue,      \* entry.queue per key: the waiting clients
  pc,         \* where each client is
  want,       \* the key of the pending acquire
  owed,       \* releases still to run: onSettled hooks, or the `finally` block
  acquires,   \* acquires issued so far
  committed,  \* did the client's unit of work commit?
  hookFailed  \* did one of the client's releases reject?  (observation only)

vars == <<locked, queue, pc, want, owed, acquires, committed, hookFailed>>

PC == {"idle", "body", "waiting", "granted", "settling", "publishing", "done"}

LockingTypeOK ==
  /\ locked \in [Keys -> BOOLEAN]
  /\ queue \in [Keys -> Seq(Clients)]
  /\ pc \in [Clients -> PC]
  /\ want \in [Clients -> Keys \cup {NoKey}]
  /\ owed \in [Clients -> Seq(Keys)]
  /\ acquires \in [Clients -> 0..MaxAcquires + 1]
  /\ committed \in [Clients -> BOOLEAN]
  /\ hookFailed \in [Clients -> BOOLEAN]

LockingInit ==
  /\ locked = [k \in Keys |-> FALSE]
  /\ queue = [k \in Keys |-> << >>]
  /\ pc = [u \in Clients |-> "idle"]
  /\ want = [u \in Clients |-> NoKey]
  /\ owed = [u \in Clients |-> << >>]
  /\ acquires = [u \in Clients |-> 0]
  /\ committed = [u \in Clients |-> FALSE]
  /\ hookFailed = [u \in Clients |-> FALSE]

-----------------------------------------------------------------------------
(* What the state means.                                                   *)

\* u has been given k: acquire() resolved and the release has not run.
Holds(u, k) ==
  \/ pc[u] = "granted" /\ want[u] = k
  \/ \E i \in 1..Len(owed[u]) : owed[u][i] = k

\* u's unit of work has settled and its hooks are behind it: a release it still
\* owes never runs.
PastHooks(u) == pc[u] \in {"publishing", "done"}

\* Unfinished reactions to u's events: eventBus.dispatch is still pending.
Reacting(u) == {v \in Clients : ReactsTo[v] = u /\ pc[v] # "done"}

MayIssue(u) ==
  IF u \in Uows THEN acquires[u] < MaxAcquires ELSE acquires[u] = 0

-----------------------------------------------------------------------------
(* The clients and the locker.                                             *)

\* A reaction starts while its parent publishes; the others start on their own.
Start(u) ==
  /\ pc[u] = "idle"
  /\ ReactsTo[u] # NoClient => pc[ReactsTo[u]] = "publishing"
  /\ pc' = [pc EXCEPT ![u] = "body"]
  /\ UNCHANGED <<locked, queue, want, owed, acquires, committed, hookFailed>>

\* acquire() on a free key: takes it without waiting.
AcquireFree(u, k) ==
  /\ pc[u] = "body" /\ MayIssue(u)
  /\ ~locked[k]
  /\ locked' = [locked EXCEPT ![k] = TRUE]
  /\ pc' = [pc EXCEPT ![u] = "granted"]
  /\ want' = [want EXCEPT ![u] = k]
  /\ acquires' = [acquires EXCEPT ![u] = @ + 1]
  /\ UNCHANGED <<queue, owed, committed, hookFailed>>

\* acquire() on a held key, by its own holder too: not reentrant.
AcquireHeld(u, k) ==
  /\ pc[u] = "body" /\ MayIssue(u)
  /\ locked[k]
  /\ queue' = [queue EXCEPT ![k] = Append(@, u)]
  /\ pc' = [pc EXCEPT ![u] = "waiting"]
  /\ want' = [want EXCEPT ![u] = k]
  /\ acquires' = [acquires EXCEPT ![u] = @ + 1]
  /\ UNCHANGED <<locked, owed, committed, hookFailed>>

\* Mutant: acquire() inside the `try`, so that a timeout releases too.
LockTimeoutReleases(u) ==
  /\ Timeouts
  /\ pc[u] = "waiting"
  /\ \E i \in 1..Len(queue[want[u]]) :
       /\ queue[want[u]][i] = u
       /\ queue' = [queue EXCEPT ![want[u]] = RemoveAt(@, i)]
  /\ pc' = [pc EXCEPT ![u] = "settling"]
  /\ owed' = [owed EXCEPT ![u] = Append(@, want[u])]
  /\ want' = [want EXCEPT ![u] = NoKey]
  /\ UNCHANGED <<locked, acquires, committed, hookFailed>>

\* Mutant: the timer removes the waiter but never rejects its promise.
LockTimeoutNeverRejects(u) ==
  /\ Timeouts
  /\ pc[u] = "waiting"
  /\ \E i \in 1..Len(queue[want[u]]) :
       /\ queue[want[u]][i] = u
       /\ queue' = [queue EXCEPT ![want[u]] = RemoveAt(@, i)]
  /\ UNCHANGED <<locked, pc, want, owed, acquires, committed, hookFailed>>

\* The timer of a queued waiter fires: the waiter leaves the queue and acquire()
\* rejects.  An implicit command fails with it, before the `try` that releases;
\* a unit of work's function may catch the error and go on.
LockTimeout(u) ==
  /\ Timeouts
  /\ pc[u] = "waiting"
  /\ \E i \in 1..Len(queue[want[u]]) :
       /\ queue[want[u]][i] = u
       /\ queue' = [queue EXCEPT ![want[u]] = RemoveAt(@, i)]
  /\ \E next \in IF u \in Uows THEN {"body", "settling"} ELSE {"settling"} :
       pc' = [pc EXCEPT ![u] = next]
  /\ want' = [want EXCEPT ![u] = NoKey]
  /\ UNCHANGED <<locked, owed, acquires, committed, hookFailed>>

\* Mutant: the key is cleared before the hook captures it.
RegisterClearedKey(u) ==
  /\ pc[u] = "granted"
  /\ owed' = [owed EXCEPT ![u] = Append(@, NoKey)]
  /\ want' = [want EXCEPT ![u] = NoKey]
  /\ pc' = [pc EXCEPT ![u] = "body"]
  /\ UNCHANGED <<locked, queue, acquires, committed, hookFailed>>

\* acquire() resolved: acquireForUow registers the release as an onSettled hook,
\* execute enters the `try` whose `finally` releases.
Register(u) ==
  /\ pc[u] = "granted"
  /\ owed' = [owed EXCEPT ![u] = Append(@, want[u])]
  /\ want' = [want EXCEPT ![u] = NoKey]
  /\ pc' = [pc EXCEPT ![u] = "body"]
  /\ UNCHANGED <<locked, queue, acquires, committed, hookFailed>>

\* The unit of work commits, or fails and rolls back.
Settle(u, ok) ==
  /\ pc[u] = "body"
  /\ u \notin Uows => acquires[u] = 1
  /\ pc' = [pc EXCEPT ![u] = "settling"]
  /\ committed' = [committed EXCEPT ![u] = ok]
  /\ UNCHANGED <<locked, queue, want, owed, acquires, hookFailed>>

\* Mutant: the lock is freed even when it is handed to a waiter.
ReleaseLockAlwaysFrees(k) ==
  /\ locked' = [locked EXCEPT ![k] = FALSE]
  /\ \/ /\ queue[k] # << >>
        /\ pc' = [pc EXCEPT ![Head(queue[k])] = "granted"]
        /\ queue' = [queue EXCEPT ![k] = Tail(@)]
     \/ queue[k] = << >> /\ UNCHANGED <<queue, pc>>

\* Mutant: the last waiter is served first.
ReleaseLockLifo(k) ==
  \/ /\ locked[k] /\ queue[k] # << >>
     /\ pc' = [pc EXCEPT ![Last(queue[k])] = "granted"]
     /\ queue' = [queue EXCEPT ![k] = Front(@)]
     /\ UNCHANGED locked
  \/ /\ queue[k] = << >>
     /\ locked' = [locked EXCEPT ![k] = FALSE]
     /\ UNCHANGED <<queue, pc>>

\* locker.release(k): the first waiter gets the lock, or the key is freed.
\* Releasing a key that is not locked does nothing.
ReleaseLock(k) ==
  \/ /\ locked[k] /\ queue[k] # << >>
     /\ pc' = [pc EXCEPT ![Head(queue[k])] = "granted"]
     /\ queue' = [queue EXCEPT ![k] = Tail(@)]
     /\ UNCHANGED locked
  \/ /\ locked[k] /\ queue[k] = << >>
     /\ locked' = [locked EXCEPT ![k] = FALSE]
     /\ UNCHANGED <<queue, pc>>
  \/ /\ ~locked[k]
     /\ UNCHANGED <<locked, queue, pc>>

\* The next completion hook (or the `finally` block) of a settled unit of work.
RunHook(u) ==
  /\ pc[u] = "settling"
  /\ owed[u] # << >>
  /\ ReleaseLock(Head(owed[u]))
  /\ owed' = [owed EXCEPT ![u] = Tail(@)]
  /\ UNCHANGED <<want, acquires, committed, hookFailed>>

AfterHooks(u) == IF committed[u] THEN "publishing" ELSE "done"

\* A hook rejects: the loop over the hooks ends, runHooksOnce swallows the error.
\* The registry entry was deleted before the loop, so the rest never runs.  In
\* `execute` the rejection of the `finally` replaces the result.
HookFails(u) ==
  /\ ReleaseMayFail
  /\ pc[u] = "settling"
  /\ owed[u] # << >>
  /\ pc' = [pc EXCEPT ![u] = IF u \in Uows THEN AfterHooks(u) ELSE "done"]
  /\ hookFailed' = [hookFailed EXCEPT ![u] = TRUE]
  /\ UNCHANGED <<locked, queue, want, owed, acquires, committed>>

\* Mutant: publishing starts before the hooks have released the locks.
HooksDoneTooEarly(u) ==
  /\ pc[u] = "settling"
  /\ pc' = [pc EXCEPT ![u] = AfterHooks(u)]
  /\ UNCHANGED <<locked, queue, want, owed, acquires, committed, hookFailed>>

\* All hooks ran: publish what was committed, or rethrow the failure.
HooksDone(u) ==
  /\ pc[u] = "settling"
  /\ owed[u] = << >>
  /\ pc' = [pc EXCEPT ![u] = AfterHooks(u)]
  /\ UNCHANGED <<locked, queue, want, owed, acquires, committed, hookFailed>>

\* The publish loop ends when every handler it awaits has.
Published(u) ==
  /\ pc[u] = "publishing"
  /\ \A v \in Reacting(u) : pc[v] = "idle"
  /\ pc' = [pc EXCEPT ![u] = "done"]
  /\ UNCHANGED <<locked, queue, want, owed, acquires, committed, hookFailed>>

ClientStep(u) ==
  \/ \E k \in Keys : AcquireFree(u, k) \/ AcquireHeld(u, k)
  \/ LockTimeout(u) \/ Register(u)
  \/ \E ok \in BOOLEAN : Settle(u, ok)
  \/ RunHook(u) \/ HookFails(u) \/ HooksDone(u) \/ Published(u)

LockingNext == \E u \in Clients : Start(u) \/ ClientStep(u)

LockingSpec == LockingInit /\ [][LockingNext]_vars
-----------------------------------------------------------------------------
(* Fairness: the event loop runs every ready continuation and fires every  *)
(* timer, and a unit of work's function terminates.  Nothing obliges a     *)
(* caller to start.                                                        *)

LockingFairness == \A u \in Clients : WF_vars(ClientStep(u))

FairLockingSpec == LockingSpec /\ LockingFairness

-----------------------------------------------------------------------------
(* Properties.                                                             *)

\* Two clients never hold the lock of one aggregate at the same time, whatever
\* the order of acquires, timeouts, hand-overs, releases and failed releases
\* (AggregateLocker: "exclusive locks per aggregate instance").
MutualExclusion ==
  \A k \in Keys : \A u, v \in Clients : Holds(u, k) /\ Holds(v, k) => u = v

\* A locked key has a holder that will still run its release, unless a release
\* of that very holder rejected: no order of timeouts, hand-overs and releases
\* loses a lock.  Conversely a held key is locked, and nobody waits for a free
\* one, so that every waiter is behind a holder.
NoOrphanLock ==
  \A k \in Keys :
    /\ locked[k] => \E u \in Clients : Holds(u, k) /\ (PastHooks(u) => hookFailed[u])
    /\ \A u \in Clients : Holds(u, k) => locked[k]
    /\ queue[k] # << >> => locked[k]

\* While clients wait for a key, only the longest waiting one is granted it: a
\* newcomer's acquire() never overtakes the queue (the locker's FIFO promise).
NoOvertaking ==
  [][\A k \in Keys, u \in Clients :
       (queue[k] # << >> /\ ~Holds(u, k) /\ Holds(u, k)') => u = Head(queue[k])]_vars

\* The locker and its users implement one exclusive lock per key that moves
\* only by a grant of a free key, a release by the holder or its hand-over.
Mutex == INSTANCE KeyedMutex WITH
  holders <- [k \in Keys |-> {u \in Clients : Holds(u, k)}]

MutexRefined == Mutex!MutexSpec

\* Every command and unit of work that starts returns: no lock is lost, no
\* client waits for a lock whose holder waits for it, and a handler that reacts
\* to a unit of work's events finds that unit of work's locks released.
EveryClientFinishes ==
  \A u \in Clients : pc[u] \notin {"idle", "done"} ~> pc[u] = "done"
=============================================================================
