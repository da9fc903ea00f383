----------------------- MODULE LockingAndRelayProofs ------------------------
(***************************************************************************)
(* Proofs about AggregateLocking, for any sets of clients and keys, and    *)
(* about OutboxRelay, for any sets of nodes, commands and entries: the two *)
(* components that serialize work, per aggregate and per node.  They share *)
(* nothing else.                                                           *)
(*                                                                         *)
(* Mutual exclusion is not inductive: a release hands the lock to the head *)
(* of the queue and pops the head of the hooks, so the induction needs to  *)
(* know that a queued client is waiting for that very key (WaitersWait),   *)
(* that it is queued once (QueuedOnce), that a key is owed at most one     *)
(* release (OwedOnce), and that `locked` is exact (LockedIsHeld).          *)
(*                                                                         *)
(* The relay's calls on a node exclude each other because a working call   *)
(* has set the flag (FlightInv).  That no marked entry was lost follows    *)
(* the two ways to a mark: the entry a relay is about to mark, and the     *)
(* events a command has taken off its list, were delivered.                *)
(***************************************************************************)
EXTENDS AggregateLocking, OutboxRelay, SequenceTheorems, TLAPS

WaitersWait ==
  \A k \in Keys : \A i \in 1..Len(queue[k]) :
    pc[queue[k][i]] = "waiting" /\ want[queue[k][i]] = k

LockedIsHeld ==
  \A k \in Keys :
    /\ locked[k] <=> \E u \in Clients : Holds(u, k)
    /\ queue[k] # << >> => locked[k]

QueuedOnce ==
  \A k \in Keys : \A i, j \in 1..Len(queue[k]) :
    queue[k][i] = queue[k][j] => i = j

OwedOnce ==
  \A u \in Clients : \A i, j \in 1..Len(owed[u]) :
    owed[u][i] = owed[u][j] => i = j

GrantIsNew ==
  \A u \in Clients : pc[u] = "granted" =>
    /\ want[u] \in Keys
    /\ \A i \in 1..Len(owed[u]) : owed[u][i] # want[u]

WaitingForKey == \A u \in Clients : pc[u] = "waiting" => want[u] \in Keys

LockingInv ==
  /\ LockingTypeOK
  /\ WaitersWait
  /\ QueuedOnce
  /\ OwedOnce
  /\ GrantIsNew
  /\ WaitingForKey
  /\ MutualExclusion
  /\ LockedIsHeld

-----------------------------------------------------------------------------

\* What splicing a waiter out of a queue leaves (SequencesExt!RemoveAt).
LEMMA RemoveAtProperties ==
  ASSUME NEW S, NEW s \in Seq(S), NEW i \in 1..Len(s)
  PROVE  /\ RemoveAt(s, i) \in Seq(S)
         /\ Len(RemoveAt(s, i)) = Len(s) - 1
         /\ \A j \in 1..Len(s) - 1 :
              RemoveAt(s, i)[j] = IF j < i THEN s[j] ELSE s[j + 1]
<1> DEFINE l == SubSeq(s, 1, i - 1)
           r == SubSeq(s, i + 1, Len(s))
<1>1. /\ l \in Seq(S)
      /\ Len(l) = i - 1
      /\ \A j \in 1..i - 1 : l[j] = s[j]
  OBVIOUS
<1>2. /\ r \in Seq(S)
      /\ Len(r) = Len(s) - i
      /\ \A j \in 1..Len(s) - i : r[j] = s[i + j]
  OBVIOUS
<1>3. RemoveAt(s, i) = l \o r
  BY DEF RemoveAt
<1> HIDE DEF l, r
<1>4. /\ l \o r \in Seq(S)
      /\ Len(l \o r) = Len(l) + Len(r)
      /\ \A j \in 1..Len(l) + Len(r) :
           (l \o r)[j] = IF j <= Len(l) THEN l[j] ELSE r[j - Len(l)]
  BY <1>1, <1>2, ConcatProperties
<1>5. Len(l) + Len(r) = Len(s) - 1
  BY <1>1, <1>2
<1>6. ASSUME NEW j \in 1..Len(s) - 1
      PROVE  (l \o r)[j] = IF j < i THEN s[j] ELSE s[j + 1]
  <2>1. CASE j < i
    BY <2>1, <1>1, <1>4, <1>5
  <2>2. CASE ~(j < i)
    <3>1. j - (i - 1) \in 1..Len(s) - i /\ i + (j - (i - 1)) = j + 1
      BY <2>2
    <3>2. (l \o r)[j] = r[j - (i - 1)]
      BY <2>2, <1>1, <1>4, <1>5
    <3> QED
      BY <3>1, <3>2, <2>2, <1>2
  <2> QED
    BY <2>1, <2>2
<1> QED
  BY <1>3, <1>4, <1>5, <1>6

\* The invariant holds initially: no key is locked, no one waits, no release is owed.
LEMMA LockingInitInv == LockingInit => LockingInv
<1> SUFFICES ASSUME LockingInit PROVE LockingInv
  OBVIOUS
<1>1. LockingTypeOK
  BY LockingAssumption DEF LockingInit, LockingTypeOK, PC
<1> QED
  BY <1>1 DEF LockingInit, LockingInv, WaitersWait, QueuedOnce, OwedOnce,
     GrantIsNew, WaitingForKey, MutualExclusion, LockedIsHeld, Holds

\* Type correctness is preserved by every step; the reachable states in which a
\* hook or a waiter is looked up are described by the other conjuncts.
LEMMA LockingNextType == LockingInv /\ [LockingNext]_vars => LockingTypeOK'
<1> SUFFICES ASSUME LockingInv, [LockingNext]_vars
             PROVE  LockingTypeOK'
  OBVIOUS
<1> USE LockingAssumption DEF LockingInv, LockingTypeOK, PC
<1>0. CASE UNCHANGED vars
  BY <1>0 DEF vars
<1>1. ASSUME NEW u \in Clients, Start(u)
      PROVE  LockingTypeOK'
  BY <1>1 DEF Start
<1>2. ASSUME NEW u \in Clients, NEW k \in Keys, AcquireFree(u, k) \/ AcquireHeld(u, k)
      PROVE  LockingTypeOK'
  <2>1. acquires[u] + 1 \in 0..MaxAcquires + 1
    BY <1>2 DEF AcquireFree, AcquireHeld, MayIssue
  <2>2. acquires' = [acquires EXCEPT ![u] = acquires[u] + 1]
    BY <1>2 DEF AcquireFree, AcquireHeld
  <2>3. acquires' \in [Clients -> 0..MaxAcquires + 1]
    BY <2>1, <2>2
  <2>4. CASE AcquireFree(u, k)
    BY <2>3, <2>4 DEF AcquireFree
  <2>5. CASE AcquireHeld(u, k)
    BY <2>3, <2>5 DEF AcquireHeld
  <2> QED
    BY <1>2, <2>4, <2>5
<1>4. ASSUME NEW u \in Clients, LockTimeout(u)
      PROVE  LockingTypeOK'
  <2>1. PICK i \in 1..Len(queue[want[u]]) :
          queue' = [queue EXCEPT ![want[u]] = RemoveAt(@, i)]
    BY <1>4 DEF LockTimeout
  <2>2. want[u] \in Keys
    BY <1>4 DEF LockTimeout, WaitingForKey
  <2>3. RemoveAt(queue[want[u]], i) \in Seq(Clients)
    BY <2>2, RemoveAtProperties
  <2>4. queue' \in [Keys -> Seq(Clients)]
    BY <2>1, <2>2, <2>3
  <2>5. /\ UNCHANGED <<locked, owed, acquires, committed, hookFailed>>
        /\ want' = [want EXCEPT ![u] = NoKey]
        /\ \E next \in {"body", "settling"} : pc' = [pc EXCEPT ![u] = next]
    BY <1>4 DEF LockTimeout
  <2>6. pc' \in [Clients -> PC]
    BY <2>5
  <2> QED
    BY <2>4, <2>5, <2>6
<1>5. ASSUME NEW u \in Clients, Register(u)
      PROVE  LockingTypeOK'
  BY <1>5 DEF Register, GrantIsNew
<1>6. ASSUME NEW u \in Clients, NEW ok \in BOOLEAN, Settle(u, ok)
      PROVE  LockingTypeOK'
  BY <1>6 DEF Settle
<1>7. ASSUME NEW u \in Clients, RunHook(u)
      PROVE  LockingTypeOK'
  <2>1. owed[u] \in Seq(Keys) /\ owed[u] # << >>
    BY <1>7 DEF RunHook
  <2>2. PICK k \in Keys : k = Head(owed[u])
    BY <2>1
  <2>3. owed' \in [Clients -> Seq(Keys)]
    BY <1>7, <2>1 DEF RunHook
  <2>4. /\ locked' \in [Keys -> BOOLEAN]
        /\ queue' \in [Keys -> Seq(Clients)]
        /\ pc' \in [Clients -> PC]
    <3>1. queue[k] \in Seq(Clients)
      BY <2>2
    <3>2. CASE queue[k] # << >>
      <4>1. Head(queue[k]) \in Clients /\ Tail(queue[k]) \in Seq(Clients)
        BY <3>1, <3>2
      <4>2. /\ locked' = locked \/ locked' = [locked EXCEPT ![k] = FALSE]
            /\ queue' = queue \/ queue' = [queue EXCEPT ![k] = Tail(queue[k])]
            /\ pc' = pc \/ pc' = [pc EXCEPT ![Head(queue[k])] = "granted"]
        BY <1>7, <2>2, <3>2 DEF RunHook, ReleaseLock
      <4>3. locked' \in [Keys -> BOOLEAN]
        BY <4>2
      <4>4. queue' \in [Keys -> Seq(Clients)]
        BY <4>1, <4>2
      <4>5. pc' \in [Clients -> PC]
        BY <4>1, <4>2
      <4> QED
        BY <4>3, <4>4, <4>5
    <3>3. CASE queue[k] = << >>
      BY <1>7, <2>2, <3>3 DEF RunHook, ReleaseLock
    <3> QED
      BY <3>2, <3>3
  <2> QED
    BY <1>7, <2>3, <2>4 DEF RunHook
<1>8. ASSUME NEW u \in Clients, HookFails(u) \/ HooksDone(u) \/ Published(u)
      PROVE  LockingTypeOK'
  BY <1>8 DEF HookFails, HooksDone, Published, AfterHooks
<1> QED
  BY <1>0, <1>1, <1>2, <1>4, <1>5, <1>6, <1>7, <1>8 DEF LockingNext, ClientStep

\* A step that moves no client in or out of "granted" and "waiting" and leaves
\* the locker and the owed releases alone preserves the invariant.
LEMMA QuietStep ==
  ASSUME LockingInv, LockingTypeOK',
         UNCHANGED <<locked, queue, want, owed>>,
         \A v \in Clients : pc'[v] = "granted" <=> pc[v] = "granted",
         \A v \in Clients : pc'[v] = "waiting" <=> pc[v] = "waiting"
  PROVE  LockingInv'
<1> USE DEF LockingInv
<1>1. \A v \in Clients, j \in Keys : Holds(v, j)' <=> Holds(v, j)
  BY DEF Holds
<1>2. WaitersWait'
  <2> SUFFICES ASSUME NEW k \in Keys, NEW i \in 1..Len(queue[k])
               PROVE  pc'[queue[k][i]] = "waiting" /\ want[queue[k][i]] = k
    BY DEF WaitersWait
  <2>1. queue[k][i] \in Clients
    BY DEF LockingTypeOK
  <2> QED
    BY <2>1 DEF WaitersWait
<1>3. QueuedOnce' /\ OwedOnce'
  BY DEF QueuedOnce, OwedOnce
<1>4. GrantIsNew' /\ WaitingForKey'
  BY DEF GrantIsNew, WaitingForKey
<1>5. MutualExclusion'
  BY <1>1 DEF MutualExclusion
<1>6. LockedIsHeld'
  BY <1>1 DEF LockedIsHeld
<1> QED
  BY <1>2, <1>3, <1>4, <1>5, <1>6

\* acquire() of a free key: the caller becomes its one holder.
LEMMA AcquireFreeInv ==
  ASSUME LockingInv, LockingTypeOK', NEW u \in Clients, NEW k \in Keys, AcquireFree(u, k)
  PROVE  LockingInv'
<1> USE DEF LockingInv
<1>1. \A v \in Clients, j \in Keys :
        Holds(v, j)' <=> Holds(v, j) \/ (v = u /\ j = k)
  BY DEF Holds, AcquireFree, LockingTypeOK
<1>2. \A v \in Clients : ~Holds(v, k)
  BY DEF AcquireFree, LockedIsHeld
<1>3. queue[k] = << >>
  BY DEF AcquireFree, LockedIsHeld
<1>4. WaitersWait' /\ QueuedOnce'
  BY DEF WaitersWait, QueuedOnce, AcquireFree, LockingTypeOK
<1>5. OwedOnce' /\ WaitingForKey'
  BY DEF OwedOnce, WaitingForKey, AcquireFree, LockingTypeOK
<1>6. GrantIsNew'
  <2>1. \A i \in 1..Len(owed[u]) : owed[u][i] # k
    BY <1>2 DEF Holds
  <2> QED
    BY <2>1 DEF GrantIsNew, AcquireFree, LockingTypeOK
<1>7. MutualExclusion'
  BY <1>1, <1>2 DEF MutualExclusion
<1>8. LockedIsHeld'
  <2>1. locked' = [locked EXCEPT ![k] = TRUE] /\ queue' = queue
    BY DEF AcquireFree
  <2> QED
    BY <1>1, <2>1 DEF LockedIsHeld, LockingTypeOK
<1> QED
  BY <1>4, <1>5, <1>6, <1>7, <1>8

\* acquire() of a held key: the caller is queued behind the holder, once.
LEMMA AcquireHeldInv ==
  ASSUME LockingInv, LockingTypeOK', NEW u \in Clients, NEW k \in Keys, AcquireHeld(u, k)
  PROVE  LockingInv'
<1> USE DEF LockingInv
<1>1. \A v \in Clients, j \in Keys : Holds(v, j)' <=> Holds(v, j)
  BY DEF Holds, AcquireHeld, LockingTypeOK
<1>2. /\ pc[u] = "body"
      /\ pc' = [pc EXCEPT ![u] = "waiting"]
      /\ want' = [want EXCEPT ![u] = k]
      /\ queue' = [queue EXCEPT ![k] = Append(@, u)]
      /\ locked[k]
      /\ UNCHANGED <<locked, owed>>
  BY DEF AcquireHeld
<1>3. \A j \in Keys : \A i \in 1..Len(queue[j]) :
        queue[j][i] \in Clients /\ queue[j][i] # u
  BY <1>2 DEF WaitersWait, LockingTypeOK
<1>4. /\ queue'[k] = Append(queue[k], u)
      /\ \A j \in Keys : j # k => queue'[j] = queue[j]
  BY <1>2 DEF LockingTypeOK
<1>5. /\ Len(queue'[k]) = Len(queue[k]) + 1
      /\ \A i \in 1..Len(queue[k]) : queue'[k][i] = queue[k][i]
      /\ queue'[k][Len(queue[k]) + 1] = u
  BY <1>4 DEF LockingTypeOK
<1>6. Len(queue[k]) \in Nat
  BY DEF LockingTypeOK
<1>7. WaitersWait'
  <2> SUFFICES ASSUME NEW j \in Keys, NEW i \in 1..Len(queue'[j])
               PROVE  pc'[queue'[j][i]] = "waiting" /\ want'[queue'[j][i]] = j
    BY DEF WaitersWait
  <2>1. CASE j = k /\ i = Len(queue[k]) + 1
    BY <2>1, <1>2, <1>5 DEF LockingTypeOK
  <2>2. CASE ~(j = k /\ i = Len(queue[k]) + 1)
    <3>1. i \in 1..Len(queue[j]) /\ queue'[j][i] = queue[j][i]
      BY <2>2, <1>4, <1>5, <1>6
    <3> QED
      <4>1. queue[j][i] \in Clients /\ queue[j][i] # u
        BY <3>1, <1>3
      <4>2. pc'[queue[j][i]] = pc[queue[j][i]] /\ want'[queue[j][i]] = want[queue[j][i]]
        BY <4>1, <1>2 DEF LockingTypeOK
      <4> QED
        BY <3>1, <4>2 DEF WaitersWait
  <2> QED
    BY <2>1, <2>2
<1>8. QueuedOnce'
  <2> SUFFICES ASSUME NEW j \in Keys, NEW i \in 1..Len(queue'[j]), NEW m \in 1..Len(queue'[j]),
                      queue'[j][i] = queue'[j][m]
               PROVE  i = m
    BY DEF QueuedOnce
  <2>1. CASE j = k
    <3>1. CASE i \in 1..Len(queue[k]) /\ m \in 1..Len(queue[k])
      BY <2>1, <3>1, <1>5 DEF QueuedOnce
    <3>2. CASE i = Len(queue[k]) + 1 /\ m \in 1..Len(queue[k])
      BY <2>1, <3>2, <1>3, <1>5
    <3>3. CASE m = Len(queue[k]) + 1 /\ i \in 1..Len(queue[k])
      BY <2>1, <3>3, <1>3, <1>5
    <3> QED
      BY <2>1, <3>1, <3>2, <3>3, <1>5, <1>6
  <2>2. CASE j # k
    BY <2>2, <1>4 DEF QueuedOnce
  <2> QED
    BY <2>1, <2>2
<1>9. OwedOnce' /\ WaitingForKey' /\ GrantIsNew'
  BY <1>2 DEF OwedOnce, WaitingForKey, GrantIsNew, LockingTypeOK
<1>10. MutualExclusion'
  BY <1>1 DEF MutualExclusion
<1>11. LockedIsHeld'
  BY <1>1, <1>2, <1>4 DEF LockedIsHeld
<1> QED
  BY <1>7, <1>8, <1>9, <1>10, <1>11

\* The timeout of a waiter: it leaves the queue, nothing else changes hands.
LEMMA LockTimeoutInv ==
  ASSUME LockingInv, LockingTypeOK', NEW u \in Clients, LockTimeout(u)
  PROVE  LockingInv'
<1> USE DEF LockingInv
<1> DEFINE k == want[u]
<1>1. k \in Keys /\ pc[u] = "waiting"
  BY DEF LockTimeout, WaitingForKey
<1>2. PICK x \in 1..Len(queue[k]) :
        queue[k][x] = u /\ queue' = [queue EXCEPT ![k] = RemoveAt(@, x)]
  BY DEF LockTimeout
<1>3. /\ pc' \in [Clients -> PC]
      /\ pc'[u] \in {"body", "settling"}
      /\ \A v \in Clients : v # u => pc'[v] = pc[v]
      /\ \A v \in Clients : v # u => want'[v] = want[v]
      /\ UNCHANGED <<locked, owed>>
  BY DEF LockTimeout, LockingTypeOK
<1> HIDE DEF k
<1>4. /\ queue'[k] = RemoveAt(queue[k], x)
      /\ \A j \in Keys : j # k => queue'[j] = queue[j]
  BY <1>1, <1>2 DEF LockingTypeOK
<1>5. /\ Len(queue'[k]) = Len(queue[k]) - 1
      /\ \A i \in 1..Len(queue[k]) - 1 :
           queue'[k][i] = IF i < x THEN queue[k][i] ELSE queue[k][i + 1]
  <2>1. queue[k] \in Seq(Clients)
    BY <1>1 DEF LockingTypeOK
  <2> QED
    BY <2>1, <1>4, RemoveAtProperties
<1>6. Len(queue[k]) \in Nat
  BY <1>1 DEF LockingTypeOK
\* Every client still queued was queued before, and is not u.
<1>7. ASSUME NEW j \in Keys, NEW i \in 1..Len(queue'[j])
      PROVE  \E m \in 1..Len(queue[j]) : queue'[j][i] = queue[j][m] /\ queue[j][m] # u
  <2>1. CASE j = k
    <3> DEFINE m == IF i < x THEN i ELSE i + 1
    <3>1. m \in 1..Len(queue[k]) /\ m # x /\ queue'[k][i] = queue[k][m]
      BY <2>1, <1>5, <1>6
    <3> QED
      BY <2>1, <3>1, <1>1, <1>2 DEF QueuedOnce
  <2>2. CASE j # k
    <3>1. i \in 1..Len(queue[j]) /\ queue'[j][i] = queue[j][i]
      BY <2>2, <1>4
    <3>2. queue[j][i] # u
      BY <2>2, <3>1 DEF WaitersWait, k
    <3> QED
      BY <3>1, <3>2
  <2> QED
    BY <2>1, <2>2
<1>8. WaitersWait'
  <2> SUFFICES ASSUME NEW j \in Keys, NEW i \in 1..Len(queue'[j])
               PROVE  pc'[queue'[j][i]] = "waiting" /\ want'[queue'[j][i]] = j
    BY DEF WaitersWait
  <2>1. PICK m \in 1..Len(queue[j]) : queue'[j][i] = queue[j][m] /\ queue[j][m] # u
    BY <1>7
  <2>2. queue[j][m] \in Clients
    BY DEF LockingTypeOK
  <2> QED
    BY <2>1, <2>2, <1>3 DEF WaitersWait
<1>9. QueuedOnce'
  <2> SUFFICES ASSUME NEW j \in Keys, NEW i \in 1..Len(queue'[j]), NEW m \in 1..Len(queue'[j]),
                      queue'[j][i] = queue'[j][m]
               PROVE  i = m
    BY DEF QueuedOnce
  <2>1. CASE j = k
    <3> DEFINE a == IF i < x THEN i ELSE i + 1
               b == IF m < x THEN m ELSE m + 1
    <3>1. /\ a \in 1..Len(queue[k]) /\ b \in 1..Len(queue[k])
          /\ queue'[k][i] = queue[k][a] /\ queue'[k][m] = queue[k][b]
      BY <2>1, <1>5, <1>6
    <3>2. a = b
      BY <2>1, <3>1, <1>1 DEF QueuedOnce
    <3> QED
      BY <3>2
  <2>2. CASE j # k
    BY <2>2, <1>4 DEF QueuedOnce
  <2> QED
    BY <2>1, <2>2
<1>10. OwedOnce'
  BY <1>3 DEF OwedOnce
<1>11. WaitingForKey' /\ GrantIsNew'
  BY <1>3 DEF WaitingForKey, GrantIsNew
<1>12. \A v \in Clients, j \in Keys : Holds(v, j)' <=> Holds(v, j)
  BY <1>1, <1>3 DEF Holds
<1>13. MutualExclusion'
  BY <1>12 DEF MutualExclusion
<1>14. LockedIsHeld'
  <2>1. \A j \in Keys : queue'[j] # << >> => queue[j] # << >>
    BY <1>2, <1>4, <1>6
  <2> QED
    BY <1>3, <1>12, <2>1 DEF LockedIsHeld
<1> QED
  BY <1>8, <1>9, <1>10, <1>11, <1>13, <1>14

\* Registering the release moves no lock: what was granted is now owed.
LEMMA RegisterHolds ==
  ASSUME LockingInv, NEW u \in Clients, Register(u)
  PROVE  \A v \in Clients, j \in Keys : Holds(v, j)' <=> Holds(v, j)
<1> USE DEF LockingInv
<1> DEFINE k == want[u]
<1>1. /\ pc[u] = "granted" /\ k \in Keys
      /\ \A i \in 1..Len(owed[u]) : owed[u][i] # k
  BY DEF Register, GrantIsNew
<1>2. /\ pc' = [pc EXCEPT ![u] = "body"]
      /\ want' = [want EXCEPT ![u] = NoKey]
      /\ owed' = [owed EXCEPT ![u] = Append(@, k)]
      /\ UNCHANGED <<locked, queue>>
  BY DEF Register
<1> HIDE DEF k
<1>3. /\ Len(owed[u]) \in Nat
      /\ Len(owed'[u]) = Len(owed[u]) + 1
      /\ \A i \in 1..Len(owed[u]) : owed'[u][i] = owed[u][i]
      /\ owed'[u][Len(owed[u]) + 1] = k
      /\ \A v \in Clients : v # u => owed'[v] = owed[v]
  BY <1>1, <1>2 DEF LockingTypeOK
<1> SUFFICES ASSUME NEW v \in Clients, NEW j \in Keys
             PROVE  Holds(v, j)' <=> Holds(v, j)
  OBVIOUS
<1>4. CASE v = u
  <2>1. Holds(u, j) <=> (k = j \/ \E i \in 1..Len(owed[u]) : owed[u][i] = j)
    BY <1>1 DEF Holds, k
  <2>2. Holds(u, j)' <=> \E i \in 1..Len(owed'[u]) : owed'[u][i] = j
    BY <1>2 DEF Holds, LockingTypeOK
  <2>3. (\E i \in 1..Len(owed'[u]) : owed'[u][i] = j)
          <=> (k = j \/ \E i \in 1..Len(owed[u]) : owed[u][i] = j)
    BY <1>3
  <2> QED
    BY <1>4, <2>1, <2>2, <2>3
<1>5. CASE v # u
  BY <1>5, <1>2, <1>3 DEF Holds, LockingTypeOK
<1> QED
  BY <1>4, <1>5

\* acquireForUow(): the holder hands its release over to the unit of work.
LEMMA RegisterInv ==
  ASSUME LockingInv, LockingTypeOK', NEW u \in Clients, Register(u)
  PROVE  LockingInv'
<1> USE DEF LockingInv
<1> DEFINE k == want[u]
<1>1. /\ pc[u] = "granted" /\ k \in Keys
      /\ \A i \in 1..Len(owed[u]) : owed[u][i] # k
  BY DEF Register, GrantIsNew
<1>2. /\ pc' = [pc EXCEPT ![u] = "body"]
      /\ want' = [want EXCEPT ![u] = NoKey]
      /\ owed' = [owed EXCEPT ![u] = Append(@, k)]
      /\ UNCHANGED <<locked, queue>>
  BY DEF Register
<1> HIDE DEF k
<1>3. /\ Len(owed[u]) \in Nat
      /\ Len(owed'[u]) = Len(owed[u]) + 1
      /\ \A i \in 1..Len(owed[u]) : owed'[u][i] = owed[u][i]
      /\ owed'[u][Len(owed[u]) + 1] = k
      /\ \A v \in Clients : v # u => owed'[v] = owed[v]
  BY <1>1, <1>2 DEF LockingTypeOK
<1>4. OwedOnce'
  <2> SUFFICES ASSUME NEW v \in Clients, NEW i \in 1..Len(owed'[v]), NEW m \in 1..Len(owed'[v]),
                      owed'[v][i] = owed'[v][m]
               PROVE  i = m
    BY DEF OwedOnce
  <2>1. CASE v = u
    <3>1. CASE i \in 1..Len(owed[u]) /\ m \in 1..Len(owed[u])
      BY <2>1, <3>1, <1>3 DEF OwedOnce
    <3>2. CASE i = Len(owed[u]) + 1 /\ m \in 1..Len(owed[u])
      BY <2>1, <3>2, <1>1, <1>3
    <3>3. CASE m = Len(owed[u]) + 1 /\ i \in 1..Len(owed[u])
      BY <2>1, <3>3, <1>1, <1>3
    <3> QED
      BY <2>1, <3>1, <3>2, <3>3, <1>3
  <2>2. CASE v # u
    BY <2>2, <1>3 DEF OwedOnce
  <2> QED
    BY <2>1, <2>2
<1>5. WaitersWait' /\ QueuedOnce'
  <2>1. QueuedOnce'
    BY <1>2 DEF QueuedOnce
  <2>2. ASSUME NEW j \in Keys, NEW i \in 1..Len(queue[j])
        PROVE  pc'[queue[j][i]] = "waiting" /\ want'[queue[j][i]] = j
    <3>1. queue[j][i] \in Clients /\ pc[queue[j][i]] = "waiting" /\ want[queue[j][i]] = j
      BY DEF WaitersWait, LockingTypeOK
    <3> QED
      BY <3>1, <1>1, <1>2 DEF LockingTypeOK
  <2> QED
    BY <2>1, <2>2, <1>2 DEF WaitersWait
<1>6. WaitingForKey' /\ GrantIsNew'
  BY <1>2, <1>3 DEF WaitingForKey, GrantIsNew, LockingTypeOK
<1>7. \A v \in Clients, j \in Keys : Holds(v, j)' <=> Holds(v, j)
  BY RegisterHolds
<1>8. MutualExclusion'
  BY <1>7 DEF MutualExclusion
<1>9. LockedIsHeld'
  BY <1>2, <1>7 DEF LockedIsHeld
<1> QED
  BY <1>4, <1>5, <1>6, <1>8, <1>9

\* What a hook's release() does to the locks: it frees the hook's key, which only
\* its own client held, or passes it to the first waiter; no other key moves.
LEMMA RunHookHolds ==
  ASSUME LockingInv, NEW u \in Clients, RunHook(u), NEW k, k = Head(owed[u])
  PROVE  /\ k \in Keys
         /\ Holds(u, k)
         /\ \A v \in Clients : Holds(v, k) => v = u
         /\ queue[k] = << >> =>
              \A v \in Clients, j \in Keys :
                Holds(v, j)' <=> Holds(v, j) /\ ~(v = u /\ j = k)
         /\ queue[k] # << >> =>
              /\ Head(queue[k]) \in Clients
              /\ \A v \in Clients, j \in Keys :
                   Holds(v, j)' <=> \/ Holds(v, j) /\ ~(v = u /\ j = k)
                                    \/ v = Head(queue[k]) /\ j = k
<1> USE DEF LockingInv
<1> DEFINE w == Head(queue[k])
<1>1. /\ pc[u] = "settling"
      /\ owed[u] \in Seq(Keys) /\ owed[u] # << >>
      /\ owed' = [owed EXCEPT ![u] = Tail(@)]
      /\ want' = want
  BY DEF RunHook, LockingTypeOK
<1>2. /\ k \in Keys /\ k = owed[u][1] /\ Len(owed[u]) \in Nat /\ Len(owed[u]) >= 1
      /\ owed'[u] = Tail(owed[u])
      /\ Len(owed'[u]) = Len(owed[u]) - 1
      /\ \A i \in 1..Len(owed[u]) - 1 : owed'[u][i] = owed[u][i + 1]
      /\ \A v \in Clients : v # u => owed'[v] = owed[v]
  BY <1>1 DEF LockingTypeOK
<1>3. Holds(u, k)
  BY <1>2 DEF Holds
<1>4. locked[k]
  BY <1>2, <1>3 DEF LockedIsHeld
<1>5. \A v \in Clients : Holds(v, k) => v = u
  BY <1>2, <1>3 DEF MutualExclusion
<1>6. \/ /\ queue[k] # << >>
         /\ pc' = [pc EXCEPT ![w] = "granted"]
         /\ queue' = [queue EXCEPT ![k] = Tail(@)]
         /\ locked' = locked
      \/ /\ queue[k] = << >>
         /\ locked' = [locked EXCEPT ![k] = FALSE]
         /\ UNCHANGED <<queue, pc>>
  BY <1>4 DEF RunHook, ReleaseLock
<1> HIDE DEF w
\* The hook popped is the only one for k: u's other releases are untouched.
<1>7. \A v \in Clients, j \in Keys :
        (\E i \in 1..Len(owed'[v]) : owed'[v][i] = j)
          <=> (\E i \in 1..Len(owed[v]) : owed[v][i] = j) /\ ~(v = u /\ j = k)
  <2> SUFFICES ASSUME NEW v \in Clients, NEW j \in Keys
               PROVE  (\E i \in 1..Len(owed'[v]) : owed'[v][i] = j)
                        <=> (\E i \in 1..Len(owed[v]) : owed[v][i] = j) /\ ~(v = u /\ j = k)
    OBVIOUS
  <2>1. CASE v # u
    BY <2>1, <1>2
  <2>2. CASE v = u
    <3>1. ASSUME NEW i \in 1..Len(owed'[u]), owed'[u][i] = j
          PROVE  (\E m \in 1..Len(owed[u]) : owed[u][m] = j) /\ j # k
      <4>1. i + 1 \in 1..Len(owed[u]) /\ owed[u][i + 1] = j /\ i + 1 # 1
        BY <3>1, <1>2
      <4>2. j # k
        BY <4>1, <1>2 DEF OwedOnce
      <4> QED
        BY <4>1, <4>2
    <3>2. ASSUME NEW m \in 1..Len(owed[u]), owed[u][m] = j, j # k
          PROVE  \E i \in 1..Len(owed'[u]) : owed'[u][i] = j
      <4>1. m # 1 /\ m - 1 \in 1..Len(owed'[u]) /\ owed'[u][m - 1] = j
        BY <3>2, <1>2
      <4> QED
        BY <4>1
    <3> QED
      BY <2>2, <3>1, <3>2
  <2> QED
    BY <2>1, <2>2
<1>8. CASE queue[k] = << >>
  <2>1. /\ locked' = [locked EXCEPT ![k] = FALSE]
        /\ UNCHANGED <<queue, pc>>
    BY <1>6, <1>8
  <2>2. \A v \in Clients, j \in Keys :
          Holds(v, j)' <=> Holds(v, j) /\ ~(v = u /\ j = k)
    <3> SUFFICES ASSUME NEW v \in Clients, NEW j \in Keys
                 PROVE  Holds(v, j)' <=> Holds(v, j) /\ ~(v = u /\ j = k)
      OBVIOUS
    <3>1. Holds(v, j)' <=> \/ pc[v] = "granted" /\ want[v] = j
                           \/ \E i \in 1..Len(owed'[v]) : owed'[v][i] = j
      BY <2>1, <1>1 DEF Holds
    <3>2. Holds(v, j) <=> \/ pc[v] = "granted" /\ want[v] = j
                          \/ \E i \in 1..Len(owed[v]) : owed[v][i] = j
      BY DEF Holds
    <3> QED
      BY <3>1, <3>2, <1>1, <1>7
  <2> QED
    BY <2>2, <1>2, <1>3, <1>5, <1>8
<1>9. CASE queue[k] # << >>
  <2>1. /\ pc' = [pc EXCEPT ![w] = "granted"]
        /\ queue' = [queue EXCEPT ![k] = Tail(@)]
        /\ locked' = locked
    BY <1>6, <1>9
  <2>2. /\ queue[k] \in Seq(Clients) /\ Len(queue[k]) \in Nat /\ Len(queue[k]) >= 1
        /\ w \in Clients /\ w = queue[k][1]
    <3>1. queue[k] \in Seq(Clients)
      BY <1>2 DEF LockingTypeOK
    <3> QED
      BY <3>1, <1>9 DEF w
  <2>4. pc[w] = "waiting" /\ want[w] = k
    BY <2>2, <1>2 DEF WaitersWait
  <2>5. w # u /\ ~Holds(w, k)
    BY <2>2, <2>4, <1>1, <1>5
  <2>6. /\ pc'[w] = "granted"
        /\ \A v \in Clients : v # w => pc'[v] = pc[v]
    BY <2>1, <2>2 DEF LockingTypeOK
  <2>7. \A v \in Clients, j \in Keys :
          Holds(v, j)' <=> (Holds(v, j) /\ ~(v = u /\ j = k)) \/ (v = w /\ j = k)
    <3> SUFFICES ASSUME NEW v \in Clients, NEW j \in Keys
                 PROVE  Holds(v, j)' <=>
                          (Holds(v, j) /\ ~(v = u /\ j = k)) \/ (v = w /\ j = k)
      OBVIOUS
    <3>1. Holds(v, j)' <=> \/ pc'[v] = "granted" /\ want[v] = j
                           \/ \E i \in 1..Len(owed'[v]) : owed'[v][i] = j
      BY <1>1 DEF Holds
    <3>2. Holds(v, j) <=> \/ pc[v] = "granted" /\ want[v] = j
                          \/ \E i \in 1..Len(owed[v]) : owed[v][i] = j
      BY DEF Holds
    <3>3. CASE v = w
      BY <3>1, <3>2, <3>3, <2>4, <2>5, <2>6, <1>7
    <3>4. CASE v # w
      <4>1. pc'[v] = pc[v] /\ (v = u => pc[v] # "granted")
        BY <3>4, <2>6, <1>1
      <4>2. (\E i \in 1..Len(owed'[v]) : owed'[v][i] = j)
              <=> (\E i \in 1..Len(owed[v]) : owed[v][i] = j) /\ ~(v = u /\ j = k)
        BY <1>7
      <4> QED
        BY <3>1, <3>2, <3>4, <4>1, <4>2
    <3> QED
      BY <3>3, <3>4
  <2> QED
    BY <2>2, <2>7, <1>2, <1>3, <1>5, <1>9 DEF w
<1> QED
  BY <1>2, <1>3, <1>5, <1>8, <1>9 DEF w

\* A settled hook: release() frees the key or hands it to the first waiter.
LEMMA RunHookInv ==
  ASSUME LockingInv, LockingTypeOK', NEW u \in Clients, RunHook(u)
  PROVE  LockingInv'
<1> USE DEF LockingInv
<1> DEFINE k == Head(owed[u])
           w == Head(queue[k])
<1>1. /\ pc[u] = "settling"
      /\ owed[u] \in Seq(Keys) /\ owed[u] # << >>
      /\ owed' = [owed EXCEPT ![u] = Tail(@)]
      /\ want' = want
  BY DEF RunHook, LockingTypeOK
<1>2. /\ k \in Keys /\ k = owed[u][1] /\ Len(owed[u]) \in Nat /\ Len(owed[u]) >= 1
      /\ owed'[u] = Tail(owed[u])
      /\ Len(owed'[u]) = Len(owed[u]) - 1
      /\ \A i \in 1..Len(owed[u]) - 1 : owed'[u][i] = owed[u][i + 1]
      /\ \A v \in Clients : v # u => owed'[v] = owed[v]
  BY <1>1 DEF LockingTypeOK
<1>3. /\ Holds(u, k)
      /\ \A v \in Clients : Holds(v, k) => v = u
  BY RunHookHolds
<1>4. locked[k]
  BY <1>2, <1>3 DEF LockedIsHeld
<1>6. \/ /\ queue[k] # << >>
         /\ pc' = [pc EXCEPT ![w] = "granted"]
         /\ queue' = [queue EXCEPT ![k] = Tail(@)]
         /\ locked' = locked
      \/ /\ queue[k] = << >>
         /\ locked' = [locked EXCEPT ![k] = FALSE]
         /\ UNCHANGED <<queue, pc>>
  BY <1>4 DEF RunHook, ReleaseLock
<1>5. /\ queue[k] = << >> =>
           \A v \in Clients, j \in Keys :
             Holds(v, j)' <=> Holds(v, j) /\ ~(v = u /\ j = k)
      /\ queue[k] # << >> =>
           \A v \in Clients, j \in Keys :
             Holds(v, j)' <=> (Holds(v, j) /\ ~(v = u /\ j = k)) \/ (v = w /\ j = k)
  BY RunHookHolds
<1> HIDE DEF k, w
<1>8. OwedOnce'
  <2> SUFFICES ASSUME NEW v \in Clients, NEW i \in 1..Len(owed'[v]), NEW m \in 1..Len(owed'[v]),
                      owed'[v][i] = owed'[v][m]
               PROVE  i = m
    BY DEF OwedOnce
  <2>1. CASE v = u
    BY <2>1, <1>2 DEF OwedOnce
  <2>2. CASE v # u
    BY <2>2, <1>2 DEF OwedOnce
  <2> QED
    BY <2>1, <2>2
<1>9. CASE queue[k] = << >>
  <2>1. /\ locked' = [locked EXCEPT ![k] = FALSE]
        /\ UNCHANGED <<queue, pc>>
    BY <1>6, <1>9
  <2>2. \A v \in Clients, j \in Keys :
          Holds(v, j)' <=> Holds(v, j) /\ ~(v = u /\ j = k)
    BY <1>5, <1>9
  <2>3. WaitersWait' /\ QueuedOnce' /\ WaitingForKey'
    BY <2>1, <1>1 DEF WaitersWait, QueuedOnce, WaitingForKey
  <2>4. GrantIsNew'
    BY <2>1, <1>1, <1>2 DEF GrantIsNew
  <2>5. MutualExclusion'
    BY <2>2 DEF MutualExclusion
  <2>6. LockedIsHeld'
    <3> SUFFICES ASSUME NEW j \in Keys
                 PROVE  /\ locked'[j] <=> \E v \in Clients : Holds(v, j)'
                        /\ queue[j] # << >> => locked'[j]
      BY <2>1 DEF LockedIsHeld
    <3>1. CASE j = k
      BY <3>1, <2>1, <2>2, <1>2, <1>3, <1>9 DEF LockingTypeOK
    <3>2. CASE j # k
      <4>1. locked'[j] = locked[j]
        BY <3>2, <2>1, <1>2 DEF LockingTypeOK
      <4> QED
        BY <4>1, <3>2, <2>2 DEF LockedIsHeld
    <3> QED
      BY <3>1, <3>2
  <2> QED
    BY <2>3, <2>4, <2>5, <2>6, <1>8
<1>10. CASE queue[k] # << >>
  <2>1. /\ pc' = [pc EXCEPT ![w] = "granted"]
        /\ queue' = [queue EXCEPT ![k] = Tail(@)]
        /\ locked' = locked
    BY <1>6, <1>10
  <2>2. /\ queue[k] \in Seq(Clients) /\ Len(queue[k]) \in Nat /\ Len(queue[k]) >= 1
        /\ w \in Clients /\ w = queue[k][1]
    <3>1. queue[k] \in Seq(Clients)
      BY <1>2 DEF LockingTypeOK
    <3> QED
      BY <3>1, <1>10 DEF w
  <2>3. /\ Len(queue'[k]) = Len(queue[k]) - 1
        /\ \A i \in 1..Len(queue[k]) - 1 : queue'[k][i] = queue[k][i + 1]
        /\ \A j \in Keys : j # k => queue'[j] = queue[j]
    <3>1. queue'[k] = Tail(queue[k]) /\ \A j \in Keys : j # k => queue'[j] = queue[j]
      BY <2>1, <1>2 DEF LockingTypeOK
    <3> QED
      BY <3>1, <2>2, <1>10, HeadTailProperties
  <2>4. pc[w] = "waiting" /\ want[w] = k
    BY <2>2, <1>2 DEF WaitersWait
  <2>5. w # u /\ ~Holds(w, k)
    BY <2>2, <2>4, <1>1, <1>3
  <2>6. /\ pc'[w] = "granted"
        /\ \A v \in Clients : v # w => pc'[v] = pc[v]
    BY <2>1, <2>2 DEF LockingTypeOK
  <2>7. \A v \in Clients, j \in Keys :
          Holds(v, j)' <=> (Holds(v, j) /\ ~(v = u /\ j = k)) \/ (v = w /\ j = k)
    BY <1>5, <1>10
  <2>8. ASSUME NEW j \in Keys, NEW i \in 1..Len(queue'[j])
        PROVE  \E m \in 1..Len(queue[j]) : queue'[j][i] = queue[j][m] /\ queue[j][m] # w
    <3>1. CASE j = k
      <4>1. i + 1 \in 1..Len(queue[k]) /\ i + 1 # 1 /\ queue'[k][i] = queue[k][i + 1]
        BY <3>1, <2>2, <2>3
      <4>2. 1 \in 1..Len(queue[k])
        BY <2>2
      <4>3. queue[k][i + 1] # queue[k][1]
        BY <4>1, <4>2, <1>2 DEF QueuedOnce
      <4>4. queue[k][i + 1] # w
        BY <4>3, <2>2
      <4> HIDE DEF w
      <4> QED
        BY <4>1, <4>4, <3>1
    <3>2. CASE j # k
      <4>1. i \in 1..Len(queue[j]) /\ queue'[j][i] = queue[j][i]
        BY <3>2, <2>3
      <4> QED
        BY <4>1, <3>2, <2>4 DEF WaitersWait
    <3> QED
      BY <3>1, <3>2
  <2>9. WaitersWait'
    <3> SUFFICES ASSUME NEW j \in Keys, NEW i \in 1..Len(queue'[j])
                 PROVE  pc'[queue'[j][i]] = "waiting" /\ want'[queue'[j][i]] = j
      BY DEF WaitersWait
    <3>1. PICK m \in 1..Len(queue[j]) : queue'[j][i] = queue[j][m] /\ queue[j][m] # w
      BY <2>8
    <3>2. queue[j][m] \in Clients
      BY DEF LockingTypeOK
    <3> QED
      BY <3>1, <3>2, <2>6, <1>1 DEF WaitersWait
  <2>10. QueuedOnce'
    <3> SUFFICES ASSUME NEW j \in Keys, NEW i \in 1..Len(queue'[j]), NEW m \in 1..Len(queue'[j]),
                        queue'[j][i] = queue'[j][m]
                 PROVE  i = m
      BY DEF QueuedOnce
    <3>1. CASE j = k
      <4>1. /\ i + 1 \in 1..Len(queue[k]) /\ m + 1 \in 1..Len(queue[k])
            /\ queue[k][i + 1] = queue[k][m + 1]
        BY <3>1, <2>2, <2>3
      <4>2. i + 1 = m + 1
        BY <4>1, <1>2 DEF QueuedOnce
      <4> QED
        BY <4>2
    <3>2. CASE j # k
      BY <3>2, <2>3 DEF QueuedOnce
    <3> QED
      BY <3>1, <3>2
  <2>11. WaitingForKey'
    BY <2>6, <1>1 DEF WaitingForKey
  <2>12. GrantIsNew'
    <3> SUFFICES ASSUME NEW v \in Clients, pc'[v] = "granted"
                 PROVE  /\ want'[v] \in Keys
                        /\ \A i \in 1..Len(owed'[v]) : owed'[v][i] # want'[v]
      BY DEF GrantIsNew
    <3>1. CASE v = w
      BY <3>1, <2>4, <2>5, <1>1, <1>2 DEF Holds
    <3>2. CASE v # w
      <4>1. v # u /\ pc[v] = "granted"
        BY <3>2, <2>6, <1>1
      <4> QED
        BY <4>1, <1>1, <1>2 DEF GrantIsNew
    <3> QED
      BY <3>1, <3>2
  <2>13. MutualExclusion'
    <3> SUFFICES ASSUME NEW j \in Keys, NEW v \in Clients, NEW x \in Clients,
                        Holds(v, j)', Holds(x, j)'
                 PROVE  v = x
      BY DEF MutualExclusion
    <3> QED
      BY <2>7, <1>3 DEF MutualExclusion
  <2>14. LockedIsHeld'
    <3>1. ASSUME NEW j \in Keys
          PROVE  locked'[j] <=> \E v \in Clients : Holds(v, j)'
      <4>1. CASE j = k
        BY <4>1, <2>1, <2>2, <2>7, <1>4
      <4>2. CASE j # k
        BY <4>2, <2>1, <2>7 DEF LockedIsHeld
      <4> QED
        BY <4>1, <4>2
    <3>2. ASSUME NEW j \in Keys, queue'[j] # << >>
          PROVE  locked'[j]
      BY <3>2, <2>1, <2>3, <1>4 DEF LockedIsHeld
    <3> QED
      BY <3>1, <3>2 DEF LockedIsHeld
  <2> QED
    BY <2>9, <2>10, <2>11, <2>12, <2>13, <2>14, <1>8
<1> QED
  BY <1>9, <1>10

\* Every step preserves the inductive invariant.
LEMMA LockingNextInv == LockingInv /\ [LockingNext]_vars => LockingInv'
<1> SUFFICES ASSUME LockingInv, [LockingNext]_vars
             PROVE  LockingInv'
  OBVIOUS
<1>0. LockingTypeOK'
  BY LockingNextType
<1>1. CASE UNCHANGED vars
  BY <1>0, <1>1, QuietStep DEF vars
<1>2. ASSUME NEW u \in Clients, Start(u) \/ HookFails(u) \/ HooksDone(u) \/ Published(u)
      PROVE  LockingInv'
  <2>1. UNCHANGED <<locked, queue, want, owed>>
    BY <1>2 DEF Start, HookFails, HooksDone, Published
  <2>2. \A v \in Clients : /\ pc'[v] = "granted" <=> pc[v] = "granted"
                           /\ pc'[v] = "waiting" <=> pc[v] = "waiting"
    BY <1>2 DEF Start, HookFails, HooksDone, Published, AfterHooks, LockingInv, LockingTypeOK
  <2> QED
    BY <1>0, <2>1, <2>2, QuietStep
<1>3. ASSUME NEW u \in Clients, NEW ok \in BOOLEAN, Settle(u, ok)
      PROVE  LockingInv'
  <2>1. UNCHANGED <<locked, queue, want, owed>>
    BY <1>3 DEF Settle
  <2>2. \A v \in Clients : /\ pc'[v] = "granted" <=> pc[v] = "granted"
                           /\ pc'[v] = "waiting" <=> pc[v] = "waiting"
    BY <1>3 DEF Settle, LockingInv, LockingTypeOK
  <2> QED
    BY <1>0, <2>1, <2>2, QuietStep
<1>4. ASSUME NEW u \in Clients, NEW k \in Keys, AcquireFree(u, k) \/ AcquireHeld(u, k)
      PROVE  LockingInv'
  BY <1>0, <1>4, AcquireFreeInv, AcquireHeldInv
<1>5. ASSUME NEW u \in Clients, LockTimeout(u) \/ Register(u) \/ RunHook(u)
      PROVE  LockingInv'
  BY <1>0, <1>5, LockTimeoutInv, RegisterInv, RunHookInv
<1> QED
  BY <1>1, <1>2, <1>3, <1>4, <1>5 DEF LockingNext, ClientStep

-----------------------------------------------------------------------------

\* The variables keep their types.
THEOREM LockingTypeCorrect == LockingSpec => []LockingTypeOK
<1>1. LockingInv => LockingTypeOK
  BY DEF LockingInv
<1> QED
  BY <1>1, LockingInitInv, LockingNextInv, PTL DEF LockingSpec

\* In every execution, with any number of clients and aggregates, at most one
\* client holds an aggregate's lock (InMemoryAggregateLocker as the engine's
\* strategy and completion hooks use it, failed releases included).
THEOREM LockingMutualExclusion == LockingSpec => []MutualExclusion
<1>1. LockingInv => MutualExclusion
  BY DEF LockingInv
<1> QED
  BY <1>1, LockingInitInv, LockingNextInv, PTL DEF LockingSpec

\* Only a rejecting release leaves a lock behind: once a unit of work's hooks are
\* over, or a command's `finally`, it owes no release unless one of them failed.
LeftOnlyByFailure ==
  \A u \in Clients : PastHooks(u) /\ owed[u] # << >> => hookFailed[u]

LEMMA NextLeftOnlyByFailure ==
  LockingInv /\ LeftOnlyByFailure /\ [LockingNext]_vars => LeftOnlyByFailure'
<1> SUFFICES ASSUME LockingInv, LeftOnlyByFailure, [LockingNext]_vars
             PROVE  LeftOnlyByFailure'
  OBVIOUS
<1> USE DEF LockingInv, LockingTypeOK, LeftOnlyByFailure, PastHooks
<1>1. CASE UNCHANGED vars
  BY <1>1 DEF vars
<1>2. ASSUME NEW u \in Clients, Start(u)
      PROVE  LeftOnlyByFailure'
  BY <1>2 DEF Start
<1>3. ASSUME NEW u \in Clients, NEW k \in Keys, AcquireFree(u, k) \/ AcquireHeld(u, k)
      PROVE  LeftOnlyByFailure'
  BY <1>3 DEF AcquireFree, AcquireHeld
<1>4. ASSUME NEW u \in Clients, LockTimeout(u)
      PROVE  LeftOnlyByFailure'
  BY <1>4 DEF LockTimeout
<1>5. ASSUME NEW u \in Clients, Register(u)
      PROVE  LeftOnlyByFailure'
  BY <1>5 DEF Register
<1>6. ASSUME NEW u \in Clients, NEW ok \in BOOLEAN, Settle(u, ok)
      PROVE  LeftOnlyByFailure'
  BY <1>6 DEF Settle
<1>7. ASSUME NEW u \in Clients, RunHook(u)
      PROVE  LeftOnlyByFailure'
  <2>1. /\ pc[u] = "settling"
        /\ owed' = [owed EXCEPT ![u] = Tail(@)]
        /\ hookFailed' = hookFailed
    BY <1>7 DEF RunHook
  <2>2. pc' = pc \/ \E w : pc' = [pc EXCEPT ![w] = "granted"]
    BY <1>7 DEF RunHook, ReleaseLock
  <2>3. \A v \in Clients : pc'[v] = pc[v] \/ pc'[v] = "granted"
    BY <2>2
  <2> QED
    BY <2>1, <2>3
<1>8. ASSUME NEW u \in Clients, HookFails(u)
      PROVE  LeftOnlyByFailure'
  BY <1>8 DEF HookFails
<1>9. ASSUME NEW u \in Clients, HooksDone(u) \/ Published(u)
      PROVE  LeftOnlyByFailure'
  BY <1>9 DEF HooksDone, Published
<1> QED
  BY <1>1, <1>2, <1>3, <1>4, <1>5, <1>6, <1>7, <1>8, <1>9 DEF LockingNext, ClientStep

\* A locked key, and every key somebody waits for, has a holder that will still
\* run its release, unless a release of that very holder has rejected; and a held
\* key is locked (the locker, the strategy's `finally` and completion hooks).
THEOREM LockingNoOrphanLock == LockingSpec => []NoOrphanLock
<1>1. LockingInit => LeftOnlyByFailure
  BY DEF LockingInit, LeftOnlyByFailure
<1>2. LockingInv /\ LeftOnlyByFailure => NoOrphanLock
  <2> SUFFICES ASSUME LockingInv, LeftOnlyByFailure, NEW k \in Keys
               PROVE  /\ locked[k] => \E u \in Clients : Holds(u, k) /\ (PastHooks(u) => hookFailed[u])
                      /\ \A u \in Clients : Holds(u, k) => locked[k]
                      /\ queue[k] # << >> => locked[k]
    BY DEF NoOrphanLock
  <2>1. /\ locked[k] <=> \E u \in Clients : Holds(u, k)
        /\ queue[k] # << >> => locked[k]
    BY DEF LockingInv, LockedIsHeld
  <2>2. ASSUME NEW u \in Clients, Holds(u, k), PastHooks(u)
        PROVE  hookFailed[u]
    <3>1. pc[u] # "granted"
      BY <2>2 DEF PastHooks
    <3>2. PICK i \in 1..Len(owed[u]) : owed[u][i] = k
      BY <2>2, <3>1 DEF Holds
    <3>3. owed[u] # << >>
      BY <3>2
    <3> QED
      BY <2>2, <3>3 DEF LeftOnlyByFailure
  <2> QED
    BY <2>1, <2>2
<1> QED
  BY <1>1, <1>2, LockingInitInv, LockingNextInv, NextLeftOnlyByFailure, PTL DEF LockingSpec

-----------------------------------------------------------------------------
(* How the locks move.  A step leaves every lock where it is, gives a free *)
(* key to a client that finds no queue, or runs a release: these are the   *)
(* steps of KeyedMutex, and the only grants that meet a queue are its own. *)

LocksStay == \A v \in Clients, j \in Keys : Holds(v, j)' <=> Holds(v, j)

LockGranted(u, k) ==
  /\ \A v \in Clients : ~Holds(v, k)
  /\ queue[k] = << >>
  /\ \A v \in Clients, j \in Keys :
       Holds(v, j)' <=> Holds(v, j) \/ (v = u /\ j = k)

LockFreed(u, k) ==
  /\ \A v \in Clients : Holds(v, k) <=> v = u
  /\ \A v \in Clients, j \in Keys :
       Holds(v, j)' <=> Holds(v, j) /\ ~(v = u /\ j = k)

LockPassed(u, w, k) ==
  /\ \A v \in Clients : Holds(v, k) <=> v = u
  /\ queue[k] # << >> /\ w = Head(queue[k])
  /\ \A v \in Clients, j \in Keys :
       Holds(v, j)' <=> \/ Holds(v, j) /\ ~(v = u /\ j = k)
                        \/ v = w /\ j = k

LockMoves ==
  \/ LocksStay
  \/ \E u \in Clients, k \in Keys :
       \/ LockGranted(u, k)
       \/ LockFreed(u, k)
       \/ \E w \in Clients : LockPassed(u, w, k)

\* Every step of the clients and the locker moves at most one lock, in one of
\* the three ways.
LEMMA EveryStepMoves == LockingInv /\ [LockingNext]_vars => LockMoves
<1> SUFFICES ASSUME LockingInv, [LockingNext]_vars
             PROVE  LockMoves
  OBVIOUS
<1> USE DEF LockingInv
<1>1. CASE UNCHANGED vars
  BY <1>1 DEF vars, LockMoves, LocksStay, Holds
<1>2. ASSUME NEW u \in Clients, Start(u) \/ HookFails(u) \/ HooksDone(u) \/ Published(u)
      PROVE  LocksStay
  BY <1>2 DEF Start, HookFails, HooksDone, Published, AfterHooks, LockingTypeOK,
     LocksStay, Holds
<1>3. ASSUME NEW u \in Clients, NEW ok \in BOOLEAN, Settle(u, ok)
      PROVE  LocksStay
  BY <1>3 DEF Settle, LockingTypeOK, LocksStay, Holds
<1>4. ASSUME NEW u \in Clients, NEW k \in Keys, AcquireFree(u, k)
      PROVE  LockGranted(u, k)
  <2>1. ~locked[k]
    BY <1>4 DEF AcquireFree
  <2>2. queue[k] = << >> /\ \A v \in Clients : ~Holds(v, k)
    BY <2>1 DEF LockedIsHeld
  <2>3. \A v \in Clients, j \in Keys :
          Holds(v, j)' <=> Holds(v, j) \/ (v = u /\ j = k)
    BY <1>4 DEF AcquireFree, LockingTypeOK, Holds
  <2> QED
    BY <2>2, <2>3 DEF LockGranted
<1>5. ASSUME NEW u \in Clients, NEW k \in Keys, AcquireHeld(u, k)
      PROVE  LocksStay
  BY <1>5 DEF AcquireHeld, LockingTypeOK, LocksStay, Holds
<1>6. ASSUME NEW u \in Clients, LockTimeout(u)
      PROVE  LocksStay
  BY <1>6 DEF LockTimeout, LockingTypeOK, LocksStay, Holds
<1>7. ASSUME NEW u \in Clients, Register(u)
      PROVE  LocksStay
  BY <1>7, RegisterHolds DEF LocksStay
<1>8. ASSUME NEW u \in Clients, RunHook(u)
      PROVE  \E k \in Keys : LockFreed(u, k) \/ \E w \in Clients : LockPassed(u, w, k)
  <2> DEFINE k == Head(owed[u])
  <2>1. /\ k \in Keys
        /\ \A v \in Clients : Holds(v, k) <=> v = u
    BY <1>8, RunHookHolds
  <2>2. CASE queue[k] = << >>
    <3>1. \A v \in Clients, j \in Keys :
            Holds(v, j)' <=> Holds(v, j) /\ ~(v = u /\ j = k)
      BY <1>8, <2>2, RunHookHolds
    <3> HIDE DEF k
    <3> QED
      BY <2>1, <3>1 DEF LockFreed
  <2>3. CASE queue[k] # << >>
    <3> DEFINE w == Head(queue[k])
    <3>1. /\ w \in Clients
          /\ \A v \in Clients, j \in Keys :
               Holds(v, j)' <=> \/ Holds(v, j) /\ ~(v = u /\ j = k)
                                \/ v = w /\ j = k
      BY <1>8, <2>3, RunHookHolds
    <3>2. LockPassed(u, w, k)
      <4> HIDE DEF k
      <4> QED
        BY <2>1, <2>3, <3>1 DEF LockPassed
    <3> QED
      BY <2>1, <3>1, <3>2
  <2> QED
    BY <2>2, <2>3
<1> QED
  BY <1>1, <1>2, <1>3, <1>4, <1>5, <1>6, <1>7, <1>8 DEF LockingNext, ClientStep, LockMoves

\* Whatever the interleaving of acquires, timeouts and releases, a client that
\* is granted a key others wait for is the one that has waited longest: the
\* queue of InMemoryAggregateLocker is never overtaken.
THEOREM LockingNoOvertaking == LockingSpec => NoOvertaking
<1>1. LockingInv /\ [LockingNext]_vars =>
        [\A k \in Keys, u \in Clients :
           (queue[k] # << >> /\ ~Holds(u, k) /\ Holds(u, k)') => u = Head(queue[k])]_vars
  <2> SUFFICES ASSUME LockMoves, NEW k \in Keys, NEW u \in Clients,
                      queue[k] # << >>, ~Holds(u, k), Holds(u, k)'
               PROVE  u = Head(queue[k])
    BY EveryStepMoves
  <2> QED
    BY DEF LockMoves, LocksStay, LockGranted, LockFreed, LockPassed
<1> QED
  BY <1>1, LockingInitInv, LockingNextInv, PTL DEF LockingSpec, NoOvertaking

\* The locker as the engine uses it implements KeyedMutex: initially no key is
\* held, and every step is a grant of a free key, a release by the only holder
\* or its hand-over to a waiter, or leaves the holders of every key alone.
THEOREM LockingImplementsMutex == LockingSpec => MutexRefined
<1> DEFINE H == [k \in Keys |-> {u \in Clients : Holds(u, k)}]
<1>1. LockingInit => Mutex!MutexInit
  BY DEF LockingInit, Holds, Mutex!MutexInit
<1>2. LockingInv /\ [LockingNext]_vars => [Mutex!MutexNext]_H
  <2> SUFFICES ASSUME LockMoves
               PROVE  Mutex!MutexNext \/ H' = H
    BY EveryStepMoves
  <2>1. CASE LocksStay
    BY <2>1 DEF LocksStay
  <2>2. ASSUME NEW u \in Clients, NEW k \in Keys, LockGranted(u, k)
        PROVE  Mutex!Grant(u, k)
    BY <2>2 DEF LockGranted, Mutex!Grant
  <2>3. ASSUME NEW u \in Clients, NEW k \in Keys, LockFreed(u, k)
        PROVE  Mutex!GiveUp(u, k)
    BY <2>3 DEF LockFreed, Mutex!GiveUp
  <2>4. ASSUME NEW u \in Clients, NEW k \in Keys, NEW w \in Clients, LockPassed(u, w, k)
        PROVE  Mutex!HandOver(u, w, k)
    BY <2>4 DEF LockPassed, Mutex!HandOver
  <2> QED
    BY <2>1, <2>2, <2>3, <2>4 DEF LockMoves, Mutex!MutexNext
<1> QED
  BY <1>1, <1>2, LockingInitInv, LockingNextInv, PTL
     DEF LockingSpec, MutexRefined, Mutex!MutexSpec
-----------------------------------------------------------------------------
(* The outbox relay *)

Working(p) == rpc[p] \in {"load", "dispatch", "mark"}

\* A call that works has set its relay's flag.
WorkingHasFlag == \A p \in Polls : Working(p) => processing[p[1]]

\* Calls that work at the same time are calls of different nodes.
OneWorker ==
  \A p, q \in Polls : Working(p) /\ Working(q) /\ p[1] = q[1] => p = q

FlightInv == OutboxTypeOK /\ WorkingHasFlag /\ OneWorker

\* The entry that a relay is about to mark was delivered.
RelayMarksDelivered ==
  \A p \in Polls : rpc[p] = "mark" =>
    \A e \in Entries : IsNext(e, batch[p]) => e \in delivered

\* The events a command has published were delivered; it marks after the last.
OwnerMarksDelivered ==
  \A c \in Commands :
    /\ cpc[c] \in {"publish", "mark"} => EventsOf[c] \ todo[c] \subseteq delivered
    /\ cpc[c] = "mark" => todo[c] = {}

DeliveryInv ==
  /\ OutboxTypeOK
  /\ RelayMarksDelivered
  /\ OwnerMarksDelivered
  /\ MarkedWasDelivered

-----------------------------------------------------------------------------
\* A call is a pair of a node and a caller.
LEMMA PollPairs ==
  /\ \A p \in Polls : p[1] \in Nodes /\ p[2] \in Callers /\ p = <<p[1], p[2]>>
  /\ \A n \in Nodes : \A x \in Callers :
       <<n, x>> \in Polls /\ <<n, x>>[1] = n /\ <<n, x>>[2] = x
BY DEF Polls

\* Enter, Returns, Marked and Exit keep the types of what they change.
LEMMA EnterType ==
  ASSUME OutboxTypeOK, NEW p \in Polls, Enter(p)
  PROVE  OutboxTypeOK'
BY PollPairs DEF OutboxTypeOK, Enter, commandVars, nodeVars

\* Returns keeps the types of the calls and of the flags.
LEMMA ReturnsType ==
  ASSUME OutboxTypeOK, NEW p \in Polls, NEW any \in BOOLEAN, Returns(p, any)
  PROVE  /\ processing' \in [Nodes -> BOOLEAN]
         /\ rpc' \in [Polls -> {"idle", "call", "load", "dispatch", "mark", "returned"}]
BY PollPairs DEF OutboxTypeOK, Returns

\* Marked keeps the type of the outbox.
LEMMA MarkedType ==
  ASSUME OutboxTypeOK, NEW S, Marked(S)
  PROVE  status' \in [Entries -> {"none", "pending", "published", "deleted"}]
BY DEF OutboxTypeOK, Marked

\* Exit keeps the types of all it resets.
LEMMA ExitType ==
  ASSUME OutboxTypeOK, NEW n \in Nodes, Exit(n), stops' \in 0..MaxStops
  PROVE  OutboxTypeOK'
BY DEF OutboxTypeOK, Exit

\* Every step keeps the types.
LEMMA OutboxNextType ==
  ASSUME OutboxTypeOK, [OutboxNext]_outboxVars
  PROVE  OutboxTypeOK'
<1> USE RelayAssumption
<1>1. ASSUME NEW c \in Commands, BeginCommand(c) \/ CommandStep(c) PROVE OutboxTypeOK'
  <2>1. CASE BeginCommand(c)
    BY <2>1 DEF OutboxTypeOK, BeginCommand, relayVars, nodeVars
  <2>2. CASE Commit(c)
    BY <2>2 DEF OutboxTypeOK, Commit, relayVars, nodeVars
  <2>3. CASE PublishedAll(c)
    BY <2>3 DEF OutboxTypeOK, PublishedAll, relayVars, nodeVars
  <2>4. CASE MarkOwn(c)
    BY <2>4, MarkedType DEF OutboxTypeOK, MarkOwn, relayVars, nodeVars
  <2>5. CASE MarkOwnFails(c)
    BY <2>5 DEF OutboxTypeOK, MarkOwnFails, relayVars, nodeVars
  <2>6. ASSUME NEW e \in Entries, PublishEvent(c, e) PROVE OutboxTypeOK'
    BY <2>6 DEF OutboxTypeOK, PublishEvent, DispatchResolves, relayVars, nodeVars
  <2>7. ASSUME NEW e \in Entries, PublishRejected(c, e) PROVE OutboxTypeOK'
    BY <2>7 DEF OutboxTypeOK, PublishRejected, relayVars, nodeVars
  <2> QED BY <1>1, <2>1, <2>2, <2>3, <2>4, <2>5, <2>6, <2>7 DEF CommandStep
<1>2. ASSUME NEW p \in Polls, PollStep(p) PROVE OutboxTypeOK'
  <2>1. CASE LoadBatch(p)
    <3>1. OldestUnpublished \subseteq Entries
      BY DEF OldestUnpublished, Unpublished
    <3>2. CASE Unpublished = {} /\ Returns(p, FALSE)
      BY <2>1, <3>1, <3>2, ReturnsType DEF OutboxTypeOK, LoadBatch, commandVars, nodeVars
    <3>3. CASE rpc' = [rpc EXCEPT ![p] = "dispatch"] /\ UNCHANGED processing
      BY <2>1, <3>1, <3>3 DEF OutboxTypeOK, LoadBatch, commandVars, nodeVars
    <3> QED BY <2>1, <3>2, <3>3 DEF LoadBatch
  <2>2. CASE LoadFails(p)
    BY <2>2, ReturnsType DEF OutboxTypeOK, LoadFails, commandVars, nodeVars
  <2>3. CASE BatchDone(p)
    <3>1. worked[p] \in BOOLEAN
      BY DEF OutboxTypeOK
    <3> QED BY <2>3, <3>1, ReturnsType DEF OutboxTypeOK, BatchDone, commandVars, nodeVars
  <2>4. ASSUME NEW e \in Entries, RelayDispatch(p, e) PROVE OutboxTypeOK'
    BY <2>4 DEF OutboxTypeOK, RelayDispatch, DispatchResolves, commandVars, nodeVars
  <2>5. ASSUME NEW e \in Entries, RelayDispatchFails(p, e) PROVE OutboxTypeOK'
    BY <2>5 DEF OutboxTypeOK, RelayDispatchFails, commandVars, nodeVars
  <2>6. ASSUME NEW e \in Entries, RelayMark(p, e) PROVE OutboxTypeOK'
    BY <2>6, MarkedType DEF OutboxTypeOK, RelayMark, commandVars, nodeVars
  <2>7. ASSUME NEW e \in Entries, RelayMarkFails(p, e) PROVE OutboxTypeOK'
    BY <2>7 DEF OutboxTypeOK, RelayMarkFails, commandVars, nodeVars
  <2> QED BY <1>2, <2>1, <2>2, <2>3, <2>4, <2>5, <2>6, <2>7 DEF PollStep
<1>3. ASSUME NEW n \in Nodes,
             \/ StartRelay(n) \/ StopRelay(n) \/ Tick(n) \/ ProcessOutboxOnce(n)
             \/ DrainCalls(n) \/ Shutdown(n) \/ Crash(n) \/ LifeStep(n)
      PROVE  OutboxTypeOK'
  <2>0. <<n, "poll">> \in Polls /\ <<n, "manual">> \in Polls /\ <<n, "drain">> \in Polls
    BY DEF Polls, Callers
  <2>1. CASE StartRelay(n)
    BY <2>1 DEF OutboxTypeOK, StartRelay, commandVars, nodeVars
  <2>2. CASE StopRelay(n)
    BY <2>2 DEF OutboxTypeOK, StopRelay, commandVars, nodeVars
  <2>3. CASE Tick(n)
    BY <2>0, <2>3, EnterType DEF Tick
  <2>4. CASE ProcessOutboxOnce(n)
    BY <2>0, <2>4, EnterType DEF ProcessOutboxOnce
  <2>5. CASE DrainCalls(n)
    <3>1. CASE Enter(<<n, "drain">>)
      BY <2>0, <3>1, EnterType
    <3>2. CASE ~Enter(<<n, "drain">>)
      BY <2>0, <2>5, <3>2 DEF OutboxTypeOK, DrainCalls, commandVars, nodeVars
    <3> QED BY <3>1, <3>2
  <2>6. CASE Shutdown(n)
    BY <2>6 DEF OutboxTypeOK, Shutdown, relayVars, commandVars
  <2>7. CASE Crash(n)
    <3>1. stops' \in 0..MaxStops
      BY <2>7 DEF Crash, OutboxTypeOK
    <3> QED BY <2>7, <3>1, ExitType DEF Crash
  <2>8. CASE BeginDrain(n)
    BY <2>0, <2>8 DEF OutboxTypeOK, BeginDrain, commandVars
  <2>9. CASE CloseBus(n)
    BY <2>9 DEF OutboxTypeOK, CloseBus, relayVars, commandVars
  <2>10. CASE ProcessExits(n)
    <3>1. stops' \in 0..MaxStops
      BY <2>10 DEF ProcessExits, OutboxTypeOK
    <3> QED BY <2>10, <3>1, ExitType DEF ProcessExits
  <2>11. CASE Restart(n)
    BY <2>11 DEF OutboxTypeOK, Restart, relayVars, commandVars
  <2> QED BY <1>3, <2>1, <2>2, <2>3, <2>4, <2>5, <2>6, <2>7, <2>8, <2>9, <2>10, <2>11
          DEF LifeStep
<1>4. CASE DeletePublished
  BY <1>4 DEF OutboxTypeOK, DeletePublished, relayVars, commandVars, nodeVars
<1>5. CASE UNCHANGED outboxVars
  BY <1>5 DEF OutboxTypeOK, outboxVars, relayVars, commandVars, nodeVars
<1> QED BY <1>1, <1>2, <1>3, <1>4, <1>5 DEF OutboxNext

\* The initial state has the types.
LEMMA OutboxInitType == OutboxInit => OutboxTypeOK
BY RelayAssumption DEF OutboxInit, OutboxTypeOK

\* The variables of OutboxRelay keep their types for all constants.
THEOREM OutboxTypeCorrect == OutboxSpec => []OutboxTypeOK
<1>1. OutboxInit => OutboxTypeOK
  BY OutboxInitType
<1>2. OutboxTypeOK /\ [OutboxNext]_outboxVars => OutboxTypeOK'
  BY OutboxNextType
<1> QED BY <1>1, <1>2, PTL DEF OutboxSpec

-----------------------------------------------------------------------------
(* One processOnce() at a time.                                            *)

\* A step that touches neither the calls nor the flags keeps FlightInv.
LEMMA FlightQuiet ==
  ASSUME FlightInv, OutboxTypeOK', UNCHANGED <<rpc, processing>>
  PROVE  FlightInv'
BY DEF FlightInv, WorkingHasFlag, OneWorker, Working

\* A call enters only when the flag is down, so when no other call works.
LEMMA FlightEnter ==
  ASSUME FlightInv, NEW p \in Polls, ~processing[p[1]], Enter(p)
  PROVE  FlightInv'
<1>1. OutboxTypeOK'
  BY EnterType DEF FlightInv
<1>2. p[1] \in Nodes /\ \A q \in Polls : q[1] \in Nodes
  BY PollPairs
<1>3. \A q \in Polls : rpc'[q] = IF q = p THEN "load" ELSE rpc[q]
  BY DEF Enter, FlightInv, OutboxTypeOK
<1>4. \A n \in Nodes : processing'[n] = (n = p[1] \/ processing[n])
  BY <1>2 DEF Enter, FlightInv, OutboxTypeOK
<1>5. \A q \in Polls : Working(q) => q[1] # p[1]
  BY DEF FlightInv, WorkingHasFlag
<1>6. \A q \in Polls : Working(q)' <=> q = p \/ Working(q)
  BY <1>3 DEF Working
<1>7. WorkingHasFlag'
  BY <1>2, <1>4, <1>6 DEF FlightInv, WorkingHasFlag
<1>8. OneWorker'
  BY <1>5, <1>6 DEF FlightInv, OneWorker
<1> QED BY <1>1, <1>7, <1>8 DEF FlightInv

\* The flag goes down when the one call that works returns.
LEMMA FlightReturns ==
  ASSUME FlightInv, OutboxTypeOK', NEW p \in Polls, Working(p),
         NEW any \in BOOLEAN, Returns(p, any)
  PROVE  FlightInv'
<1>1. p[1] \in Nodes /\ \A q \in Polls : q[1] \in Nodes
  BY PollPairs
<1>2. \A q \in Polls : q # p => rpc'[q] = rpc[q]
  BY DEF Returns, FlightInv, OutboxTypeOK
<1>3. rpc'[p] \in {"idle", "call", "returned"}
  BY DEF Returns, FlightInv, OutboxTypeOK
<1>4. \A n \in Nodes : n # p[1] => processing'[n] = processing[n]
  BY <1>1 DEF Returns, FlightInv, OutboxTypeOK
<1>5. \A q \in Polls : Working(q)' => q # p /\ Working(q)
  BY <1>2, <1>3 DEF Working
<1>6. \A q \in Polls : Working(q)' => q[1] # p[1]
  BY <1>5 DEF FlightInv, OneWorker
<1>7. WorkingHasFlag'
  BY <1>1, <1>4, <1>5, <1>6 DEF FlightInv, WorkingHasFlag
<1>8. OneWorker'
  BY <1>5 DEF FlightInv, OneWorker
<1> QED BY <1>7, <1>8 DEF FlightInv

\* A call that works may go on working.
LEMMA FlightGoesOn ==
  ASSUME FlightInv, OutboxTypeOK', NEW p \in Polls, Working(p), NEW stage,
         rpc' = [rpc EXCEPT ![p] = stage], UNCHANGED processing
  PROVE  FlightInv'
<1>1. \A q \in Polls : Working(q)' => Working(q)
  BY DEF Working, FlightInv, OutboxTypeOK
<1> QED BY <1>1 DEF FlightInv, WorkingHasFlag, OneWorker

\* Calls may stop working at any time.
LEMMA FlightStops ==
  ASSUME FlightInv, OutboxTypeOK',
         \A q \in Polls : Working(q)' => Working(q) /\ processing'[q[1]]
  PROVE  FlightInv'
BY DEF FlightInv, WorkingHasFlag, OneWorker

\* When the process ends, its calls stop and its flag is down.
LEMMA FlightExit ==
  ASSUME FlightInv, OutboxTypeOK', NEW n \in Nodes, Exit(n)
  PROVE  FlightInv'
<1>1. \A q \in Polls : q[1] \in Nodes
  BY PollPairs
<1>2. \A q \in Polls : Working(q)' => q[1] # n /\ Working(q)
  BY DEF Exit, Working
<1>3. \A m \in Nodes : m # n => processing'[m] = processing[m]
  BY DEF Exit, FlightInv, OutboxTypeOK
<1>4. \A q \in Polls : Working(q)' => Working(q) /\ processing'[q[1]]
  BY <1>1, <1>2, <1>3 DEF FlightInv, WorkingHasFlag
<1> QED BY <1>4, FlightStops

\* Every step keeps FlightInv.
LEMMA FlightNext ==
  ASSUME FlightInv, [OutboxNext]_outboxVars
  PROVE  FlightInv'
<1>0. OutboxTypeOK'
  BY OutboxNextType DEF FlightInv
<1>1. ASSUME NEW c \in Commands, BeginCommand(c) \/ CommandStep(c) PROVE FlightInv'
  <2>1. UNCHANGED <<rpc, processing>>
    BY <1>1 DEF BeginCommand, CommandStep, Commit, PublishedAll, MarkOwn, MarkOwnFails,
                PublishEvent, PublishRejected, relayVars
  <2> QED BY <1>0, <2>1, FlightQuiet
<1>2. ASSUME NEW p \in Polls, PollStep(p) PROVE FlightInv'
  <2>1. CASE LoadBatch(p)
    <3>1. Working(p)
      BY <2>1 DEF LoadBatch, Working
    <3>2. CASE Returns(p, FALSE)
      BY <1>0, <3>1, <3>2, FlightReturns
    <3>3. CASE ~Returns(p, FALSE)
      BY <1>0, <2>1, <3>1, <3>3, FlightGoesOn DEF LoadBatch
    <3> QED BY <3>2, <3>3
  <2>2. CASE LoadFails(p)
    BY <1>0, <2>2, FlightReturns DEF LoadFails, Working
  <2>3. CASE BatchDone(p)
    <3>1. worked[p] \in BOOLEAN
      BY DEF FlightInv, OutboxTypeOK
    <3> QED BY <1>0, <2>3, <3>1, FlightReturns DEF BatchDone, Working
  <2>4. ASSUME NEW e \in Entries, RelayDispatch(p, e) PROVE FlightInv'
    BY <1>0, <2>4, FlightGoesOn DEF RelayDispatch, Working
  <2>5. ASSUME NEW e \in Entries, RelayDispatchFails(p, e) PROVE FlightInv'
    BY <1>0, <2>5, FlightQuiet DEF RelayDispatchFails
  <2>6. ASSUME NEW e \in Entries, RelayMark(p, e) \/ RelayMarkFails(p, e)
        PROVE  FlightInv'
    BY <1>0, <2>6, FlightGoesOn DEF RelayMark, RelayMarkFails, Working
  <2> QED BY <1>2, <2>1, <2>2, <2>3, <2>4, <2>5, <2>6 DEF PollStep
<1>3. ASSUME NEW n \in Nodes,
             \/ StartRelay(n) \/ StopRelay(n) \/ Tick(n) \/ ProcessOutboxOnce(n)
             \/ DrainCalls(n) \/ Shutdown(n) \/ Crash(n) \/ LifeStep(n)
      PROVE  FlightInv'
  <2>0. \A x \in Callers : <<n, x>> \in Polls /\ <<n, x>>[1] = n
    BY PollPairs
  <2>1. CASE StartRelay(n) \/ StopRelay(n) \/ Shutdown(n) \/ CloseBus(n) \/ Restart(n)
    <3>1. UNCHANGED <<rpc, processing>>
      BY <2>1 DEF StartRelay, StopRelay, Shutdown, CloseBus, Restart, relayVars
    <3> QED BY <1>0, <3>1, FlightQuiet
  <2>2. CASE Tick(n)
    BY <2>0, <2>2, FlightEnter DEF Tick, Callers
  <2>3. CASE ProcessOutboxOnce(n)
    BY <2>0, <2>3, FlightEnter DEF ProcessOutboxOnce, Callers
  <2>4. CASE DrainCalls(n)
    <3>1. <<n, "drain">> \in Polls /\ <<n, "drain">>[1] = n
      BY <2>0 DEF Callers
    <3>2. CASE ~processing[n]
      BY <2>4, <3>1, <3>2, FlightEnter DEF DrainCalls
    <3>3. CASE processing[n]
      <4>1. rpc' = [rpc EXCEPT ![<<n, "drain">>] = "returned"] /\ UNCHANGED processing
        BY <2>4, <3>3 DEF DrainCalls
      <4>2. \A q \in Polls : Working(q)' => Working(q)
        BY <3>1, <4>1 DEF Working, FlightInv, OutboxTypeOK
      <4> QED BY <1>0, <4>1, <4>2, FlightStops DEF FlightInv, WorkingHasFlag
    <3> QED BY <3>2, <3>3
  <2>5. CASE Crash(n) \/ ProcessExits(n)
    BY <1>0, <2>5, FlightExit DEF Crash, ProcessExits
  <2>6. CASE BeginDrain(n)
    <3>1. <<n, "drain">> \in Polls
      BY <2>0 DEF Callers
    <3>2. \A q \in Polls : Working(q)' => Working(q)
      BY <2>6, <3>1 DEF BeginDrain, Working, FlightInv, OutboxTypeOK
    <3> QED BY <1>0, <2>6, <3>2, FlightStops DEF BeginDrain, FlightInv, WorkingHasFlag
  <2> QED BY <1>3, <2>1, <2>2, <2>3, <2>4, <2>5, <2>6 DEF LifeStep
<1>4. CASE DeletePublished \/ UNCHANGED outboxVars
  <2>1. UNCHANGED <<rpc, processing>>
    BY <1>4 DEF DeletePublished, outboxVars, relayVars
  <2> QED BY <1>0, <2>1, FlightQuiet
<1> QED BY <1>1, <1>2, <1>3, <1>4 DEF OutboxNext

\* On every node, and for every number of nodes, at most one processOnce() works
\* at a time: the `processing` flag serializes timer, manual calls and drain().
THEOREM RelaySingleFlight == OutboxSpec => []SingleFlight
<1>1. OutboxInit => FlightInv
  <2> SUFFICES ASSUME OutboxInit PROVE FlightInv
    OBVIOUS
  <2>1. \A p \in Polls : ~Working(p)
    BY DEF OutboxInit, Working
  <2> QED BY <2>1, OutboxInitType DEF FlightInv, WorkingHasFlag, OneWorker
<1>2. FlightInv /\ [OutboxNext]_outboxVars => FlightInv'
  BY FlightNext
<1>3. FlightInv => SingleFlight
  <2> SUFFICES ASSUME FlightInv, NEW n \in Nodes, NEW x \in Callers, NEW y \in Callers,
                      Working(<<n, x>>), Working(<<n, y>>)
               PROVE  x = y
    BY DEF SingleFlight, Working
  <2>1. <<n, x>> = <<n, y>>
    BY PollPairs DEF FlightInv, OneWorker
  <2> QED BY <2>1
<1> QED BY <1>1, <1>2, <1>3, PTL DEF OutboxSpec

-----------------------------------------------------------------------------
(* No committed event is lost.                                             *)

\* With a bus that rejects once closed, a dispatch that resolves delivers.
LEMMA ResolvedIsDelivered ==
  ASSUME ~InProcessBus, NEW n \in Nodes, NEW e \in Entries, DispatchResolves(n, e)
  PROVE  delivered' = delivered \cup {e}
BY DEF DispatchResolves

\* Marking entries that were delivered keeps MarkedWasDelivered.
LEMMA MarkedKeeps ==
  ASSUME OutboxTypeOK, MarkedWasDelivered, NEW S, Marked(S),
         S \cap Entries \subseteq delivered, UNCHANGED delivered
  PROVE  MarkedWasDelivered'
BY DEF MarkedWasDelivered, Marked, OutboxTypeOK

\* What was delivered stays delivered, so a step that marks nothing and starts no
\* mark keeps the invariant's parts.
LEMMA MarkedQuiet ==
  ASSUME MarkedWasDelivered, UNCHANGED status, delivered \subseteq delivered'
  PROVE  MarkedWasDelivered'
BY DEF MarkedWasDelivered

\* A step that moves no call and unmarks nothing keeps what the calls rely on.
LEMMA RelayQuiet ==
  ASSUME RelayMarksDelivered, delivered \subseteq delivered',
         \A p \in Polls : rpc'[p] = "mark" => rpc[p] = "mark" /\ batch'[p] = batch[p]
  PROVE  RelayMarksDelivered'
BY DEF RelayMarksDelivered, IsNext

\* A step that moves no command and unmarks nothing keeps what commands rely on.
LEMMA OwnerQuiet ==
  ASSUME OwnerMarksDelivered, delivered \subseteq delivered',
         \A c \in Commands : cpc'[c] \in {"publish", "mark"} =>
                               cpc'[c] = cpc[c] /\ todo'[c] = todo[c]
  PROVE  OwnerMarksDelivered'
BY DEF OwnerMarksDelivered

\* The steps of a command.
LEMMA CommandDelivery ==
  ASSUME DeliveryInv, OutboxTypeOK', ~InProcessBus,
         NEW c \in Commands, BeginCommand(c) \/ CommandStep(c)
  PROVE  DeliveryInv'
<1> USE RelayAssumption DEF relayVars, nodeVars
<1>1. UNCHANGED <<rpc, batch>>
  BY DEF BeginCommand, CommandStep, Commit, PublishedAll, MarkOwn, MarkOwnFails,
         PublishEvent, PublishRejected
<1>2. CASE BeginCommand(c) \/ MarkOwnFails(c)
           \/ \E e \in Entries : PublishRejected(c, e)
  <2>1. UNCHANGED <<status, delivered, todo>>
    BY <1>2 DEF BeginCommand, MarkOwnFails, PublishRejected
  <2>2. \A d \in Commands : cpc'[d] \in {"publish", "mark"} => cpc'[d] = cpc[d]
    BY <1>2 DEF BeginCommand, MarkOwnFails, PublishRejected, DeliveryInv, OutboxTypeOK
  <2> QED BY <1>1, <2>1, <2>2, MarkedQuiet, RelayQuiet, OwnerQuiet DEF DeliveryInv
<1>3. CASE Commit(c)
  <2>1. MarkedWasDelivered'
    BY <1>3 DEF Commit, DeliveryInv, OutboxTypeOK, MarkedWasDelivered
  <2>2. OwnerMarksDelivered'
    BY <1>3 DEF Commit, DeliveryInv, OutboxTypeOK, OwnerMarksDelivered
  <2> QED BY <1>1, <1>3, <2>1, <2>2, RelayQuiet DEF Commit, DeliveryInv
<1>4. ASSUME NEW e \in Entries, PublishEvent(c, e) PROVE DeliveryInv'
  <2>1. delivered' = delivered \cup {e}
    BY <1>4, ResolvedIsDelivered DEF PublishEvent
  <2>2. OwnerMarksDelivered'
    BY <1>4, <2>1 DEF PublishEvent, DeliveryInv, OutboxTypeOK, OwnerMarksDelivered
  <2> QED BY <1>1, <1>4, <2>1, <2>2, MarkedQuiet, RelayQuiet DEF PublishEvent, DeliveryInv
<1>5. CASE PublishedAll(c)
  <2>1. OwnerMarksDelivered'
    BY <1>5 DEF PublishedAll, DeliveryInv, OutboxTypeOK, OwnerMarksDelivered
  <2> QED BY <1>1, <1>5, <2>1, MarkedQuiet, RelayQuiet DEF PublishedAll, DeliveryInv
<1>6. CASE MarkOwn(c)
  <2>1. EventsOf[c] \subseteq delivered
    BY <1>6 DEF MarkOwn, DeliveryInv, OwnerMarksDelivered
  <2>2. MarkedWasDelivered'
    BY <1>6, <2>1, MarkedKeeps DEF MarkOwn, DeliveryInv
  <2>3. OwnerMarksDelivered'
    BY <1>6 DEF MarkOwn, DeliveryInv, OutboxTypeOK, OwnerMarksDelivered
  <2> QED BY <1>1, <1>6, <2>2, <2>3, RelayQuiet DEF MarkOwn, DeliveryInv
<1> QED BY <1>2, <1>3, <1>4, <1>5, <1>6 DEF CommandStep

\* The steps of a processOnce() call.
LEMMA PollDelivery ==
  ASSUME DeliveryInv, OutboxTypeOK', ~InProcessBus, NEW p \in Polls, PollStep(p)
  PROVE  DeliveryInv'
<1> USE DEF commandVars, nodeVars
<1>1. OwnerMarksDelivered'
  <2>1. UNCHANGED commandVars
    BY DEF PollStep, LoadBatch, LoadFails, BatchDone, RelayDispatch, RelayDispatchFails,
           RelayMark, RelayMarkFails
  <2>2. delivered \subseteq delivered'
    BY DEF PollStep, LoadBatch, LoadFails, BatchDone, RelayDispatch, RelayDispatchFails,
           RelayMark, RelayMarkFails, DispatchResolves
  <2> QED BY <2>1, <2>2, OwnerQuiet DEF DeliveryInv
<1>2. CASE LoadBatch(p) \/ LoadFails(p) \/ BatchDone(p)
           \/ \E e \in Entries : RelayDispatchFails(p, e) \/ RelayMarkFails(p, e)
  <2>1. UNCHANGED <<status, delivered>>
    BY <1>2 DEF LoadBatch, LoadFails, BatchDone, RelayDispatchFails, RelayMarkFails
  <2>2. \A q \in Polls : q # p => rpc'[q] = rpc[q] /\ batch'[q] = batch[q]
    BY <1>2 DEF LoadBatch, LoadFails, BatchDone, RelayDispatchFails, RelayMarkFails,
                Returns, DeliveryInv, OutboxTypeOK
  <2>3. rpc'[p] # "mark"
    BY <1>2 DEF LoadBatch, LoadFails, BatchDone, RelayDispatchFails, RelayMarkFails,
                Returns, DeliveryInv, OutboxTypeOK
  <2> QED BY <1>1, <2>1, <2>2, <2>3, MarkedQuiet, RelayQuiet DEF DeliveryInv
<1>3. ASSUME NEW e \in Entries, RelayDispatch(p, e) PROVE DeliveryInv'
  <2>1. p[1] \in Nodes
    BY PollPairs
  <2>2. delivered' = delivered \cup {e}
    BY <1>3, <2>1, ResolvedIsDelivered DEF RelayDispatch
  <2>3. IsNext(e, batch[p]) /\ UNCHANGED <<status, batch>>
    BY <1>3 DEF RelayDispatch
  <2>4. \A f \in Entries : IsNext(f, batch[p]) => f = e
    <3>1. Entries \subseteq Nat
      BY RelayAssumption
    <3>2. \A f \in Entries : IsNext(f, batch[p]) => e <= f /\ f <= e
      BY <2>3 DEF IsNext
    <3> QED BY <3>1, <3>2
  <2>5. \A q \in Polls : q # p => rpc'[q] = rpc[q]
    BY <1>3 DEF RelayDispatch, DeliveryInv, OutboxTypeOK
  <2>6. RelayMarksDelivered'
    BY <2>2, <2>3, <2>4, <2>5 DEF DeliveryInv, RelayMarksDelivered, IsNext
  <2> QED BY <1>1, <2>2, <2>3, <2>6, MarkedQuiet DEF DeliveryInv
<1>4. ASSUME NEW e \in Entries, RelayMark(p, e) PROVE DeliveryInv'
  <2>1. e \in delivered /\ UNCHANGED delivered
    BY <1>4 DEF RelayMark, DeliveryInv, RelayMarksDelivered
  <2>2. MarkedWasDelivered'
    BY <1>4, <2>1, MarkedKeeps DEF RelayMark, DeliveryInv
  <2>3. \A q \in Polls : q # p => rpc'[q] = rpc[q] /\ batch'[q] = batch[q]
    BY <1>4 DEF RelayMark, DeliveryInv, OutboxTypeOK
  <2>4. rpc'[p] # "mark"
    BY <1>4 DEF RelayMark, DeliveryInv, OutboxTypeOK
  <2> QED BY <1>1, <2>1, <2>2, <2>3, <2>4, RelayQuiet DEF DeliveryInv
<1> QED BY <1>2, <1>3, <1>4 DEF PollStep

\* The other steps of a node.
LEMMA NodeDelivery ==
  ASSUME DeliveryInv, OutboxTypeOK', NEW n \in Nodes,
         \/ StartRelay(n) \/ StopRelay(n) \/ Tick(n) \/ ProcessOutboxOnce(n)
         \/ DrainCalls(n) \/ Shutdown(n) \/ Crash(n) \/ LifeStep(n)
  PROVE  DeliveryInv'
<1> USE DEF relayVars, commandVars, nodeVars
<1>1. UNCHANGED <<status, delivered, todo>>
  BY DEF StartRelay, StopRelay, Tick, ProcessOutboxOnce, DrainCalls, Shutdown, Crash,
         LifeStep, BeginDrain, CloseBus, ProcessExits, Restart, Enter, Exit
<1>2. \A x \in Callers : <<n, x>> \in Polls
  BY PollPairs
<1>3. \A p \in Polls : rpc'[p] = "mark" => rpc[p] = "mark" /\ batch'[p] = batch[p]
  <2>1. CASE Crash(n) \/ ProcessExits(n)
    BY <2>1 DEF Crash, ProcessExits, Exit
  <2>2. CASE StartRelay(n) \/ StopRelay(n) \/ Shutdown(n) \/ CloseBus(n) \/ Restart(n)
    BY <2>2 DEF StartRelay, StopRelay, Shutdown, CloseBus, Restart
  <2>3. CASE Tick(n) \/ ProcessOutboxOnce(n)
    BY <1>2, <2>3 DEF Tick, ProcessOutboxOnce, Enter, Callers, DeliveryInv, OutboxTypeOK
  <2>4. CASE DrainCalls(n) \/ BeginDrain(n)
    BY <1>2, <2>4 DEF DrainCalls, BeginDrain, Enter, Callers, DeliveryInv, OutboxTypeOK
  <2> QED BY <2>1, <2>2, <2>3, <2>4 DEF LifeStep
<1>4. \A c \in Commands : cpc'[c] \in {"publish", "mark"} => cpc'[c] = cpc[c]
  BY DEF StartRelay, StopRelay, Tick, ProcessOutboxOnce, DrainCalls, Shutdown, Crash,
         LifeStep, BeginDrain, CloseBus, ProcessExits, Restart, Enter, Exit
<1> QED BY <1>1, <1>3, <1>4, MarkedQuiet, RelayQuiet, OwnerQuiet DEF DeliveryInv

\* With a broker's event bus, which rejects once it is closed, an entry is marked
\* published only if its event was handed to an open bus: whatever nodes crash or
\* shut down at whatever point, no committed event is lost to the relays.
THEOREM RelayNeverLosesAnEvent ==
  ASSUME ~InProcessBus
  PROVE  OutboxSpec => []MarkedWasDelivered
<1>1. OutboxInit => DeliveryInv
  BY OutboxInitType DEF OutboxInit, DeliveryInv, RelayMarksDelivered, OwnerMarksDelivered,
                        MarkedWasDelivered
<1>2. DeliveryInv /\ [OutboxNext]_outboxVars => DeliveryInv'
  <2> SUFFICES ASSUME DeliveryInv, [OutboxNext]_outboxVars PROVE DeliveryInv'
    OBVIOUS
  <2>1. OutboxTypeOK'
    BY OutboxNextType DEF DeliveryInv
  <2>2. CASE DeletePublished
    <3>1. UNCHANGED <<delivered, rpc, batch, cpc, todo>>
      BY <2>2 DEF DeletePublished, relayVars, commandVars
    <3>2. MarkedWasDelivered'
      BY <2>2 DEF DeletePublished, DeliveryInv, OutboxTypeOK, MarkedWasDelivered
    <3> QED BY <2>1, <3>1, <3>2, RelayQuiet, OwnerQuiet DEF DeliveryInv
  <2>3. CASE UNCHANGED outboxVars
    <3>1. UNCHANGED <<status, delivered, rpc, batch, cpc, todo>>
      BY <2>3 DEF outboxVars, relayVars, commandVars
    <3> QED BY <2>1, <3>1, MarkedQuiet, RelayQuiet, OwnerQuiet DEF DeliveryInv
  <2> QED BY <2>1, <2>2, <2>3, CommandDelivery, PollDelivery, NodeDelivery DEF OutboxNext
<1>3. DeliveryInv => MarkedWasDelivered
  BY DEF DeliveryInv
<1> QED BY <1>1, <1>2, <1>3, PTL DEF OutboxSpec
=============================================================================
