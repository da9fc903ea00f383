------------------------ MODULE SharedDatabaseProofs ------------------------
(***************************************************************************)
(* Proofs about SharedDatabase, for any clients, processes, keys, names of *)
(* locks, workloads and bounds.                                            *)
(*                                                                         *)
(* First the advisory locks: LockInv relates the mutex of each process,    *)
(* the statements on its connection and the locks of the database.  Then   *)
(* the rows: the idempotency records, what a transaction holds of the      *)
(* outbox, and the outbox entries of what is committed.                    *)
(***************************************************************************)
EXTENDS SharedDatabase, SequenceTheorems, FiniteSetTheorems, TLAPS

\* The calls that have the mutex of their process, and those that have the lock
\* of the database.
Active(c) == acq[c] \in {"asking", "polling", "held", "releasing"}
Holding(c) == acq[c] \in {"held", "releasing"}
Holders(p, n) == {c \in Clients : ProcessOf[c] = p /\ NameOf(c) = n /\ Holding(c)}

Entries == [call : Clients, op : {"lock", "try", "unlock"}]

LockTypes ==
  /\ wants \in [Clients -> LockKeys]
  /\ locker \in Lockers
  /\ mutex \in [Processes -> SUBSET LockKeys]
  /\ queue \in [Processes -> Seq(Entries)]
  /\ owner \in [Names -> [by : SUBSET Processes, count : Nat]]
  /\ acq \in [Clients -> AcqStages]
  /\ losses \in Seq(Processes)
  /\ \A p \in Processes : ~up[p] => p \in ToSet(losses)

\* At most one call of a process has a key, and the mutex says so.
MutexOK ==
  /\ \A c \in Clients : Active(c) => wants[c] \in mutex[ProcessOf[c]]
  /\ \A c, d \in Clients :
       Active(c) /\ Active(d) /\ ProcessOf[c] = ProcessOf[d] /\ wants[c] = wants[d] => c = d

\* The statements on a connection are those its calls wait for.
EntryOK(p, i) ==
  /\ ProcessOf[queue[p][i].call] = p
  /\ acq[queue[p][i].call] = IF queue[p][i].op = "unlock" THEN "releasing" ELSE "asking"
QueuesOK ==
  /\ \A p \in Processes : \A i \in 1 .. Len(queue[p]) : EntryOK(p, i)
  /\ \A p \in Processes : \A i, j \in 1 .. Len(queue[p]) :
       queue[p][i].call = queue[p][j].call => i = j

\* A lock of the database is taken by nobody, or by one session.
OwnerOK(n) ==
  \/ owner[n].by = {} /\ owner[n].count = 0
  \/ \E p \in Processes : owner[n].by = {p} /\ owner[n].count # 0

\* A session that was never lost has a lock as often as calls of its process hold it.
CountOK(p, n) ==
  Cardinality(Holders(p, n)) = IF owner[n].by = {p} THEN owner[n].count ELSE 0

LockInv ==
  /\ LockTypes /\ MutexOK /\ QueuesOK
  /\ \A n \in Names : OwnerOK(n)
  /\ \A p \in Processes \ ToSet(losses), n \in Names : CountOK(p, n)
-----------------------------------------------------------------------------
\* The process and the lock name of a call.
LEMMA CallTypes ==
  ASSUME LockTypes, NEW c \in Clients
  PROVE  ProcessOf[c] \in Processes /\ NameOf(c) \in Names
  BY DEF LockTypes, Processes, Names, NameOf, Lockers

\* The holders of a lock are finitely many.
LEMMA HoldersFinite ==
  ASSUME NEW p, NEW n PROVE IsFiniteSet(Holders(p, n))
  BY ClientsAssumption, FS_Subset DEF Holders

\* Whatever is on a connection is a statement of a call.
LEMMA EntryTypes ==
  ASSUME LockTypes, NEW p \in Processes, NEW i \in 1 .. Len(queue[p])
  PROVE  queue[p][i] \in Entries /\ queue[p][i].call \in Clients
  <1>1. queue[p] \in Seq(Entries) BY DEF LockTypes
  <1>2. queue[p][i] \in Entries BY <1>1
  <1> QED BY <1>2 DEF Entries

\* A statement at the head of a connection, and what is left behind it.
LEMMA HeadOfQueue ==
  ASSUME LockTypes, QueuesOK, NEW p \in Processes, queue[p] # << >>
  PROVE  /\ Head(queue[p]) \in Entries
         /\ ProcessOf[Head(queue[p]).call] = p
         /\ acq[Head(queue[p]).call] =
              IF Head(queue[p]).op = "unlock" THEN "releasing" ELSE "asking"
         /\ Tail(queue[p]) \in Seq(Entries)
         /\ Len(Tail(queue[p])) = Len(queue[p]) - 1
         /\ \A i \in 1 .. Len(Tail(queue[p])) :
              /\ Tail(queue[p])[i] = queue[p][i + 1]
              /\ i + 1 \in 1 .. Len(queue[p])
              /\ queue[p][i + 1].call # Head(queue[p]).call
  <1>1. queue[p] \in Seq(Entries) BY DEF LockTypes
  <1>2. Len(queue[p]) \in Nat \ {0} /\ 1 \in 1 .. Len(queue[p])
        /\ Head(queue[p]) = queue[p][1]
    BY <1>1
  <1>3. EntryOK(p, 1) BY <1>2 DEF QueuesOK
  <1>4. /\ Tail(queue[p]) \in Seq(Entries)
        /\ Len(Tail(queue[p])) = Len(queue[p]) - 1
        /\ \A i \in 1 .. Len(Tail(queue[p])) :
             Tail(queue[p])[i] = queue[p][i + 1] /\ i + 1 \in 1 .. Len(queue[p])
    BY <1>1, <1>2
  <1>5. \A i \in 1 .. Len(Tail(queue[p])) : queue[p][i + 1].call # Head(queue[p]).call
    BY <1>2, <1>4 DEF QueuesOK
  <1> QED BY <1>1, <1>2, <1>3, <1>4, <1>5 DEF EntryOK

\* The queues after the head statement is gone and its call has moved on.
LEMMA QueuesAfterHead ==
  ASSUME LockTypes, QueuesOK, NEW p \in Processes, queue[p] # << >>, Dequeue(p),
         NEW stage \in AcqStages, acq' = [acq EXCEPT ![Head(queue[p]).call] = stage]
  PROVE  queue' \in [Processes -> Seq(Entries)] /\ acq' \in [Clients -> AcqStages] /\ QueuesOK'
  <1> DEFINE c == Head(queue[p]).call
  <1>1. c \in Clients /\ ProcessOf[c] = p BY HeadOfQueue DEF Entries
  <1>2. queue' \in [Processes -> Seq(Entries)] /\ acq' \in [Clients -> AcqStages]
    BY HeadOfQueue DEF LockTypes, Dequeue
  <1>3. ASSUME NEW q \in Processes, NEW i \in 1 .. Len(queue'[q])
        PROVE  \E j \in 1 .. Len(queue[q]) :
                 queue'[q][i] = queue[q][j] /\ queue[q][j].call # c /\ (q = p => j = i + 1)
                 /\ (q # p => j = i)
    <2>1. CASE q = p
      <3>1. queue'[q] = Tail(queue[p]) BY <2>1 DEF Dequeue, LockTypes
      <3> QED BY <3>1, <2>1, HeadOfQueue
    <2>2. CASE q # p
      <3>1. queue'[q] = queue[q] BY <2>2 DEF Dequeue, LockTypes
      <3>2. EntryOK(q, i) BY <3>1 DEF QueuesOK
      <3>3. queue[q][i].call # c BY <3>2, <1>1, <2>2 DEF EntryOK
      <3> QED BY <3>1, <3>3, <2>2
    <2> QED BY <2>1, <2>2
  <1>4. ASSUME NEW q \in Processes, NEW i \in 1 .. Len(queue'[q])
        PROVE  EntryOK(q, i)'
    <2>1. PICK j \in 1 .. Len(queue[q]) : queue'[q][i] = queue[q][j] /\ queue[q][j].call # c
      BY <1>3
    <2>2. EntryOK(q, j) BY DEF QueuesOK
    <2>3. queue[q][j].call \in Clients BY EntryTypes
    <2>4. acq'[queue[q][j].call] = acq[queue[q][j].call] BY <2>1, <2>3 DEF LockTypes
    <2> QED BY <2>1, <2>2, <2>4 DEF EntryOK
  <1>5. ASSUME NEW q \in Processes, NEW i \in 1 .. Len(queue'[q]), NEW j \in 1 .. Len(queue'[q]),
               queue'[q][i].call = queue'[q][j].call
        PROVE  i = j
    <2>1. PICK a \in 1 .. Len(queue[q]) : queue'[q][i] = queue[q][a]
                 /\ (q = p => a = i + 1) /\ (q # p => a = i) BY <1>3
    <2>2. PICK b \in 1 .. Len(queue[q]) : queue'[q][j] = queue[q][b]
                 /\ (q = p => b = j + 1) /\ (q # p => b = j) BY <1>3
    <2>3. a = b BY <2>1, <2>2, <1>5 DEF QueuesOK
    <2>4. queue'[q] \in Seq(Entries) BY <1>2
    <2> QED BY <2>1, <2>2, <2>3, <2>4
  <1> QED BY <1>2, <1>4, <1>5 DEF QueuesOK

\* The queues after a call that had nothing under way submits a statement.
LEMMA QueuesAfterSubmit ==
  ASSUME LockTypes, QueuesOK, NEW c \in Clients, acq[c] \notin {"asking", "releasing"},
         NEW op \in {"lock", "try", "unlock"}, Submit(c, op),
         acq' = [acq EXCEPT ![c] = IF op = "unlock" THEN "releasing" ELSE "asking"]
  PROVE  queue' \in [Processes -> Seq(Entries)] /\ acq' \in [Clients -> AcqStages] /\ QueuesOK'
  <1> DEFINE p == ProcessOf[c]
             e == [call |-> c, op |-> op]
  <1>1. p \in Processes /\ e \in Entries BY CallTypes DEF Entries
  <1>2. queue[p] \in Seq(Entries) BY <1>1 DEF LockTypes
  <1>3. queue'[p] = Append(queue[p], e) /\ Len(queue'[p]) = Len(queue[p]) + 1
        /\ Len(queue[p]) \in Nat /\ queue'[p][Len(queue[p]) + 1] = e
        /\ \A i \in 1 .. Len(queue[p]) : queue'[p][i] = queue[p][i]
    BY <1>1, <1>2 DEF Submit, LockTypes
  <1>4. queue' \in [Processes -> Seq(Entries)]
    BY <1>1, <1>2 DEF Submit, LockTypes
  <1>5. acq' \in [Clients -> AcqStages] BY DEF LockTypes, AcqStages
  <1>6. \A q \in Processes : q # p => queue'[q] = queue[q] BY DEF Submit, LockTypes
  <1>7. \A q \in Processes : \A i \in 1 .. Len(queue[q]) : queue[q][i].call # c
    BY DEF QueuesOK, EntryOK
  <1>8. ASSUME NEW q \in Processes, NEW i \in 1 .. Len(queue'[q])
        PROVE  \/ i \in 1 .. Len(queue[q]) /\ queue'[q][i] = queue[q][i]
               \/ q = p /\ i = Len(queue[p]) + 1 /\ queue'[q][i] = e
    <2>1. CASE q = p BY <2>1, <1>3
    <2>2. CASE q # p BY <2>2, <1>6
    <2> QED BY <2>1, <2>2
  <1>9. ASSUME NEW q \in Processes, NEW i \in 1 .. Len(queue'[q])
        PROVE  EntryOK(q, i)'
    <2>1. CASE i \in 1 .. Len(queue[q]) /\ queue'[q][i] = queue[q][i]
      <3>1. EntryOK(q, i) BY <2>1 DEF QueuesOK
      <3>2. queue[q][i].call \in Clients BY <2>1, EntryTypes
      <3>3. acq'[queue[q][i].call] = acq[queue[q][i].call] BY <2>1, <3>2, <1>7 DEF LockTypes
      <3> QED BY <2>1, <3>1, <3>3 DEF EntryOK
    <2>2. CASE q = p /\ i = Len(queue[p]) + 1 /\ queue'[q][i] = e
      BY <2>2 DEF EntryOK, LockTypes
    <2> QED BY <2>1, <2>2, <1>8
  <1>10. ASSUME NEW q \in Processes, NEW i \in 1 .. Len(queue'[q]), NEW j \in 1 .. Len(queue'[q]),
                queue'[q][i].call = queue'[q][j].call
         PROVE  i = j
    BY <1>7, <1>8, <1>10 DEF QueuesOK
  <1> QED BY <1>4, <1>5, <1>9, <1>10 DEF QueuesOK
-----------------------------------------------------------------------------
\* A call moves on with the mutex it has.
LEMMA MutexKept ==
  ASSUME LockTypes, MutexOK, UNCHANGED <<wants, mutex>>, NEW c \in Clients, Active(c),
         NEW stage \in AcqStages, acq' = [acq EXCEPT ![c] = stage]
  PROVE  MutexOK'
  <1>1. \A d \in Clients : Active(d)' => Active(d) BY DEF LockTypes, Active
  <1> QED BY <1>1 DEF MutexOK

\* A call ends and releases the mutex.
LEMMA MutexReturned ==
  ASSUME LockTypes, MutexOK, UNCHANGED wants, NEW c \in Clients, Active(c), Unlock(c),
         NEW stage \in {"released", "releaseFailed", "rejected"},
         acq' = [acq EXCEPT ![c] = stage]
  PROVE  MutexOK' /\ mutex' \in [Processes -> SUBSET LockKeys]
  <1>1. \A d \in Clients : Active(d)' => Active(d) /\ d # c BY DEF LockTypes, Active
  <1>2. mutex' \in [Processes -> SUBSET LockKeys] BY DEF LockTypes, Unlock
  <1>3. ASSUME NEW d \in Clients, Active(d)' PROVE wants[d] \in mutex'[ProcessOf[d]]
    <2>1. ProcessOf[d] \in Processes BY CallTypes
    <2>2. wants[d] \in mutex[ProcessOf[d]] BY <1>1, <1>3 DEF MutexOK
    <2>3. ProcessOf[d] = ProcessOf[c] => wants[d] # wants[c] BY <1>1, <1>3 DEF MutexOK
    <2> QED BY <2>1, <2>2, <2>3 DEF Unlock, LockTypes
  <1> QED BY <1>1, <1>2, <1>3 DEF MutexOK

\* The holders of every lock are the same as long as no call begins or ends holding.
LEMMA HoldersSame ==
  ASSUME UNCHANGED <<wants, locker>>, \A d \in Clients : Holding(d)' <=> Holding(d)
  PROVE  \A p, n : Holders(p, n)' = Holders(p, n)
  BY DEF Holders, NameOf

\* One call more holds its lock.
LEMMA HoldersGain ==
  ASSUME LockTypes, UNCHANGED <<wants, locker>>, NEW c \in Clients, ~Holding(c),
         acq' = [acq EXCEPT ![c] = "held"]
  PROVE  \A p, n :
           /\ p = ProcessOf[c] /\ n = NameOf(c) =>
                Cardinality(Holders(p, n)') = Cardinality(Holders(p, n)) + 1
           /\ ~(p = ProcessOf[c] /\ n = NameOf(c)) => Holders(p, n)' = Holders(p, n)
  <1>1. ASSUME NEW p, NEW n, p = ProcessOf[c], n = NameOf(c)
        PROVE  Cardinality(Holders(p, n)') = Cardinality(Holders(p, n)) + 1
    <2>1. Holders(p, n)' = Holders(p, n) \cup {c} /\ c \notin Holders(p, n)
      BY <1>1 DEF Holders, NameOf, Holding, LockTypes
    <2> QED BY <2>1, HoldersFinite, FS_AddElement
  <1>2. ASSUME NEW p, NEW n, ~(p = ProcessOf[c] /\ n = NameOf(c))
        PROVE  Holders(p, n)' = Holders(p, n)
    BY <1>2 DEF Holders, NameOf, Holding, LockTypes
  <1> QED BY <1>1, <1>2

\* One call less holds its lock.
LEMMA HoldersLose ==
  ASSUME LockTypes, UNCHANGED <<wants, locker>>, NEW c \in Clients, Holding(c),
         NEW stage \in {"released", "releaseFailed"}, acq' = [acq EXCEPT ![c] = stage]
  PROVE  \A p, n :
           /\ p = ProcessOf[c] /\ n = NameOf(c) =>
                Cardinality(Holders(p, n)') = Cardinality(Holders(p, n)) - 1
           /\ ~(p = ProcessOf[c] /\ n = NameOf(c)) => Holders(p, n)' = Holders(p, n)
  <1>1. ASSUME NEW p, NEW n, p = ProcessOf[c], n = NameOf(c)
        PROVE  Cardinality(Holders(p, n)') = Cardinality(Holders(p, n)) - 1
    <2>1. Holders(p, n)' = Holders(p, n) \ {c} /\ c \in Holders(p, n)
      BY <1>1 DEF Holders, NameOf, Holding, LockTypes
    <2> QED BY <2>1, HoldersFinite, FS_RemoveElement
  <1>2. ASSUME NEW p, NEW n, ~(p = ProcessOf[c] /\ n = NameOf(c))
        PROVE  Holders(p, n)' = Holders(p, n)
    BY <1>2 DEF Holders, NameOf, Holding, LockTypes
  <1> QED BY <1>1, <1>2

\* The counts stay right when neither the holders nor the owners change.
LEMMA CountsSame ==
  ASSUME LockInv, UNCHANGED <<wants, locker, owner, losses>>,
         \A d \in Clients : Holding(d)' <=> Holding(d)
  PROVE  /\ \A n \in Names : OwnerOK(n)'
         /\ \A p \in Processes \ ToSet(losses'), n \in Names : CountOK(p, n)'
  <1>1. \A p, n : Holders(p, n)' = Holders(p, n) BY HoldersSame
  <1> QED BY <1>1 DEF LockInv, OwnerOK, CountOK
-----------------------------------------------------------------------------
\* acquire() takes the mutex and submits a statement.
LEMMA AcquireKeepsLocks ==
  ASSUME LockInv, NEW c \in Clients, Acquire(c) PROVE LockInv'
  <1> USE DEF Acquire
  <1>1. PICK op \in {"lock", "try"} : Submit(c, op)
    <2>1. (IF Polls THEN "try" ELSE "lock") \in {"lock", "try"} OBVIOUS
    <2> QED BY <2>1
  <1>2. acq' = [acq EXCEPT ![c] = IF op = "unlock" THEN "releasing" ELSE "asking"] BY <1>1
  <1>3. queue' \in [Processes -> Seq(Entries)] /\ acq' \in [Clients -> AcqStages] /\ QueuesOK'
    BY <1>1, <1>2, QueuesAfterSubmit DEF LockInv
  <1>4. ProcessOf[c] \in Processes /\ wants[c] \in LockKeys BY CallTypes DEF LockInv, LockTypes
  <1>5. mutex' \in [Processes -> SUBSET LockKeys] BY <1>4 DEF LockInv, LockTypes
  <1>6. LockTypes' BY <1>3, <1>5 DEF LockInv, LockTypes
  <1>7. \A d \in Clients : d # c => (Active(d)' <=> Active(d)) BY DEF LockInv, LockTypes, Active
  <1>8. MutexOK'
    <2>1. ASSUME NEW d \in Clients, Active(d)' PROVE wants[d] \in mutex'[ProcessOf[d]]
      <3>1. ProcessOf[d] \in Processes BY CallTypes DEF LockInv
      <3>2. d # c => wants[d] \in mutex[ProcessOf[d]] BY <2>1, <1>7 DEF LockInv, MutexOK
      <3> QED BY <3>1, <3>2, <1>4 DEF LockInv, LockTypes
    <2>2. ASSUME NEW d \in Clients, Active(d), ProcessOf[d] = ProcessOf[c] PROVE wants[d] # wants[c]
      BY <2>2 DEF LockInv, MutexOK
    <2> QED BY <2>1, <2>2, <1>7 DEF LockInv, MutexOK
  <1>9. \A d \in Clients : Holding(d)' <=> Holding(d) BY DEF LockInv, LockTypes, Holding
  <1> QED BY <1>3, <1>6, <1>8, <1>9, CountsSame DEF LockInv

\* A call polls again, or asks for the end of its lock.
LEMMA SubmitKeepsLocks ==
  ASSUME LockInv, NEW c \in Clients, PollAgain(c) \/ Release(c) PROVE LockInv'
  <1> USE DEF PollAgain, Release
  <1>1. PICK op \in {"try", "unlock"} :
          /\ Submit(c, op)
          /\ acq' = [acq EXCEPT ![c] = IF op = "unlock" THEN "releasing" ELSE "asking"]
          /\ op = "unlock" => acq[c] = "held"
          /\ op = "try" => acq[c] = "polling"
    <2>1. CASE PollAgain(c)
      <3>1. Submit(c, "try") /\ acq' = [acq EXCEPT ![c] = IF "try" = "unlock" THEN "releasing" ELSE "asking"]
        BY <2>1
      <3> QED BY <3>1, <2>1
    <2>2. CASE Release(c)
      <3>1. Submit(c, "unlock") /\ acq' = [acq EXCEPT ![c] = IF "unlock" = "unlock" THEN "releasing" ELSE "asking"]
        BY <2>2
      <3> QED BY <3>1, <2>2
    <2> QED BY <2>1, <2>2
  <1>2. UNCHANGED <<wants, locker, mutex, up, owner, believed, losses>> OBVIOUS
  <1>3. queue' \in [Processes -> Seq(Entries)] /\ acq' \in [Clients -> AcqStages] /\ QueuesOK'
    BY <1>1, QueuesAfterSubmit DEF LockInv
  <1>4. LockTypes' BY <1>2, <1>3 DEF LockInv, LockTypes
  <1>5. MutexOK'
    <2>1. PICK stage \in AcqStages : acq' = [acq EXCEPT ![c] = stage] BY <1>1 DEF AcqStages
    <2>2. Active(c) BY <1>1 DEF Active
    <2> QED BY <2>1, <2>2, <1>2, MutexKept DEF LockInv
  <1>6. \A d \in Clients : Holding(d)' <=> Holding(d)
    BY <1>1 DEF LockInv, LockTypes, Holding
  <1> QED BY <1>2, <1>3, <1>4, <1>5, <1>6, CountsSame DEF LockInv

\* The deadline of a poll passes.
LEMMA DeadlineKeepsLocks ==
  ASSUME LockInv, NEW c \in Clients, DeadlinePassed(c) PROVE LockInv'
  <1> USE DEF DeadlinePassed
  <1>1. acq' \in [Clients -> AcqStages] BY DEF LockInv, LockTypes, AcqStages
  <1>2. MutexOK' /\ mutex' \in [Processes -> SUBSET LockKeys]
    BY MutexReturned DEF LockInv, Active
  <1>3. LockTypes' BY <1>1, <1>2 DEF LockInv, LockTypes
  <1>4. QueuesOK'
    <2>1. ASSUME NEW p \in Processes, NEW i \in 1 .. Len(queue[p]) PROVE EntryOK(p, i)'
      <3>1. EntryOK(p, i) BY DEF LockInv, QueuesOK
      <3>2. queue[p][i].call \in Clients BY EntryTypes DEF LockInv
      <3>3. queue[p][i].call # c BY <3>1 DEF EntryOK
      <3> QED BY <3>1, <3>2, <3>3 DEF EntryOK, LockInv, LockTypes
    <2> QED BY <2>1 DEF LockInv, QueuesOK
  <1>5. \A d \in Clients : Holding(d)' <=> Holding(d) BY DEF LockInv, LockTypes, Holding
  <1> QED BY <1>2, <1>3, <1>4, <1>5, CountsSame DEF LockInv
-----------------------------------------------------------------------------
\* The database grants the lock that the head statement asks for.
LEMMA GrantKeepsLocks ==
  ASSUME LockInv, NEW p \in Processes, Granted(p) PROVE LockInv'
  <1> DEFINE c == Head(queue[p]).call
             m == NameOf(c)
  <1> USE DEF Granted
  <1>1. LockTypes /\ QueuesOK /\ queue[p] # << >> /\ Head(queue[p]).op # "unlock"
    BY DEF LockInv, Running
  <1>2. c \in Clients /\ ProcessOf[c] = p /\ acq[c] = "asking"
    BY <1>1, HeadOfQueue DEF Entries
  <1>3. m \in Names BY <1>1, <1>2, CallTypes
  <1>4. /\ owner[m].by \subseteq {p}
        /\ owner' = [owner EXCEPT ![m] = [by |-> {p}, count |-> @.count + 1]]
        /\ acq' = [acq EXCEPT ![c] = "held"]
        /\ UNCHANGED <<wants, locker, mutex, losses>>
    BY <1>2 DEF Grantable
  <1>5. queue' \in [Processes -> Seq(Entries)] /\ acq' \in [Clients -> AcqStages] /\ QueuesOK'
    <2>1. "held" \in AcqStages BY DEF AcqStages
    <2> QED BY <1>1, <1>4, <2>1, QueuesAfterHead
  <1>6. /\ owner' \in [Names -> [by : SUBSET Processes, count : Nat]]
        /\ owner'[m].by = {p} /\ owner'[m].count = owner[m].count + 1
        /\ \A n \in Names : n # m => owner'[n] = owner[n]
    BY <1>1, <1>3, <1>4 DEF LockTypes
  <1>7. LockTypes' BY <1>1, <1>4, <1>5, <1>6 DEF LockTypes
  <1>8. MutexOK'
    <2>1. "held" \in AcqStages BY DEF AcqStages
    <2> QED BY <1>2, <1>4, <2>1, MutexKept DEF LockInv, Active
  <1>9. owner[m].count \in Nat BY <1>1, <1>3 DEF LockTypes
  <1>10. \A n \in Names : OwnerOK(n)'
    BY <1>6, <1>9 DEF LockInv, OwnerOK
  <1>11. ASSUME NEW q \in Processes \ ToSet(losses'), NEW n \in Names PROVE CountOK(q, n)'
    <2>1. CountOK(q, n) BY <1>4 DEF LockInv
    <2>2. /\ q = p /\ n = m => Cardinality(Holders(q, n)') = Cardinality(Holders(q, n)) + 1
          /\ ~(q = p /\ n = m) => Holders(q, n)' = Holders(q, n)
      <3>1. ~Holding(c) BY <1>2 DEF Holding
      <3>2. UNCHANGED <<wants, locker>> BY <1>4
      <3>3. acq' = [acq EXCEPT ![c] = "held"] BY <1>4
      <3> HIDE DEF Granted, c
      <3>4. \A r, k :
              /\ r = ProcessOf[c] /\ k = NameOf(c) =>
                   Cardinality(Holders(r, k)') = Cardinality(Holders(r, k)) + 1
              /\ ~(r = ProcessOf[c] /\ k = NameOf(c)) => Holders(r, k)' = Holders(r, k)
        BY <1>1, <1>2, <3>1, <3>2, <3>3, HoldersGain
      <3> QED BY <3>4, <1>2
    <2>3. CASE n # m BY <2>1, <2>2, <2>3, <1>6 DEF CountOK
    <2>4. CASE n = m /\ q # p
      <3>1. owner[m].by # {q} /\ owner'[m].by # {q} BY <1>4, <1>6, <2>4
      <3> QED BY <2>1, <2>2, <2>4, <3>1 DEF CountOK
    <2>5. CASE n = m /\ q = p
      <3>1. owner[m].by = {p} \/ (owner[m].by = {} /\ owner[m].count = 0)
        BY <1>3, <1>4 DEF LockInv, OwnerOK
      <3>2. Cardinality(Holders(q, n)) = owner[m].count
        BY <2>1, <2>5, <3>1, <1>9 DEF CountOK
      <3> QED BY <2>2, <2>5, <3>2, <1>6 DEF CountOK
    <2> QED BY <2>3, <2>4, <2>5
  <1> QED BY <1>5, <1>7, <1>8, <1>10, <1>11 DEF LockInv

\* A try comes back without the lock.
LEMMA TryKeepsLocks ==
  ASSUME LockInv, NEW p \in Processes, TryFails(p) PROVE LockInv'
  <1> DEFINE c == Head(queue[p]).call
  <1> USE DEF TryFails
  <1>1. LockTypes /\ QueuesOK /\ queue[p] # << >> /\ Head(queue[p]).op # "unlock"
    BY DEF LockInv, Running
  <1>2. c \in Clients /\ ProcessOf[c] = p /\ acq[c] = "asking"
    BY <1>1, HeadOfQueue DEF Entries
  <1>3. "polling" \in AcqStages BY DEF AcqStages
  <1>4. queue' \in [Processes -> Seq(Entries)] /\ acq' \in [Clients -> AcqStages] /\ QueuesOK'
    BY <1>1, <1>3, QueuesAfterHead
  <1>5. LockTypes' BY <1>1, <1>4 DEF LockTypes
  <1>6. MutexOK' BY <1>2, <1>3, MutexKept DEF LockInv, Active
  <1>7. \A d \in Clients : Holding(d)' <=> Holding(d) BY <1>1, <1>2 DEF LockTypes, Holding
  <1> QED BY <1>4, <1>5, <1>6, <1>7, CountsSame DEF LockInv

\* A statement that asks for a lock fails.
LEMMA RejectKeepsLocks ==
  ASSUME LockInv, NEW p \in Processes, queue[p] # << >>, Head(queue[p]).op # "unlock", RejectHead(p)
  PROVE  LockInv'
  <1> DEFINE c == Head(queue[p]).call
  <1> USE DEF RejectHead
  <1>1. LockTypes /\ QueuesOK BY DEF LockInv
  <1>2. c \in Clients /\ ProcessOf[c] = p /\ acq[c] = "asking"
    BY <1>1, HeadOfQueue DEF Entries
  <1>3. "rejected" \in AcqStages BY DEF AcqStages
  <1>4. queue' \in [Processes -> Seq(Entries)] /\ acq' \in [Clients -> AcqStages] /\ QueuesOK'
    BY <1>1, <1>3, QueuesAfterHead
  <1>5. MutexOK' /\ mutex' \in [Processes -> SUBSET LockKeys]
    BY <1>2, MutexReturned DEF LockInv, Active
  <1>6. LockTypes' BY <1>1, <1>4, <1>5 DEF LockTypes
  <1>7. \A d \in Clients : Holding(d)' <=> Holding(d) BY <1>1, <1>2 DEF LockTypes, Holding
  <1> QED BY <1>4, <1>5, <1>6, <1>7, CountsSame DEF LockInv

\* release() ends, with the lock of the database given back if the session had it.
LEMMA ReleaseKeepsLocks ==
  ASSUME LockInv, NEW p \in Processes, queue[p] # << >>, Head(queue[p]).op = "unlock",
         NEW stage \in {"released", "releaseFailed"}, ReleaseEnds(p, stage),
         LET m == NameOf(Head(queue[p]).call)
         IN  \/ /\ p \in owner[m].by
                /\ owner' = [owner EXCEPT ![m] =
                     IF @.count = 1 THEN [by |-> Nobody, count |-> 0]
                     ELSE [by |-> @.by, count |-> @.count - 1]]
             \/ p \notin owner[m].by /\ UNCHANGED owner
             \/ p \in ToSet(losses) /\ UNCHANGED owner
  PROVE  LockInv'
  <1> DEFINE c == Head(queue[p]).call
             m == NameOf(c)
  <1> USE DEF ReleaseEnds
  <1>1. LockTypes /\ QueuesOK BY DEF LockInv
  <1>2. c \in Clients /\ ProcessOf[c] = p /\ acq[c] = "releasing"
    BY <1>1, HeadOfQueue DEF Entries
  <1>3. stage \in AcqStages BY DEF AcqStages
  <1>4. queue' \in [Processes -> Seq(Entries)] /\ acq' \in [Clients -> AcqStages] /\ QueuesOK'
    BY <1>1, <1>3, QueuesAfterHead
  <1>5. MutexOK' /\ mutex' \in [Processes -> SUBSET LockKeys]
    BY <1>2, MutexReturned DEF LockInv, Active
  <1>6. m \in Names /\ owner[m] \in [by : SUBSET Processes, count : Nat] /\ OwnerOK(m)
    BY <1>1, <1>2, CallTypes DEF LockInv, LockTypes
  <1>7. ASSUME NEW q \in Processes \ ToSet(losses'), NEW n \in Names
        PROVE  /\ CountOK(q, n)
               /\ q = p /\ n = m => Cardinality(Holders(q, n)') = Cardinality(Holders(q, n)) - 1
               /\ ~(q = p /\ n = m) => Holders(q, n)' = Holders(q, n)
    BY <1>1, <1>2, HoldersLose DEF LockInv, Holding
  <1>8. CASE p \in owner[m].by /\ owner[m].count = 1
    <2>1. owner' = [owner EXCEPT ![m] = [by |-> {}, count |-> 0]]
          \/ (p \in ToSet(losses) /\ UNCHANGED owner)
      BY <1>8 DEF Nobody
    <2>2. CASE owner' = [owner EXCEPT ![m] = [by |-> {}, count |-> 0]]
      <3>1. /\ owner' \in [Names -> [by : SUBSET Processes, count : Nat]]
            /\ owner'[m].by = {} /\ owner'[m].count = 0
            /\ \A n \in Names : n # m => owner'[n] = owner[n]
        BY <2>2, <1>1, <1>6 DEF LockTypes
      <3>2. owner[m].by = {p} BY <1>6, <1>8 DEF OwnerOK
      <3>3. \A n \in Names : OwnerOK(n)' BY <3>1 DEF LockInv, OwnerOK
      <3>4. ASSUME NEW q \in Processes \ ToSet(losses'), NEW n \in Names PROVE CountOK(q, n)'
        <4>1. CASE n # m BY <4>1, <3>1, <1>7 DEF CountOK
        <4>2. CASE n = m /\ q # p
          <5>1. owner[n].by # {q} BY <4>2, <3>2
          <5> QED BY <4>2, <5>1, <3>1, <1>7 DEF CountOK
        <4>3. CASE n = m /\ q = p BY <4>3, <3>1, <3>2, <1>7, <1>8 DEF CountOK
        <4> QED BY <4>1, <4>2, <4>3
      <3>5. LockTypes' BY <1>1, <1>4, <1>5, <3>1 DEF LockTypes
      <3> QED BY <1>4, <1>5, <3>3, <3>4, <3>5 DEF LockInv
    <2>3. CASE p \in ToSet(losses) /\ UNCHANGED owner
      <3>1. LockTypes' BY <1>1, <1>4, <1>5, <2>3 DEF LockTypes
      <3>2. \A n \in Names : OwnerOK(n)' BY <2>3 DEF LockInv, OwnerOK
      <3>3. \A q \in Processes \ ToSet(losses'), n \in Names : CountOK(q, n)'
        BY <1>7, <2>3 DEF CountOK
      <3> QED BY <1>4, <1>5, <3>1, <3>2, <3>3 DEF LockInv
    <2> QED BY <2>1, <2>2, <2>3
  <1>9. CASE p \in owner[m].by /\ owner[m].count # 1
    <2>1. owner' = [owner EXCEPT ![m] = [by |-> @.by, count |-> @.count - 1]]
          \/ (p \in ToSet(losses) /\ UNCHANGED owner)
      BY <1>9
    <2>2. CASE owner' = [owner EXCEPT ![m] = [by |-> @.by, count |-> @.count - 1]]
      <3>1. owner[m].by = {p} /\ owner[m].count # 0 BY <1>6, <1>9 DEF OwnerOK
      <3>2. owner[m].count \in Nat /\ owner[m].count - 1 \in Nat \ {0} BY <1>6, <1>9, <3>1
      <3>3. owner'[m] = [by |-> owner[m].by, count |-> owner[m].count - 1] BY <2>2, <1>1, <1>6 DEF LockTypes
      <3>4. owner'[m].by = {p} /\ owner'[m].count = owner[m].count - 1
        BY <3>1, <3>3, <1>6
      <3>5. owner'[m] \in [by : SUBSET Processes, count : Nat] BY <3>2, <3>3, <1>6
      <3>6. /\ owner' \in [Names -> [by : SUBSET Processes, count : Nat]]
            /\ \A n \in Names : n # m => owner'[n] = owner[n]
        <4>1. DOMAIN owner' = Names BY <2>2, <1>1 DEF LockTypes
        <4>2. \A n \in Names : n # m => owner'[n] = owner[n] BY <2>2, <1>1 DEF LockTypes
        <4>3. \A n \in Names : owner'[n] \in [by : SUBSET Processes, count : Nat]
          BY <4>2, <3>5, <1>1 DEF LockTypes
        <4>4. owner' = [n \in Names |-> owner'[n]] BY <2>2, <1>1 DEF LockTypes
        <4> QED BY <4>1, <4>2, <4>3, <4>4
      <3>7. \A n \in Names : OwnerOK(n)' BY <3>2, <3>4, <3>6 DEF LockInv, OwnerOK
      <3>8. ASSUME NEW q \in Processes \ ToSet(losses'), NEW n \in Names PROVE CountOK(q, n)'
        <4>1. CASE n # m BY <4>1, <3>6, <1>7 DEF CountOK
        <4>2. CASE n = m /\ q # p BY <4>2, <3>1, <3>4, <1>7 DEF CountOK
        <4>3. CASE n = m /\ q = p BY <4>3, <3>1, <3>4, <1>7 DEF CountOK
        <4> QED BY <4>1, <4>2, <4>3
      <3>9. LockTypes' BY <1>1, <1>4, <1>5, <3>6 DEF LockTypes
      <3> QED BY <1>4, <1>5, <3>7, <3>8, <3>9 DEF LockInv
    <2>3. CASE p \in ToSet(losses) /\ UNCHANGED owner
      <3>1. LockTypes' BY <1>1, <1>4, <1>5, <2>3 DEF LockTypes
      <3>2. \A n \in Names : OwnerOK(n)' BY <2>3 DEF LockInv, OwnerOK
      <3>3. \A q \in Processes \ ToSet(losses'), n \in Names : CountOK(q, n)'
        BY <1>7, <2>3 DEF CountOK
      <3> QED BY <1>4, <1>5, <3>1, <3>2, <3>3 DEF LockInv
    <2> QED BY <2>1, <2>2, <2>3
  <1>10. CASE p \notin owner[m].by
    <2>1. UNCHANGED owner BY <1>10
    <2>2. LockTypes' BY <1>1, <1>4, <1>5, <2>1 DEF LockTypes
    <2>3. \A n \in Names : OwnerOK(n)' BY <2>1 DEF LockInv, OwnerOK
    <2>4. p \in ToSet(losses)
      <3>1. SUFFICES ASSUME p \notin ToSet(losses) PROVE FALSE OBVIOUS
      <3>2. CountOK(p, m) BY <3>1, <1>6 DEF LockInv
      <3>3. owner[m].by # {p} BY <1>10
      <3>4. Cardinality(Holders(p, m)) = 0 BY <3>2, <3>3 DEF CountOK
      <3>5. c \in Holders(p, m) BY <1>2 DEF Holders, Holding
      <3>6. IsFiniteSet(Holders(p, m)) BY HoldersFinite
      <3>7. Holders(p, m) = {} BY <3>4, <3>6, FS_EmptySet
      <3> QED BY <3>5, <3>7
    <2>5. \A q \in Processes \ ToSet(losses'), n \in Names : CountOK(q, n)'
      BY <1>7, <2>1, <2>4 DEF CountOK
    <2> QED BY <1>4, <1>5, <2>2, <2>3, <2>5 DEF LockInv
  <1> QED BY <1>8, <1>9, <1>10

\* Whatever the server does with the head statement of a connection.
LEMMA ServerKeepsLocks ==
  ASSUME LockInv, NEW p \in Processes, ServerStep(p) PROVE LockInv'
  <1>1. CASE Granted(p) BY <1>1, GrantKeepsLocks
  <1>2. CASE TryFails(p) BY <1>2, TryKeepsLocks
  <1>3. CASE LockTimesOut(p) \/ DeadlockVictim(p)
    BY <1>3, RejectKeepsLocks DEF LockTimesOut, DeadlockVictim, Waiting, Running
  <1>4. CASE Unlocked(p)
    <2>1. queue[p] # << >> /\ Head(queue[p]).op = "unlock" /\ ReleaseEnds(p, "released")
      BY <1>4 DEF Unlocked, Running
    <2>2. LET m == NameOf(Head(queue[p]).call)
          IN  /\ p \in owner[m].by
              /\ owner' = [owner EXCEPT ![m] =
                   IF @.count = 1 THEN [by |-> Nobody, count |-> 0]
                   ELSE [by |-> @.by, count |-> @.count - 1]]
      BY <1>4 DEF Unlocked
    <2> QED BY <2>1, <2>2, ReleaseKeepsLocks
  <1>5. CASE NotHeld(p)
    <2>1. PICK stage \in {"released", "releaseFailed"} : ReleaseEnds(p, stage)
      <3>1. (IF BelievedKey(Head(queue[p]).call) \in believed[p] THEN "releaseFailed" ELSE "released")
              \in {"released", "releaseFailed"}
        OBVIOUS
      <3> QED BY <3>1, <1>5 DEF NotHeld
    <2>2. /\ queue[p] # << >> /\ Head(queue[p]).op = "unlock"
          /\ p \notin owner[NameOf(Head(queue[p]).call)].by /\ UNCHANGED owner
      BY <1>5 DEF NotHeld, Running
    <2> QED BY <2>1, <2>2, ReleaseKeepsLocks
  <1>6. CASE StatementRejected(p)
    <2>1. queue[p] # << >> /\ p \in ToSet(losses)
      BY <1>6 DEF StatementRejected, LockInv, LockTypes
    <2>2. CASE Head(queue[p]).op # "unlock"
      <3>1. RejectHead(p) BY <1>6, <2>1, <2>2 DEF StatementRejected, Running
      <3> QED BY <2>1, <2>2, <3>1, RejectKeepsLocks
    <2>3. CASE Head(queue[p]).op = "unlock"
      <3>1. PICK stage \in {"released", "releaseFailed"} : ReleaseEnds(p, stage)
        <4>1. (IF locker.dialect = "mssql" THEN "released" ELSE "releaseFailed")
                \in {"released", "releaseFailed"}
          OBVIOUS
        <4> QED BY <4>1, <1>6, <2>1, <2>3 DEF StatementRejected, Running
      <3>2. UNCHANGED owner BY <1>6, <2>1, <2>3 DEF StatementRejected, Running
      <3> QED BY <2>1, <2>3, <3>1, <3>2, ReleaseKeepsLocks
    <2> QED BY <2>2, <2>3
  <1> QED BY <1>1, <1>2, <1>3, <1>4, <1>5, <1>6 DEF ServerStep

\* A session is lost with its locks, or a new one is opened.
LEMMA SessionKeepsLocks ==
  ASSUME LockInv, NEW p \in Processes, LoseSession(p) \/ Reconnect(p) PROVE LockInv'
  <1> DEFINE lost == [by |-> Nobody, count |-> 0]
  <1>1. /\ UNCHANGED <<wants, locker, mutex, queue, acq>>
        /\ losses' \in Seq(Processes) /\ ToSet(losses) \subseteq ToSet(losses')
        /\ owner' \in [Names -> [by : SUBSET Processes, count : Nat]]
        /\ \A q \in Processes : ~up'[q] => q \in ToSet(losses')
        /\ \A n \in Names :
             \/ owner'[n] = owner[n]
             \/ owner[n].by = {p} /\ owner'[n] = lost /\ p \in ToSet(losses')
    <2>1. CASE LoseSession(p)
      <3>1. losses' = Append(losses, p) /\ losses \in Seq(Processes)
        BY <2>1 DEF LoseSession, LockInv, LockTypes
      <3>2. losses' \in Seq(Processes) /\ ToSet(losses') = ToSet(losses) \cup {p}
        BY <3>1 DEF ToSet
      <3>3. \A q \in Processes : ~up'[q] => q \in ToSet(losses')
        <4>1. \A q \in Processes : q # p => up'[q] = up[q]
          BY <2>1 DEF LoseSession
        <4> QED BY <3>2, <4>1 DEF LockInv, LockTypes
      <3>4. owner' \in [Names -> [by : SUBSET Processes, count : Nat]]
        BY <2>1 DEF LoseSession, LockInv, LockTypes, Nobody
      <3> QED BY <2>1, <3>2, <3>3, <3>4 DEF LoseSession
    <2>2. CASE Reconnect(p)
      <3>1. \A q \in Processes : ~up'[q] => ~up[q]
        BY <2>2 DEF Reconnect
      <3> QED BY <2>2, <3>1 DEF Reconnect, LockInv, LockTypes
    <2> QED BY <2>1, <2>2
  <1>2. LockTypes' BY <1>1 DEF LockInv, LockTypes
  <1>3. MutexOK' BY <1>1 DEF LockInv, MutexOK, Active
  <1>4. QueuesOK' BY <1>1 DEF LockInv, QueuesOK, EntryOK
  <1>5. \A n \in Names : OwnerOK(n)' BY <1>1 DEF LockInv, OwnerOK, Nobody
  <1>6. ASSUME NEW q \in Processes \ ToSet(losses'), NEW n \in Names PROVE CountOK(q, n)'
    <2>1. CountOK(q, n) BY <1>1 DEF LockInv
    <2>2. Holders(q, n)' = Holders(q, n) BY <1>1 DEF Holders, NameOf, Holding
    <2>3. CASE owner'[n] = owner[n] BY <2>1, <2>2, <2>3 DEF CountOK
    <2>4. CASE owner[n].by = {p} /\ owner'[n] = lost /\ q # p
      BY <2>1, <2>2, <2>4 DEF CountOK, Nobody
    <2> QED BY <2>3, <2>4, <1>1
  <1> QED BY <1>2, <1>3, <1>4, <1>5, <1>6 DEF LockInv

\* Nobody has anything at first.
LEMMA LocksInit ==
  ASSUME LockersInit PROVE LockInv
  <1> USE DEF LockersInit
  <1>1. \A c \in Clients : acq[c] = "idle" OBVIOUS
  <1>2. LockTypes
    <2>1. acq \in [Clients -> AcqStages] BY DEF AcqStages
    <2>2. queue \in [Processes -> Seq(Entries)] OBVIOUS
    <2>3. owner \in [Names -> [by : SUBSET Processes, count : Nat]] BY DEF Nobody
    <2> QED BY <2>1, <2>2, <2>3 DEF LockTypes, ToSet
  <1>3. MutexOK BY <1>1 DEF MutexOK, Active
  <1>4. QueuesOK BY DEF QueuesOK
  <1>5. \A n \in Names : OwnerOK(n) BY DEF OwnerOK, Nobody
  <1>6. ASSUME NEW p, NEW n \in Names PROVE CountOK(p, n)
    <2>1. Holders(p, n) = {} BY <1>1 DEF Holders, Holding
    <2>2. Cardinality(Holders(p, n)) = 0 BY <2>1, FS_EmptySet
    <2>3. owner[n].by # {p} BY DEF Nobody
    <2> QED BY <2>2, <2>3 DEF CountOK
  <1> QED BY <1>2, <1>3, <1>4, <1>5, <1>6 DEF LockInv

\* The locks are right after every step.
LEMMA StepKeepsLocks ==
  ASSUME LockInv, [DatabaseNext]_databaseVars PROVE LockInv'
  <1>1. CASE UNCHANGED lockerVars
    BY <1>1 DEF lockerVars, LockInv, LockTypes, MutexOK, QueuesOK, OwnerOK, CountOK, EntryOK,
                Active, Holding, Holders, NameOf
  <1>2. ASSUME NEW c \in Clients, CommandStep(c) \/ OperationFails(c) \/ BackgroundStep(c)
        PROVE  UNCHANGED lockerVars
    BY <1>2 DEF CommandStep, LoadSnapshot, Load, Save, SaveOutbox, Commit, Rollback, FindSnapshot,
                SaveSnapshot, Publish, MarkByEventIds, OperationFails, BackgroundStep, RelayLoad,
                RelayPublish, RelayMark, RelayCleanup, ReadBegins, ReadPage, Check, DeleteExpired,
                Handle, MarkProcessed, Sweep
  <1>3. ASSUME NEW c \in Clients, LockStep(c) \/ AskAgain(c) PROVE LockInv'
    <2>1. CASE TakeLock(c) BY <2>1, AcquireKeepsLocks DEF TakeLock
    <2>2. CASE AskAgain(c) BY <2>2, SubmitKeepsLocks DEF AskAgain
    <2>3. CASE GiveUp(c) BY <2>3, DeadlineKeepsLocks DEF GiveUp
    <2>4. CASE DropLock(c) BY <2>4, SubmitKeepsLocks DEF DropLock
    <2>5. CASE LockRefused(c) \/ LockReturned(c) BY <2>5, <1>1 DEF LockRefused, LockReturned
    <2> QED BY <1>3, <2>1, <2>2, <2>3, <2>4, <2>5 DEF LockStep
  <1>4. ASSUME NEW p \in Processes, Server(p) \/ Session(p) PROVE LockInv'
    BY <1>4, ServerKeepsLocks, SessionKeepsLocks DEF Server, Session
  <1>5. CASE Tick BY <1>5, <1>1 DEF Tick
  <1>6. CASE UNCHANGED databaseVars BY <1>6, <1>1 DEF databaseVars
  <1> QED BY <1>1, <1>2, <1>3, <1>4, <1>5, <1>6 DEF DatabaseNext
-----------------------------------------------------------------------------
\* A locked command is between load and commit only while it holds its lock.
Critical == {"load", "save", "outbox", "commit", "rollback"}
RunsLocked ==
  /\ pc \in [Clients -> Stages]
  /\ \A c \in Clients : job[c].locked /\ pc[c] \in Critical => acq[c] = "held"
  /\ wants = [c \in Clients |-> job[c].key]

\* The steps that leave the locks alone.
LEMMA UnlockedSteps ==
  ASSUME LockInv, RunsLocked, NEW c \in Clients,
         CommandStep(c) \/ OperationFails(c) \/ BackgroundStep(c) \/ LockRefused(c) \/ LockReturned(c)
  PROVE  /\ UNCHANGED <<lockerVars, job>>
         /\ \E stage \in Stages :
              /\ pc' = [pc EXCEPT ![c] = stage]
              /\ stage \in Critical => pc[c] \in Critical \/ MayRun(c)
  <1> USE DEF Critical, Stages, At, Goto, Finish, lockerVars
  <1>1. CASE LoadSnapshot(c) \/ Load(c)
    BY <1>1 DEF LoadSnapshot, Load, RunsLocked
  <1>2. CASE Save(c) \/ SaveOutbox(c) \/ OperationFails(c)
    <2>1. UNCHANGED <<lockerVars, job>> /\ pc[c] \in Critical
      BY <1>2 DEF Save, SaveOutbox, OperationFails
    <2>2. \E stage \in {"outbox", "commit", "rollback"} : pc' = [pc EXCEPT ![c] = stage]
      <3>1. CASE Save(c)
        <4>1. (IF Saved(c).error = "none" THEN IF job[c].outbox THEN "outbox" ELSE "commit"
               ELSE "rollback") \in {"outbox", "commit", "rollback"}
          OBVIOUS
        <4> QED BY <3>1, <4>1 DEF Save, Operation
      <3>2. CASE SaveOutbox(c)
        <4>1. \A r : (IF r.error = "none" THEN "commit" ELSE "rollback")
                \in {"outbox", "commit", "rollback"}
          OBVIOUS
        <4> QED BY <3>2, <4>1 DEF SaveOutbox, Operation
      <3>3. CASE OperationFails(c) BY <3>3 DEF OperationFails, Operation, Raise
      <3> QED BY <1>2, <3>1, <3>2, <3>3
    <2> QED BY <2>1, <2>2
  <1>3. CASE Commit(c) \/ Rollback(c) \/ FindSnapshot(c) \/ SaveSnapshot(c)
    BY <1>3 DEF Commit, Rollback, FindSnapshot, SaveSnapshot, AfterCommit, RunsLocked
  <1>4. CASE Publish(c) \/ MarkByEventIds(c)
    BY <1>4 DEF Publish, MarkByEventIds, RunsLocked
  <1>5. CASE RelayLoad(c) \/ RelayPublish(c) \/ RelayMark(c) \/ RelayCleanup(c)
    BY <1>5 DEF RelayLoad, RelayPublish, RelayMark, RelayCleanup, RunsLocked
  <1>6. CASE ReadBegins(c) BY <1>6 DEF ReadBegins, RunsLocked
  <1>7. CASE ReadPage(c)
    <2>1. UNCHANGED <<lockerVars, job>> BY <1>7 DEF ReadPage
    <2>2. pc' = [pc EXCEPT ![c] = "done"] \/ pc' = pc BY <1>7 DEF ReadPage
    <2>3. pc[c] = "read" BY <1>7 DEF ReadPage
    <2>4. pc' = [pc EXCEPT ![c] = "done"] \/ pc' = [pc EXCEPT ![c] = "read"]
      BY <2>2, <2>3 DEF RunsLocked
    <2> QED BY <2>1, <2>4
  <1>8. CASE Check(c)
    <2>1. UNCHANGED <<lockerVars, job>> BY <1>8 DEF Check
    <2>2. \/ pc' = [pc EXCEPT ![c] = "handle"] \/ pc' = [pc EXCEPT ![c] = "expire"]
          \/ pc' = [pc EXCEPT ![c] = "done"]
      BY <1>8 DEF Check
    <2> QED BY <2>1, <2>2
  <1>9. CASE DeleteExpired(c) \/ Handle(c) \/ MarkProcessed(c) \/ Sweep(c)
    BY <1>9 DEF DeleteExpired, Handle, MarkProcessed, Sweep, RunsLocked
  <1>10. CASE LockRefused(c) BY <1>10 DEF LockRefused
  <1>11. CASE LockReturned(c)
    BY <1>11 DEF LockReturned, AfterCommit
  <1> QED BY <1>1, <1>2, <1>3, <1>4, <1>5, <1>6, <1>7, <1>8, <1>9, <1>10, <1>11
          DEF CommandStep, BackgroundStep

LEMMA StepRunsLocked ==
  ASSUME LockInv, RunsLocked, [DatabaseNext]_databaseVars PROVE RunsLocked'
  <1>1. ASSUME NEW c \in Clients,
               CommandStep(c) \/ OperationFails(c) \/ BackgroundStep(c) \/ LockRefused(c) \/ LockReturned(c)
        PROVE  RunsLocked'
    <2>1. UNCHANGED <<wants, acq, job>> BY <1>1, UnlockedSteps DEF lockerVars
    <2>2. PICK stage \in Stages :
            /\ pc' = [pc EXCEPT ![c] = stage]
            /\ stage \in Critical => pc[c] \in Critical \/ MayRun(c)
      BY <1>1, UnlockedSteps
    <2> QED BY <2>1, <2>2 DEF RunsLocked, MayRun
  <1>2. ASSUME UNCHANGED <<wants, job, pc>>, \A c \in Clients : acq[c] = "held" /\ pc[c] \in Critical => acq'[c] = "held"
        PROVE  RunsLocked'
    BY <1>2 DEF RunsLocked
  <1>3. ASSUME NEW c \in Clients, TakeLock(c) \/ AskAgain(c) \/ GiveUp(c) \/ DropLock(c)
        PROVE  RunsLocked'
    <2>1. UNCHANGED <<wants, job, pc>>
      BY <1>3 DEF TakeLock, AskAgain, GiveUp, DropLock, Acquire, PollAgain, DeadlinePassed, Release,
                  localVars
    <2>2. \E stage : acq' = [acq EXCEPT ![c] = stage]
      BY <1>3 DEF TakeLock, AskAgain, GiveUp, DropLock, Acquire, PollAgain, DeadlinePassed, Release
    <2>3. acq[c] # "held" \/ pc[c] = "unlock"
      BY <1>3 DEF TakeLock, AskAgain, GiveUp, DropLock, Acquire, PollAgain, DeadlinePassed, Release
    <2>4. \A d \in Clients : acq[d] = "held" /\ pc[d] \in Critical => acq'[d] = "held"
      BY <2>2, <2>3 DEF Critical, LockInv, LockTypes
    <2> QED BY <1>2, <2>1, <2>4
  <1>4. ASSUME NEW p \in Processes, Server(p) PROVE RunsLocked'
    <2>1. UNCHANGED <<wants, job, pc>>
      BY <1>4 DEF Server, ServerStep, localVars, Granted, TryFails, LockTimesOut, DeadlockVictim,
                  Unlocked, NotHeld, StatementRejected, RejectHead, ReleaseEnds
    <2>2. queue[p] # << >> /\ \E stage : acq' = [acq EXCEPT ![Head(queue[p]).call] = stage]
      BY <1>4 DEF Server, ServerStep, Granted, TryFails, LockTimesOut, DeadlockVictim, Waiting,
                  Unlocked, NotHeld, StatementRejected, RejectHead, ReleaseEnds, Running
    <2>3. acq[Head(queue[p]).call] # "held"
      BY <2>2, HeadOfQueue DEF LockInv
    <2>4. \A d \in Clients : acq[d] = "held" => acq'[d] = "held"
      BY <2>2, <2>3 DEF LockInv, LockTypes
    <2> QED BY <1>2, <2>1, <2>4
  <1>5. ASSUME NEW p \in Processes, Session(p), UNCHANGED <<dataVars, localVars>> PROVE RunsLocked'
    BY <1>2, <1>5 DEF Session, LoseSession, Reconnect, localVars
  <1>6. CASE Tick BY <1>2, <1>6 DEF Tick, lockerVars
  <1>7. CASE UNCHANGED databaseVars BY <1>2, <1>7 DEF databaseVars, lockerVars, localVars
  <1> QED BY <1>1, <1>3, <1>4, <1>5, <1>6, <1>7 DEF DatabaseNext, LockStep

\* Two calls of one lock in sessions that were never lost do not both hold it.
LEMMA HoldersExclude ==
  ASSUME LockInv, NEW c \in Clients, NEW d \in Clients, c # d, Holding(c), Holding(d),
         wants[c] = wants[d]
  PROVE  /\ ProcessOf[c] # ProcessOf[d]
         /\ ToSet(losses) \cap {ProcessOf[c], ProcessOf[d]} # {}
  <1>1. ProcessOf[c] # ProcessOf[d] BY DEF LockInv, MutexOK, Active, Holding
  <1>2. NameOf(c) = NameOf(d) BY DEF NameOf
  <1>3. ASSUME NEW e \in {c, d}, ProcessOf[e] \notin ToSet(losses)
        PROVE  owner[NameOf(c)].by = {ProcessOf[e]}
    <2>1. ProcessOf[e] \in Processes /\ NameOf(e) \in Names BY CallTypes DEF LockInv
    <2>2. CountOK(ProcessOf[e], NameOf(e)) BY <1>3, <2>1 DEF LockInv
    <2>3. e \in Holders(ProcessOf[e], NameOf(e)) BY DEF Holders
    <2>4. Cardinality(Holders(ProcessOf[e], NameOf(e))) # 0
      BY <2>3, HoldersFinite, FS_EmptySet
    <2> QED BY <2>2, <2>4, <1>2 DEF CountOK
  <1> QED BY <1>1, <1>3

\* Two commands under the advisory lock of one aggregate are never both between
\* load and commit, unless they run in different processes and one of them has
\* lost its session: the local mutex keeps calls of one process apart, since the
\* locks of the database are re-entrant, and the count of a lock that several
\* keys share by name does not reach zero while one of its calls goes on.
THEOREM DatabaseLockedRunsAlone == DatabaseSpec => []LockedRunsAlone
  <1>1. DatabaseInit => LockInv /\ RunsLocked
    <2>1. ASSUME DatabaseInit PROVE LockInv /\ RunsLocked
      <3>1. LockInv BY <2>1, LocksInit DEF DatabaseInit
      <3>2. pc \in [Clients -> Stages] BY <2>1 DEF DatabaseInit, Stages
      <3>3. \A c \in Clients : pc[c] \notin Critical BY <2>1 DEF DatabaseInit, Critical
      <3> QED BY <2>1, <3>1, <3>2, <3>3 DEF DatabaseInit, RunsLocked
    <2> QED BY <2>1
  <1>2. LockInv /\ RunsLocked /\ [DatabaseNext]_databaseVars => LockInv' /\ RunsLocked'
    BY StepKeepsLocks, StepRunsLocked
  <1>3. LockInv /\ RunsLocked => LockedRunsAlone
    <2>1. SUFFICES ASSUME LockInv, RunsLocked, NEW c \in Clients, NEW d \in Clients,
                          job[c].locked, job[d].locked, c # d, Key(c) = Key(d),
                          {pc[c], pc[d]} \subseteq {"load", "save", "outbox", "commit", "rollback"}
                   PROVE  /\ ProcessOf[c] # ProcessOf[d]
                          /\ ToSet(losses) \cap {ProcessOf[c], ProcessOf[d]} # {}
      BY DEF LockedRunsAlone
    <2>2. Holding(c) /\ Holding(d) BY <2>1 DEF RunsLocked, Critical, Holding
    <2>3. wants[c] = wants[d] BY <2>1 DEF Key
    <2> QED BY <2>1, <2>2, <2>3, HoldersExclude
  <1> QED BY <1>1, <1>2, <1>3, PTL DEF DatabaseSpec
-----------------------------------------------------------------------------
\* What a statement leaves of a row.
Same(pk) == (pk \in DOMAIN rows' <=> pk \in DOMAIN rows) /\ (pk \in DOMAIN rows => rows'[pk] = rows[pk])

\* A connection inside a transaction sees the transaction's rows over the committed ones.
LEMMA SeenRows ==
  ASSUME NEW c \in Clients PROVE Seen(c) = Over(own[c], rows)
  BY DEF Seen, By, D!getExecutor, P!getExecutor, T!getManager, D!Over, P!Over, T!Over, Over

\* What committing and rolling back do to the rows.
LEMMA SettledRows ==
  ASSUME NEW c \in Clients
  PROVE  /\ Settled(c, FALSE) => rows' = Over(own[c], rows) /\ own' = [own EXCEPT ![c] = << >>]
         /\ Settled(c, TRUE) => rows' = rows /\ own' = [own EXCEPT ![c] = << >>]
  BY DEF Settled, By, D!UnitOfWorkCommit, P!UnitOfWorkCommit, T!UnitOfWorkCommit,
         D!Over, P!Over, T!Over, Over

\* What the statements report.
LEMMA InsertReply ==
  ASSUME NEW r, NEW new
  PROVE  /\ DOMAIN new \cap DOMAIN r = {} =>
              INSERT(r, new).error = "none" /\ INSERT(r, new).new = new /\ INSERT(r, new).gone = {}
         /\ DOMAIN new \cap DOMAIN r # {} =>
              /\ INSERT(r, new).error = "duplicate key" /\ INSERT(r, new).new = << >>
              /\ INSERT(r, new).gone = {}
  BY DEF INSERT, Reply, Raise

LEMMA UpdateReply ==
  ASSUME NEW r, NEW pks, NEW value
  PROVE  /\ UPDATE(r, pks, value).error = "none"
         /\ DOMAIN UPDATE(r, pks, value).new = pks \cap DOMAIN r
         /\ \A pk \in pks \cap DOMAIN r : UPDATE(r, pks, value).new[pk] = value
         /\ UPDATE(r, pks, value).gone = {}
         /\ UPDATE(r, pks, value).count = Cardinality(pks \cap DOMAIN r)
  BY DEF UPDATE, Reply

LEMMA DeleteReply ==
  ASSUME NEW r, NEW pks
  PROVE  DELETE(r, pks).new = << >> /\ DELETE(r, pks).gone = pks \cap DOMAIN r
  BY DEF DELETE, Reply

LEMMA RefuseReply ==
  Refuse.error = "ConcurrencyError" /\ Refuse.new = << >> /\ Refuse.gone = {}
  BY DEF Refuse, Raise

\* What a statement of its own leaves in the database.
LEMMA AppliedRows ==
  ASSUME NEW reply, Autocommit(reply)
  PROVE  /\ DOMAIN rows' = DOMAIN reply.new \cup (DOMAIN rows \ reply.gone)
         /\ \A pk \in DOMAIN reply.new : rows'[pk] = reply.new[pk]
         /\ \A pk \in DOMAIN rows \ reply.gone : pk \notin DOMAIN reply.new => rows'[pk] = rows[pk]
  BY DEF Autocommit, Apply, Over

\* The adapters issue the same statements.
LEMMA CardinalityBy ==
  \A S : /\ D!Cardinality(S) = Cardinality(S) /\ P!Cardinality(S) = Cardinality(S)
         /\ T!Cardinality(S) = Cardinality(S)
  BY DEF D!Cardinality, P!Cardinality, T!Cardinality, Cardinality

LEMMA InsertBy ==
  \A r, n : D!INSERT(r, n) = INSERT(r, n) /\ P!INSERT(r, n) = INSERT(r, n) /\ T!INSERT(r, n) = INSERT(r, n)
  BY CardinalityBy DEF D!INSERT, P!INSERT, T!INSERT, INSERT, D!Reply, P!Reply, T!Reply, Reply, D!Raise, P!Raise,
         T!Raise, Raise

LEMMA UpdateBy ==
  \A r, n, v : /\ D!UPDATE(r, n, v) = UPDATE(r, n, v) /\ P!UPDATE(r, n, v) = UPDATE(r, n, v)
               /\ T!UPDATE(r, n, v) = UPDATE(r, n, v)
  BY CardinalityBy DEF D!UPDATE, P!UPDATE, T!UPDATE, UPDATE, D!Reply, P!Reply, T!Reply, Reply

LEMMA DeleteBy ==
  \A r, n : D!DELETE(r, n) = DELETE(r, n) /\ P!DELETE(r, n) = DELETE(r, n) /\ T!DELETE(r, n) = DELETE(r, n)
  BY CardinalityBy DEF D!DELETE, P!DELETE, T!DELETE, DELETE, D!Reply, P!Reply, T!Reply, Reply

LEMMA RowBy ==
  \A pk, v : D!Row(pk, v) = Row(pk, v) /\ P!Row(pk, v) = Row(pk, v) /\ T!Row(pk, v) = Row(pk, v)
  BY DEF D!Row, P!Row, T!Row, Row

LEMMA LookupBy ==
  \A r, pk : D!Lookup(r, pk) = Lookup(r, pk) /\ P!Lookup(r, pk) = Lookup(r, pk) /\ T!Lookup(r, pk) = Lookup(r, pk)
  BY DEF D!Lookup, P!Lookup, T!Lookup, Lookup, D!NoRow, P!NoRow, T!NoRow, NoRow

LEMMA TableBy ==
  \A r, name : D!Table(r, name) = Table(r, name) /\ P!Table(r, name) = Table(r, name) /\ T!Table(r, name) = Table(r, name)
  BY DEF D!Table, P!Table, T!Table, Table

LEMMA UnpublishedBy ==
  \A r : D!Unpublished(r) = Unpublished(r) /\ P!Unpublished(r) = Unpublished(r) /\ T!Unpublished(r) = Unpublished(r)
  BY TableBy DEF D!Unpublished, P!Unpublished, T!Unpublished, Unpublished

LEMMA RefuseBy == D!Refuse = Refuse /\ P!Refuse = Refuse /\ T!Refuse = Refuse
  BY DEF D!Refuse, P!Refuse, T!Refuse, Refuse, D!Raise, P!Raise, T!Raise, Raise

\* Saving a snapshot writes that snapshot or nothing.
LEMMA SnapshotRows ==
  ASSUME NEW c \in Clients, SaveSnapshot(c)
  PROVE  LET pk == <<"snapshots", Key(c)>>
             events == loaded[c].state \o Events(c)
         IN  /\ \A p : p # pk => Same(p)
             /\ \/ Same(pk)
                \/ pk \in DOMAIN rows' /\ rows'[pk] = [version |-> Len(events), state |-> events]
  <1> DEFINE pk == <<"snapshots", Key(c)>>
             events == loaded[c].state \o Events(c)
             s == [version |-> Len(events), state |-> events]
             x == found[c][1]
             saved == IF x THEN UPDATE(rows, {pk}, s) ELSE INSERT(rows, Row(pk, s))
  <1>1. Autocommit(saved)
    <2>1. D!SnapshotSave(rows, Key(c), s, x) = saved
      BY InsertBy, UpdateBy, RowBy DEF D!SnapshotSave
    <2>2. P!SnapshotSave(rows, Key(c), s, x) = saved
      BY InsertBy, UpdateBy, RowBy DEF P!SnapshotSave
    <2>3. T!SnapshotSave(rows, Key(c), s, x) = saved
      BY InsertBy, UpdateBy, RowBy DEF T!SnapshotSave
    <2>4. By(D!SnapshotSave(rows, Key(c), s, x), P!SnapshotSave(rows, Key(c), s, x),
             T!SnapshotSave(rows, Key(c), s, x)) = saved
      BY <2>1, <2>2, <2>3 DEF By
    <2> QED BY <2>4 DEF SaveSnapshot
  <1>2. saved.gone = {} /\ DOMAIN saved.new \subseteq {pk} /\ \A p \in DOMAIN saved.new : saved.new[p] = s
    <2>1. CASE x
      <3>1. saved = UPDATE(rows, {pk}, s) BY <2>1
      <3> HIDE DEF saved, s, pk
      <3> QED BY <3>1 DEF UPDATE, Reply
    <2>2. CASE ~x
      <3>1. DOMAIN Row(pk, s) = {pk} /\ Row(pk, s)[pk] = s BY DEF Row
      <3>2. saved = INSERT(rows, Row(pk, s)) BY <2>2
      <3>3. DOMAIN << >> = {} OBVIOUS
      <3> HIDE DEF saved, s, pk
      <3>4. saved.new \in {Row(pk, s), << >>} /\ saved.gone = {} BY <3>2, InsertReply
      <3> QED BY <3>1, <3>3, <3>4
    <2> QED BY <2>1, <2>2
  <1> HIDE DEF saved, s, pk
  <1>3. /\ \A p : p # pk => Same(p)
        /\ Same(pk) \/ (pk \in DOMAIN rows' /\ rows'[pk] = s)
    <2>1. /\ DOMAIN rows' = DOMAIN saved.new \cup DOMAIN rows
          /\ \A p \in DOMAIN saved.new : rows'[p] = saved.new[p]
          /\ \A p \in DOMAIN rows : p \notin DOMAIN saved.new => rows'[p] = rows[p]
      BY <1>1, <1>2, AppliedRows
    <2> QED BY <1>2, <2>1 DEF Same
  <1> QED BY <1>3 DEF pk, s

\* What a statement outside a transaction does to each row.
LEMMA DeletedRows ==
  ASSUME NEW pks, Autocommit(DELETE(rows, pks))
  PROVE  \A pk : IF pk \in pks \cap DOMAIN rows THEN pk \notin DOMAIN rows' ELSE Same(pk)
  BY DEF Autocommit, DELETE, Reply, Apply, Over, Same

LEMMA UpdatedRows ==
  ASSUME NEW pks, NEW value, Autocommit(UPDATE(rows, pks, value))
  PROVE  \A pk : IF pk \in pks \cap DOMAIN rows THEN pk \in DOMAIN rows' /\ rows'[pk] = value
                 ELSE Same(pk)
  BY DEF Autocommit, UPDATE, Reply, Apply, Over, Same

\* The command marks only entries of its own events.
LEMMA MarkedRows ==
  ASSUME NEW c \in Clients, MarkByEventIds(c)
  PROVE  \A pk : \/ Same(pk)
                 \/ /\ pk \in DOMAIN rows /\ pk \in DOMAIN rows' /\ rows'[pk] = [published |-> TRUE]
                    /\ \E e \in ToSet(Events(c)) : pk = <<"outbox", e>>
  <1> DEFINE mine == {<<"outbox", e>> : e \in ToSet(Events(c))}
             value == [published |-> TRUE]
  <1>1. \E pks \in SUBSET mine : Autocommit(UPDATE(rows, pks, value))
    <2>1. D!OutboxMarkPublishedByEventIds(rows, Events(c)) = UPDATE(rows, Unpublished(rows) \cap mine, value)
      BY UpdateBy, UnpublishedBy DEF D!OutboxMarkPublishedByEventIds, D!ToSet, ToSet
    <2>2. P!OutboxMarkPublishedByEventIds(rows, Events(c)) = UPDATE(rows, Unpublished(rows) \cap mine, value)
      BY UpdateBy, UnpublishedBy DEF P!OutboxMarkPublishedByEventIds, P!ToSet, ToSet
    <2>3. \E scanned : T!OutboxMarkPublishedByEventIds(rows, Events(c)) = UPDATE(rows, scanned \cap mine, value)
      BY UpdateBy DEF T!OutboxMarkPublishedByEventIds, T!OutboxMarkPublished, T!ToSet, ToSet
    <2>4. \E pks \in SUBSET mine :
            By(D!OutboxMarkPublishedByEventIds(rows, Events(c)),
               P!OutboxMarkPublishedByEventIds(rows, Events(c)),
               T!OutboxMarkPublishedByEventIds(rows, Events(c))) = UPDATE(rows, pks, value)
      <3>1. CASE locker.adapter \in {"drizzle", "prisma"}
        <4>1. Unpublished(rows) \cap mine \in SUBSET mine OBVIOUS
        <4> QED BY <2>1, <2>2, <3>1, <4>1 DEF By
      <3>2. CASE locker.adapter \notin {"drizzle", "prisma"}
        <4>1. PICK scanned : T!OutboxMarkPublishedByEventIds(rows, Events(c)) = UPDATE(rows, scanned \cap mine, value)
          BY <2>3
        <4>2. scanned \cap mine \in SUBSET mine OBVIOUS
        <4> QED BY <3>2, <4>1, <4>2 DEF By
      <3> QED BY <3>1, <3>2
    <2> QED BY <2>4 DEF MarkByEventIds
  <1>2. PICK pks \in SUBSET mine : Autocommit(UPDATE(rows, pks, value)) BY <1>1
  <1>3. \A pk : IF pk \in pks \cap DOMAIN rows THEN pk \in DOMAIN rows' /\ rows'[pk] = value
                ELSE Same(pk)
    BY <1>2, UpdatedRows
  <1> QED BY <1>3

\* The relay marks the entries it found, as far as they still exist.
LEMMA RelayMarkedRows ==
  ASSUME NEW c \in Clients, RelayMark(c)
  PROVE  \A pk : \/ Same(pk)
                 \/ /\ pk \in DOMAIN rows /\ pk \in DOMAIN rows' /\ rows'[pk] = [published |-> TRUE]
                    /\ pk \in found[c][1]
  <1> DEFINE pks == found[c][1]
             value == [published |-> TRUE]
  <1>1. Autocommit(UPDATE(rows, pks, value))
    BY UpdateBy DEF RelayMark, By, D!OutboxMarkPublished, P!OutboxMarkPublished, T!OutboxMarkPublished
  <1>2. \A pk : IF pk \in pks \cap DOMAIN rows THEN pk \in DOMAIN rows' /\ rows'[pk] = value
                ELSE Same(pk)
    BY <1>1, UpdatedRows
  <1> QED BY <1>2

\* The cleanup deletes published entries of the outbox.
LEMMA CleanedRows ==
  ASSUME NEW c \in Clients, RelayCleanup(c)
  PROVE  \A pk : \/ Same(pk)
                 \/ pk \in Table(rows, "outbox") \ Unpublished(rows) /\ pk \notin DOMAIN rows'
  <1> DEFINE pks == Table(rows, "outbox") \ Unpublished(rows)
  <1>1. Autocommit(DELETE(rows, pks))
    BY DeleteBy, TableBy, UnpublishedBy
       DEF RelayCleanup, By, D!OutboxDeletePublished, P!OutboxDeletePublished, T!OutboxDeletePublished
  <1>2. \A pk : IF pk \in pks \cap DOMAIN rows THEN pk \notin DOMAIN rows' ELSE Same(pk)
    BY <1>1, DeletedRows
  <1> QED BY <1>2

\* The records of handled events: deleted when expired, made when handled.
LEMMA ExpiredRows ==
  ASSUME NEW c \in Clients, DeleteExpired(c)
  PROVE  \A pk : Same(pk) \/ (pk = Record(c) /\ pk \notin DOMAIN rows')
  <1>1. \A pk : IF pk \in {Record(c)} \cap DOMAIN rows THEN pk \notin DOMAIN rows' ELSE Same(pk)
    BY DeletedRows DEF DeleteExpired
  <1> QED BY <1>1

LEMMA SweptRows ==
  ASSUME NEW c \in Clients, Sweep(c)
  PROVE  \A pk : \/ Same(pk)
                 \/ /\ pk[1] = "processed" /\ pk \notin DOMAIN rows'
                    /\ pk \in DOMAIN rows /\ rows[pk].at <= now - Ttl
  <1> DEFINE pks == {pk \in Table(rows, "processed") : rows[pk].at <= now - Ttl}
  <1>1. Autocommit(DELETE(rows, pks))
    BY DeleteBy, TableBy DEF Sweep, By, D!RemoveExpired, P!RemoveExpired, T!RemoveExpired
  <1>2. \A pk : IF pk \in pks \cap DOMAIN rows THEN pk \notin DOMAIN rows' ELSE Same(pk)
    BY <1>1, DeletedRows
  <1> QED BY <1>2 DEF Table

LEMMA RecordedRows ==
  ASSUME NEW c \in Clients, MarkProcessed(c)
  PROVE  /\ \A pk : pk # Record(c) => Same(pk)
         /\ IF Record(c) \in DOMAIN rows THEN Same(Record(c))
            ELSE Record(c) \in DOMAIN rows' /\ rows'[Record(c)] = [at |-> now]
  <1> DEFINE pk == Record(c)
             new == Row(pk, [at |-> now])
             inserted == INSERT(rows, new)
             reply == IF inserted.error = "duplicate key" THEN Reply(<< >>, {}, 0) ELSE inserted
  <1>1. Autocommit(reply)
    <2>1. D!MarkProcessed(rows, Key(c), now) = reply
      BY InsertBy, RowBy DEF D!MarkProcessed, D!isUniqueViolation, D!Reply, Reply, Record
    <2>2. P!MarkProcessed(rows, Key(c), now) = reply
      BY InsertBy, RowBy DEF P!MarkProcessed, P!isP2002, P!Reply, Reply, Record
    <2>3. T!MarkProcessed(rows, Key(c), now) = reply
      BY InsertBy, RowBy DEF T!MarkProcessed, T!isUniqueViolation, T!Reply, Reply, Record
    <2>4. By(D!MarkProcessed(rows, Key(c), now), P!MarkProcessed(rows, Key(c), now),
             T!MarkProcessed(rows, Key(c), now)) = reply
      BY <2>1, <2>2, <2>3 DEF By
    <2> QED BY <2>4 DEF MarkProcessed
  <1>2. DOMAIN new = {pk} /\ new[pk] = [at |-> now] /\ DOMAIN << >> = {} BY DEF Row
  <1>3. reply.gone = {} /\ reply.new = IF pk \in DOMAIN rows THEN << >> ELSE new
    <2> HIDE DEF new, pk
    <2>1. Reply(<< >>, {}, 0).gone = {} /\ Reply(<< >>, {}, 0).new = << >> BY DEF Reply
    <2>2. CASE pk \in DOMAIN rows
      <3>1. inserted.error = "duplicate key" BY <1>2, <2>2 DEF INSERT, Raise
      <3> QED BY <2>1, <2>2, <3>1
    <2>3. CASE pk \notin DOMAIN rows
      <3>1. inserted = Reply(new, {}, Cardinality(DOMAIN new)) BY <1>2, <2>3 DEF INSERT
      <3>2. inserted.error = "none" /\ inserted.new = new /\ inserted.gone = {} BY <3>1 DEF Reply
      <3> QED BY <2>3, <3>2
    <2> QED BY <2>2, <2>3
  <1> HIDE DEF reply, new, pk
  <1>4. /\ DOMAIN rows' = DOMAIN reply.new \cup DOMAIN rows
        /\ \A p \in DOMAIN reply.new : rows'[p] = reply.new[p]
        /\ \A p \in DOMAIN rows : p \notin DOMAIN reply.new => rows'[p] = rows[p]
    BY <1>1, <1>3, AppliedRows
  <1>5. /\ \A p : p # pk => Same(p)
        /\ IF pk \in DOMAIN rows THEN Same(pk) ELSE pk \in DOMAIN rows' /\ rows'[pk] = [at |-> now]
    BY <1>2, <1>3, <1>4 DEF Same
  <1> QED BY <1>5 DEF pk

\* Appending events to a stream inserts their rows, or conflicts with rows that are there.
LEMMA SavedEvents ==
  ASSUME NEW c \in Clients, job[c].store = "events"
  PROVE  LET new == EventRows(Key(c), Events(c), loaded[c].version, serial)
         IN  /\ DOMAIN new \cap DOMAIN Seen(c) = {} => Saved(c).error = "none" /\ Saved(c).new = new
             /\ DOMAIN new \cap DOMAIN Seen(c) # {} =>
                  Saved(c).error = "ConcurrencyError" /\ Saved(c).new = << >>
  <1> DEFINE v == Seen(c)
             x == loaded[c].version
             new == EventRows(Key(c), Events(c), x, serial)
             ins == INSERT(v, new)
             reply == IF ins.error = "duplicate key" THEN Refuse ELSE ins
  <1>1. /\ D!EventRows(Key(c), Events(c), x, serial) = new
        /\ P!EventRows(Key(c), Events(c), x, serial) = new
        /\ T!EventRows(Key(c), Events(c), x, serial) = new
    BY DEF D!EventRows, P!EventRows, T!EventRows, EventRows
  <1>2. D!EventsSave(v, Key(c), Events(c), x, serial) = reply
    BY <1>1, InsertBy, RefuseBy DEF D!EventsSave, D!ConflictIfDuplicate, D!isUniqueViolation
  <1>3. P!EventsSave(v, Key(c), Events(c), x, serial) = reply
    BY <1>1, InsertBy, RefuseBy DEF P!EventsSave, P!ConflictIfP2002, P!isP2002
  <1>4. T!EventsSave(v, Key(c), Events(c), x, serial) = reply
    BY <1>1, InsertBy, RefuseBy DEF T!EventsSave, T!ConflictIfDuplicate, T!isUniqueViolation
  <1>5. Saved(c) = reply
    <2>1. Saved(c) = By(D!EventsSave(v, Key(c), Events(c), x, serial),
                        P!EventsSave(v, Key(c), Events(c), x, serial),
                        T!EventsSave(v, Key(c), Events(c), x, serial))
      BY DEF Saved
    <2> QED BY <2>1, <1>2, <1>3, <1>4 DEF By
  <1> HIDE DEF v, new
  <1>6. /\ DOMAIN new \cap DOMAIN v = {} => reply.error = "none" /\ reply.new = new
        /\ DOMAIN new \cap DOMAIN v # {} => reply.error = "ConcurrencyError" /\ reply.new = << >>
    <2>1. /\ DOMAIN new \cap DOMAIN v = {} => ins.error = "none" /\ ins.new = new
          /\ DOMAIN new \cap DOMAIN v # {} => ins.error = "duplicate key"
      BY DEF INSERT, Reply, Raise
    <2> HIDE DEF ins
    <2> QED BY <2>1, RefuseReply
  <1> QED BY <1>5, <1>6 DEF v, new

\* Writing a versioned row: inserted if it is new, updated if its version is the expected one.
VersionedSave(v, pk, row, expected) ==
  IF expected = 0
  THEN IF INSERT(v, Row(pk, row)).error = "duplicate key" THEN Refuse ELSE INSERT(v, Row(pk, row))
  ELSE IF UPDATE(v, {p \in {pk} : Lookup(v, p).version = expected}, row).count = 0 THEN Refuse
       ELSE UPDATE(v, {p \in {pk} : Lookup(v, p).version = expected}, row)

LEMMA VersionedReply ==
  ASSUME NEW v, NEW pk, NEW row, NEW x
  PROVE  LET reply == VersionedSave(v, pk, row, x)
         IN  \/ /\ reply.error = "none" /\ DOMAIN reply.new = {pk} /\ reply.new[pk] = row
                /\ \/ x = 0 /\ pk \notin DOMAIN v
                   \/ x # 0 /\ pk \in DOMAIN v /\ v[pk].version = x
             \/ /\ reply = Refuse
                /\ \/ x = 0 /\ pk \in DOMAIN v
                   \/ x # 0 /\ Lookup(v, pk).version # x
  <1> DEFINE reply == VersionedSave(v, pk, row, x)
  <1>1. CASE x = 0
    <2>1. DOMAIN Row(pk, row) = {pk} /\ Row(pk, row)[pk] = row BY DEF Row
    <2>2. reply = IF INSERT(v, Row(pk, row)).error = "duplicate key" THEN Refuse
                  ELSE INSERT(v, Row(pk, row))
      BY <1>1 DEF VersionedSave
    <2> DEFINE new == Row(pk, row)
               ins == INSERT(v, new)
    <2> HIDE DEF new, reply
    <2>3. DOMAIN new = {pk} /\ new[pk] = row BY <2>1 DEF new
    <2>4. /\ DOMAIN new \cap DOMAIN v = {} => ins.error = "none" /\ ins.new = new
          /\ DOMAIN new \cap DOMAIN v # {} => ins.error = "duplicate key"
      BY InsertReply
    <2>5. reply = IF ins.error = "duplicate key" THEN Refuse ELSE ins BY <2>2 DEF new
    <2> HIDE DEF ins
    <2>6. CASE pk \in DOMAIN v BY <1>1, <2>3, <2>4, <2>5, <2>6 DEF reply
    <2>7. CASE pk \notin DOMAIN v BY <1>1, <2>3, <2>4, <2>5, <2>7 DEF reply
    <2> QED BY <2>6, <2>7
  <1>2. CASE x # 0
    <2> DEFINE pks == {p \in {pk} : Lookup(v, p).version = x}
    <2>1. reply = IF UPDATE(v, pks, row).count = 0 THEN Refuse ELSE UPDATE(v, pks, row)
      BY <1>2 DEF VersionedSave
    <2>2. CASE Lookup(v, pk).version = x
      <3>1. pk \in DOMAIN v /\ v[pk].version = x BY <1>2, <2>2 DEF Lookup, NoRow
      <3>2. pks \cap DOMAIN v = {pk} BY <2>2, <3>1
      <3> HIDE DEF pks
      <3>3. /\ UPDATE(v, pks, row).error = "none" /\ DOMAIN UPDATE(v, pks, row).new = {pk}
            /\ UPDATE(v, pks, row).new[pk] = row /\ UPDATE(v, pks, row).count = Cardinality({pk})
        BY <3>2 DEF UPDATE, Reply
      <3>4. Cardinality({pk}) = 1 BY FS_Singleton
      <3> QED BY <1>2, <2>1, <3>1, <3>3, <3>4
    <2>3. CASE Lookup(v, pk).version # x
      <3>1. pks \cap DOMAIN v = {} BY <2>3
      <3> HIDE DEF pks
      <3>2. UPDATE(v, pks, row).count = Cardinality({}) BY <3>1, UpdateReply
      <3>3. Cardinality({}) = 0 BY FS_EmptySet
      <3> QED BY <1>2, <2>1, <2>3, <3>2, <3>3
    <2> QED BY <2>2, <2>3
  <1> QED BY <1>1, <1>2

\* Saving a state or a saga is such a write, but for the rows that Drizzle does not
\* count on postgres-js.
LEMMA SavedState ==
  ASSUME NEW c \in Clients, job[c].store \in Stores \ {"events"}
  PROVE  LET pk == <<job[c].store, Key(c)>>
             x == loaded[c].version
             row == [version |-> x + 1, state |-> loaded[c].state \o Events(c)]
         IN  \/ Saved(c) = VersionedSave(Seen(c), pk, row, x)
             \/ /\ Saved(c) = Refuse
                /\ job[c].store = "sagas" /\ (Driver = "postgres-js" \/ locker.adapter \notin {"drizzle", "prisma"})
  <1> DEFINE v == Seen(c)
             k == Key(c)
             x == loaded[c].version
             new == loaded[c].state \o Events(c)
             row == [version |-> x + 1, state |-> new]
             saga == D!SagaSave(v, k, new, x)
  <1>1. CASE job[c].store = "states"
    <2>1. Saved(c) = By(D!StateSave(v, k, new, x), P!StateSave(v, k, new, x), T!StateSave(v, k, new, x))
      BY <1>1 DEF Saved
    <2>2. /\ D!StateSave(v, k, new, x) = VersionedSave(v, <<"states", k>>, row, x)
          /\ P!StateSave(v, k, new, x) = VersionedSave(v, <<"states", k>>, row, x)
          /\ T!StateSave(v, k, new, x) = VersionedSave(v, <<"states", k>>, row, x)
      BY InsertBy, UpdateBy, RowBy, LookupBy, RefuseBy
         DEF D!StateSave, P!StateSave, T!StateSave, D!ConflictIfDuplicate, P!ConflictIfP2002,
             T!ConflictIfDuplicate, D!isUniqueViolation, P!isP2002, T!isUniqueViolation,
             D!getRowsAffected, VersionedSave
    <2> QED BY <1>1, <2>1, <2>2 DEF By
  <1>2. CASE job[c].store = "dedicated"
    <2>1. Saved(c) = By(D!DedicatedSave(v, k, new, x), P!DedicatedSave(v, k, new, x), T!DedicatedSave(v, k, new, x))
      BY <1>2 DEF Saved
    <2>2. /\ D!DedicatedSave(v, k, new, x) = VersionedSave(v, <<"dedicated", k>>, row, x)
          /\ P!DedicatedSave(v, k, new, x) = VersionedSave(v, <<"dedicated", k>>, row, x)
          /\ T!DedicatedSave(v, k, new, x) = VersionedSave(v, <<"dedicated", k>>, row, x)
      BY InsertBy, UpdateBy, RowBy, LookupBy, RefuseBy
         DEF D!DedicatedSave, P!DedicatedSave, T!DedicatedSave, D!ConflictIfDuplicate, P!ConflictIfP2002,
             T!ConflictIfDuplicate, D!isUniqueViolation, P!isP2002, T!isUniqueViolation,
             D!getRowsAffected, VersionedSave
    <2> QED BY <1>2, <2>1, <2>2 DEF By
  <1>3. CASE job[c].store = "sagas"
    <2>1. Saved(c) = By(saga, P!SagaSave(v, k, new, x), Refuse)
      BY <1>3 DEF Saved
    <2>2. P!SagaSave(v, k, new, x) = VersionedSave(v, <<"sagas", k>>, row, x)
      BY InsertBy, UpdateBy, RowBy, LookupBy, RefuseBy
         DEF P!SagaSave, P!ConflictIfP2002, P!isP2002, VersionedSave
    <2>3. saga = VersionedSave(v, <<"sagas", k>>, row, x) \/ (saga = Refuse /\ Driver = "postgres-js")
      BY InsertBy, UpdateBy, RowBy, LookupBy, RefuseBy
         DEF D!SagaSave, D!ConflictIfDuplicate, D!isUniqueViolation, D!SagaRowsAffected, VersionedSave
    <2>4. CASE locker.adapter = "drizzle" BY <1>3, <2>1, <2>3, <2>4 DEF By
    <2>5. CASE locker.adapter = "prisma" BY <1>3, <2>1, <2>2, <2>5 DEF By
    <2>6. CASE locker.adapter \notin {"drizzle", "prisma"}
      <3>1. Saved(c) = Refuse BY <2>1, <2>6 DEF By
      <3> QED BY <3>1, <1>3, <2>6
    <2> QED BY <2>4, <2>5, <2>6
  <1> QED BY <1>1, <1>2, <1>3 DEF Stores

\* The entries of the outbox that go with a command's events.
Entry(c) == [pk \in {<<"outbox", e>> : e \in ToSet(Events(c))} |-> [published |-> FALSE, createdAt |-> serial]]

LEMMA SavedOutbox ==
  ASSUME NEW c \in Clients, SaveOutbox(c)
  PROVE  Operation(c, INSERT(Seen(c), Entry(c)), "commit")
  <1> DEFINE v == Seen(c)
  <1>1. /\ D!OutboxSave(v, Events(c), serial) = INSERT(v, Entry(c))
        /\ P!OutboxSave(v, Events(c), serial) = INSERT(v, Entry(c))
        /\ T!OutboxSave(v, Events(c), serial) = INSERT(v, Entry(c))
    BY InsertBy DEF D!OutboxSave, P!OutboxSave, T!OutboxSave, D!ToSet, P!ToSet, T!ToSet, ToSet, Entry
  <1> QED BY <1>1 DEF SaveOutbox, By
-----------------------------------------------------------------------------
AllEvents == UNION {ToSet(EventsOf[c]) : c \in Clients}
IsFcn(f, S) == f = [s \in S |-> f[s]]

DataTypes ==
  /\ job \in [Clients -> Jobs]
  /\ wants = [c \in Clients |-> job[c].key]
  /\ locker \in Lockers
  /\ locker.adapter = "typeorm" => \A c \in Clients : job[c].store # "sagas"
  /\ pc \in [Clients -> Stages] /\ result \in [Clients -> Results]
  /\ IsFcn(own, Clients) /\ IsFcn(loaded, Clients) /\ IsFcn(found, Clients) /\ IsFcn(before, Clients)
  /\ serial \in Nat /\ now \in Nat
  /\ history \in [Stored -> Seq(AllEvents)]

\* What a step of one client leaves alone.
Others(c) ==
  /\ UNCHANGED <<job, wants, locker>>
  /\ pc' \in [Clients -> Stages] /\ result' \in [Clients -> Results]
  /\ IsFcn(own, Clients)' /\ IsFcn(loaded, Clients)' /\ IsFcn(found, Clients)' /\ IsFcn(before, Clients)'
  /\ \A d \in Clients \ {c} :
       /\ pc'[d] = pc[d] /\ result'[d] = result[d] /\ own'[d] = own[d] /\ loaded'[d] = loaded[d]
       /\ found'[d] = found[d] /\ before'[d] = before[d]

ClientStep(c) == CommandStep(c) \/ OperationFails(c) \/ LockStep(c) \/ AskAgain(c) \/ BackgroundStep(c)
Quiet == UNCHANGED <<dataVars, job, wants, locker, pc, result, loaded, found, history, published, before,
                     recordVars>>

\* The events of a command.
LEMMA EventTypes ==
  ASSUME NEW c \in Clients
  PROVE  Events(c) \in Seq(AllEvents) /\ \A e \in ToSet(Events(c)) : e \in AllEvents
  <1>1. EventsOf[c] \in Seq(ToSet(EventsOf[c])) BY EventsAssumption
  <1>2. ToSet(EventsOf[c]) \subseteq AllEvents BY DEF AllEvents
  <1> QED BY <1>1, <1>2 DEF Events

\* The types of one client's state after a step that sets part of it.
LEMMA OthersAfter ==
  ASSUME DataTypes, NEW c \in Clients, UNCHANGED <<job, wants, locker>>,
         \E stage \in Stages : pc' = [pc EXCEPT ![c] = stage],
         UNCHANGED result \/ \E r \in Results : result' = [result EXCEPT ![c] = r],
         UNCHANGED own \/ \E x : own' = [own EXCEPT ![c] = x],
         UNCHANGED loaded \/ \E x : loaded' = [loaded EXCEPT ![c] = x],
         UNCHANGED found \/ \E x : found' = [found EXCEPT ![c] = x],
         UNCHANGED before \/ \E x : before' = [before EXCEPT ![c] = x]
  PROVE  Others(c)
  <1>1. pc' \in [Clients -> Stages] /\ \A d \in Clients \ {c} : pc'[d] = pc[d] BY DEF DataTypes
  <1>2. result' \in [Clients -> Results] /\ \A d \in Clients \ {c} : result'[d] = result[d] BY DEF DataTypes
  <1>3. IsFcn(own, Clients)' /\ \A d \in Clients \ {c} : own'[d] = own[d] BY DEF DataTypes, IsFcn
  <1>4. IsFcn(loaded, Clients)' /\ \A d \in Clients \ {c} : loaded'[d] = loaded[d] BY DEF DataTypes, IsFcn
  <1>5. IsFcn(found, Clients)' /\ \A d \in Clients \ {c} : found'[d] = found[d] BY DEF DataTypes, IsFcn
  <1>6. IsFcn(before, Clients)' /\ \A d \in Clients \ {c} : before'[d] = before[d] BY DEF DataTypes, IsFcn
  <1> QED BY <1>1, <1>2, <1>3, <1>4, <1>5, <1>6 DEF Others

\* A step of one client leaves the others' state alone.
LEMMA ClientFrame ==
  ASSUME DataTypes, NEW c \in Clients, ClientStep(c) PROVE Others(c)
  <1> USE DEF At, Goto, Finish, lockerVars, dataVars, localVars, Stages
  <1> DEFINE Rest == /\ UNCHANGED result \/ \E r \in Results : result' = [result EXCEPT ![c] = r]
                     /\ UNCHANGED own \/ \E x : own' = [own EXCEPT ![c] = x]
                     /\ UNCHANGED loaded \/ \E x : loaded' = [loaded EXCEPT ![c] = x]
                     /\ UNCHANGED found \/ \E x : found' = [found EXCEPT ![c] = x]
                     /\ UNCHANGED before \/ \E x : before' = [before EXCEPT ![c] = x]
                     /\ UNCHANGED <<job, wants, locker>>
  <1>1. CASE Save(c) \/ SaveOutbox(c) \/ OperationFails(c)
    <2>1. PICK reply : \E next \in {"outbox", "commit"} : Operation(c, reply, next)
      <3>1. (IF job[c].outbox THEN "outbox" ELSE "commit") \in {"outbox", "commit"} OBVIOUS
      <3>2. CASE Save(c) BY <3>1, <3>2 DEF Save
      <3>3. CASE SaveOutbox(c)
        <4>1. \E reply : Operation(c, reply, "commit") BY <3>3 DEF SaveOutbox
        <4> QED BY <4>1
      <3>4. CASE OperationFails(c)
        <4>1. Operation(c, Raise("driver error"), "commit") BY <3>4 DEF OperationFails
        <4> QED BY <4>1
      <3> QED BY <1>1, <3>2, <3>3, <3>4
    <2>2. UNCHANGED <<job, wants, locker, loaded, found, before>>
      BY <1>1 DEF Save, SaveOutbox, OperationFails
    <2>3. /\ \E stage \in Stages : pc' = [pc EXCEPT ![c] = stage]
          /\ \E x : own' = [own EXCEPT ![c] = x]
      BY <2>1 DEF Operation
    <2>4. \E r \in Results : result' = [result EXCEPT ![c] = r]
      <3>1. (IF reply.error = "ConcurrencyError" THEN "conflict"
             ELSE IF reply.error # "none" THEN "failed" ELSE result[c]) \in Results
        BY DEF DataTypes, Results
      <3> QED BY <2>1, <3>1 DEF Operation, DataTypes
    <2> QED BY <2>2, <2>3, <2>4, OthersAfter
  <1>2. CASE LoadSnapshot(c) \/ Load(c) \/ FindSnapshot(c) \/ SaveSnapshot(c)
    <2>1. Rest BY <1>2 DEF LoadSnapshot, Load, FindSnapshot, SaveSnapshot
    <2>2. \E stage \in Stages : pc' = [pc EXCEPT ![c] = stage]
      BY <1>2 DEF LoadSnapshot, Load, FindSnapshot, SaveSnapshot
    <2> QED BY <2>1, <2>2, OthersAfter
  <1>3. CASE Commit(c) \/ Rollback(c)
    <2>1. Rest BY <1>3 DEF Commit, Rollback, Settled
    <2>2. \E stage \in Stages : pc' = [pc EXCEPT ![c] = stage]
      BY <1>3 DEF Commit, Rollback, AfterCommit
    <2> QED BY <2>1, <2>2, OthersAfter
  <1>4. CASE Publish(c) \/ MarkByEventIds(c)
    <2>1. Rest BY <1>4 DEF Publish, MarkByEventIds, Results
    <2>2. \E stage \in Stages : pc' = [pc EXCEPT ![c] = stage] BY <1>4 DEF Publish, MarkByEventIds
    <2> QED BY <2>1, <2>2, OthersAfter
  <1>5. CASE TakeLock(c) \/ AskAgain(c) \/ GiveUp(c) \/ DropLock(c)
    <2>1. Rest /\ UNCHANGED pc
      BY <1>5 DEF TakeLock, AskAgain, GiveUp, DropLock, Acquire, PollAgain, DeadlinePassed, Release
    <2>2. pc' = [pc EXCEPT ![c] = pc[c]] /\ pc[c] \in Stages BY <2>1 DEF DataTypes
    <2> QED BY <2>1, <2>2, OthersAfter
  <1>6. CASE LockRefused(c)
    <2>1. Rest BY <1>6 DEF LockRefused, Results
    <2>2. \E stage \in Stages : pc' = [pc EXCEPT ![c] = stage] BY <1>6 DEF LockRefused
    <2> QED BY <2>1, <2>2, OthersAfter
  <1>7. CASE LockReturned(c)
    <2>1. UNCHANGED result \/ \E r \in Results : result' = [result EXCEPT ![c] = r]
      <3>1. (IF result[c] = "none" THEN "failed" ELSE result[c]) \in Results BY DEF DataTypes, Results
      <3> QED BY <1>7, <3>1 DEF LockReturned
    <2>2. Rest BY <1>7, <2>1 DEF LockReturned
    <2>3. \E stage \in Stages : pc' = [pc EXCEPT ![c] = stage] BY <1>7 DEF LockReturned, AfterCommit
    <2> QED BY <2>2, <2>3, OthersAfter
  <1>8. CASE RelayLoad(c) \/ RelayPublish(c) \/ RelayMark(c) \/ RelayCleanup(c) \/ ReadBegins(c)
    <2>1. Rest BY <1>8 DEF RelayLoad, RelayPublish, RelayMark, RelayCleanup, ReadBegins, Results
    <2>2. \E stage \in Stages : pc' = [pc EXCEPT ![c] = stage]
      BY <1>8 DEF RelayLoad, RelayPublish, RelayMark, RelayCleanup, ReadBegins
    <2> QED BY <2>1, <2>2, OthersAfter
  <1>9. CASE ReadPage(c)
    <2>1. Rest BY <1>9 DEF ReadPage, Results
    <2>2. pc' = [pc EXCEPT ![c] = "done"] \/ pc' = pc BY <1>9 DEF ReadPage
    <2>3. \E stage \in Stages : pc' = [pc EXCEPT ![c] = stage] BY <2>2 DEF DataTypes
    <2> QED BY <2>1, <2>3, OthersAfter
  <1>10. CASE Check(c)
    <2>1. Rest BY <1>10 DEF Check, Results
    <2>2. \E stage \in Stages : pc' = [pc EXCEPT ![c] = stage] BY <1>10 DEF Check
    <2> QED BY <2>1, <2>2, OthersAfter
  <1>11. CASE DeleteExpired(c) \/ Handle(c) \/ MarkProcessed(c) \/ Sweep(c)
    <2>1. Rest BY <1>11 DEF DeleteExpired, Handle, MarkProcessed, Sweep, Results
    <2>2. \E stage \in Stages : pc' = [pc EXCEPT ![c] = stage]
      BY <1>11 DEF DeleteExpired, Handle, MarkProcessed, Sweep
    <2> QED BY <2>1, <2>2, OthersAfter
  <1> QED BY <1>1, <1>2, <1>3, <1>4, <1>5, <1>6, <1>7, <1>8, <1>9, <1>10, <1>11
          DEF ClientStep, CommandStep, LockStep, BackgroundStep

\* Every step is one of a client, or leaves all data alone but the clock.
LEMMA StepKinds ==
  ASSUME [DatabaseNext]_databaseVars
  PROVE  (\E c \in Clients : ClientStep(c) /\ UNCHANGED now) \/ (Quiet /\ (UNCHANGED now \/ now' = now + 1))
  <1> USE DEF lockerVars, dataVars, localVars, Quiet
  <1>1. ASSUME NEW c \in Clients, ClientStep(c) PROVE UNCHANGED now
    BY <1>1 DEF ClientStep, CommandStep, LoadSnapshot, Load, Save, SaveOutbox, Commit, Rollback, FindSnapshot,
                SaveSnapshot, Publish, MarkByEventIds, OperationFails, BackgroundStep, RelayLoad,
                RelayPublish, RelayMark, RelayCleanup, ReadBegins, ReadPage, Check, DeleteExpired,
                Handle, MarkProcessed, Sweep, LockStep, TakeLock, AskAgain, GiveUp, DropLock, LockRefused,
                LockReturned
  <1>2. ASSUME NEW p \in Processes, Server(p) PROVE Quiet /\ UNCHANGED now
    BY <1>2 DEF Server, ServerStep, Granted, TryFails, LockTimesOut, DeadlockVictim, Unlocked, NotHeld,
                StatementRejected, RejectHead, ReleaseEnds
  <1>3. ASSUME NEW p \in Processes, Session(p), UNCHANGED <<dataVars, localVars>>
        PROVE  Quiet /\ UNCHANGED now
    BY <1>3 DEF Session, LoseSession, Reconnect
  <1>4. CASE Tick BY <1>4 DEF Tick
  <1>5. CASE UNCHANGED databaseVars BY <1>5 DEF databaseVars
  <1> QED BY <1>1, <1>2, <1>3, <1>4, <1>5 DEF DatabaseNext, ClientStep

\* The steps that change rows, open transactions or the log.
LEMMA DataSteps ==
  ASSUME NEW c \in Clients, ClientStep(c)
  PROVE  \/ UNCHANGED <<rows, serial, own, history>>
         \/ (Save(c) \/ SaveOutbox(c) \/ OperationFails(c)) /\ UNCHANGED <<rows, history>>
         \/ Commit(c) /\ UNCHANGED serial
         \/ Rollback(c) /\ UNCHANGED <<rows, serial, history>>
         \/ /\ \/ SaveSnapshot(c) \/ MarkByEventIds(c) \/ RelayMark(c) \/ RelayCleanup(c)
               \/ DeleteExpired(c) \/ MarkProcessed(c) \/ Sweep(c)
            /\ UNCHANGED <<serial, own, history>>
  <1> USE DEF dataVars, localVars
  <1>1. CASE Rollback(c)
    <2>1. rows' = rows BY <1>1, SettledRows DEF Rollback
    <2> QED BY <1>1, <2>1 DEF Rollback
  <1>2. CASE ~Rollback(c)
    BY <1>2 DEF ClientStep, CommandStep, LoadSnapshot, Load, Save, SaveOutbox, Commit, FindSnapshot,
                SaveSnapshot, Publish, MarkByEventIds, OperationFails, BackgroundStep, RelayLoad,
                RelayPublish, RelayMark, RelayCleanup, ReadBegins, ReadPage, Check, DeleteExpired,
                Handle, MarkProcessed, Sweep, LockStep, TakeLock, AskAgain, GiveUp, DropLock, LockRefused,
                LockReturned
  <1> QED BY <1>1, <1>2

LEMMA StepTypes ==
  ASSUME DataTypes, [DatabaseNext]_databaseVars PROVE DataTypes'
  <1>1. CASE Quiet /\ (UNCHANGED now \/ now' = now + 1)
    BY <1>1 DEF Quiet, dataVars, DataTypes, IsFcn
  <1>2. ASSUME NEW c \in Clients, ClientStep(c), UNCHANGED now PROVE DataTypes'
    <2>1. Others(c) BY <1>2, ClientFrame
    <2>2. serial' \in Nat
      <3>1. Len(Events(c)) \in Nat BY EventTypes
      <3>2. CASE Save(c) BY <3>1, <3>2 DEF Save, DataTypes
      <3>3. CASE ~Save(c)
        <4>1. SaveOutbox(c) \/ OperationFails(c) => UNCHANGED serial BY DEF SaveOutbox, OperationFails
        <4> QED BY <3>3, <4>1, <1>2, DataSteps DEF DataTypes
      <3> QED BY <3>2, <3>3
    <2>3. history' \in [Stored -> Seq(AllEvents)]
      <3>1. CASE Commit(c)
        <4> DEFINE sk == <<job[c].store, Key(c)>>
        <4>1. sk \in Stored BY DEF DataTypes, Jobs, Stored, Key
        <4>2. history[sk] \o Events(c) \in Seq(AllEvents) BY <4>1, EventTypes DEF DataTypes
        <4> QED BY <3>1, <4>1, <4>2 DEF Commit, DataTypes
      <3>2. CASE ~Commit(c) BY <3>2, <1>2, DataSteps DEF DataTypes
      <3> QED BY <3>1, <3>2
    <2> QED BY <1>2, <2>1, <2>2, <2>3 DEF DataTypes, Others
  <1> QED BY <1>1, <1>2, StepKinds

LEMMA InitTypes ==
  ASSUME DatabaseInit PROVE DataTypes
  <1> USE DEF DatabaseInit, LockersInit
  <1>1. PICK w \in Workloads : job = w.job OBVIOUS
  <1>2. job \in [Clients -> Jobs] BY <1>1, WorkloadsAssumption
  <1>3. pc \in [Clients -> Stages] /\ result \in [Clients -> Results] BY DEF Stages, Results
  <1>4. history \in [Stored -> Seq(AllEvents)] OBVIOUS
  <1> QED BY <1>2, <1>3, <1>4 DEF DataTypes, IsFcn
-----------------------------------------------------------------------------
\* A transaction writes rows of the stores and of the outbox only.
OwnTables == \A c \in Clients : \A pk \in DOMAIN own[c] : pk[1] \in Stores \cup {"outbox"}

LEMMA OperationOwn ==
  ASSUME DataTypes, NEW c \in Clients, NEW reply, NEW next, Operation(c, reply, next)
  PROVE  /\ own'[c] = Over(reply.new, own[c])
         /\ DOMAIN own'[c] = DOMAIN reply.new \cup DOMAIN own[c]
         /\ \A pk \in DOMAIN reply.new : own'[c][pk] = reply.new[pk]
         /\ \A pk \in DOMAIN own[c] : pk \notin DOMAIN reply.new => own'[c][pk] = own[c][pk]
         /\ pc'[c] = IF reply.error = "none" THEN next ELSE "rollback"
         /\ result'[c] = IF reply.error = "ConcurrencyError" THEN "conflict"
                         ELSE IF reply.error # "none" THEN "failed" ELSE result[c]
  <1>1. own'[c] = Over(reply.new, own[c]) BY DEF Operation, DataTypes, IsFcn
  <1>2. /\ pc'[c] = IF reply.error = "none" THEN next ELSE "rollback"
        /\ result'[c] = IF reply.error = "ConcurrencyError" THEN "conflict"
                        ELSE IF reply.error # "none" THEN "failed" ELSE result[c]
    BY DEF Operation, Goto, DataTypes
  <1> QED BY <1>1, <1>2 DEF Over

\* What save writes.
LEMMA SavedTables ==
  ASSUME DataTypes, NEW c \in Clients
  PROVE  \A pk \in DOMAIN Saved(c).new : pk[1] = job[c].store
  <1>1. CASE job[c].store = "events"
    <2> DEFINE new == EventRows(Key(c), Events(c), loaded[c].version, serial)
    <2>1. \A pk \in DOMAIN new : pk[1] = "events" BY DEF EventRows
    <2>2. Saved(c).new = new \/ Saved(c).new = << >> BY <1>1, SavedEvents
    <2> QED BY <1>1, <2>1, <2>2
  <1>2. CASE job[c].store # "events"
    <2>1. job[c].store \in Stores \ {"events"} BY <1>2 DEF DataTypes, Jobs
    <2> DEFINE pk == <<job[c].store, Key(c)>>
               row == [version |-> loaded[c].version + 1, state |-> loaded[c].state \o Events(c)]
               reply == VersionedSave(Seen(c), pk, row, loaded[c].version)
    <2>2. Saved(c) = reply \/ Saved(c) = Refuse BY <2>1, SavedState
    <2>3. DOMAIN reply.new = {pk} \/ reply = Refuse BY VersionedReply
    <2>4. DOMAIN Saved(c).new \subseteq {pk}
      <3> HIDE DEF reply, pk
      <3> QED BY <2>2, <2>3, RefuseReply
    <2> QED BY <2>4
  <1> QED BY <1>1, <1>2

LEMMA StepOwnTables ==
  ASSUME DataTypes, OwnTables, [DatabaseNext]_databaseVars PROVE OwnTables'
  <1>1. CASE Quiet BY <1>1 DEF Quiet, dataVars, OwnTables
  <1>2. ASSUME NEW c \in Clients, ClientStep(c) PROVE OwnTables'
    <2>1. \A d \in Clients \ {c} : own'[d] = own[d] BY <1>2, ClientFrame DEF Others
    <2>2. \A pk \in DOMAIN own'[c] : pk[1] \in Stores \cup {"outbox"}
      <3>1. CASE UNCHANGED own BY <3>1 DEF OwnTables
      <3>2. CASE Save(c)
        <4>1. DOMAIN own'[c] = DOMAIN Saved(c).new \cup DOMAIN own[c] BY <3>2, OperationOwn DEF Save
        <4>2. job[c].store \in Stores BY DEF DataTypes, Jobs
        <4> QED BY <4>1, <4>2, SavedTables DEF OwnTables
      <3>3. CASE SaveOutbox(c)
        <4> DEFINE ins == INSERT(Seen(c), Entry(c))
        <4>1. DOMAIN own'[c] = DOMAIN ins.new \cup DOMAIN own[c] BY <3>3, SavedOutbox, OperationOwn
        <4>2. \A pk \in DOMAIN Entry(c) : pk[1] = "outbox" BY DEF Entry
        <4>3. ins.new = Entry(c) \/ ins.new = << >> BY InsertReply
        <4> HIDE DEF ins
        <4> QED BY <4>1, <4>2, <4>3 DEF OwnTables
      <3>4. CASE OperationFails(c)
        <4> DEFINE err == Raise("driver error")
        <4>1. err.new = << >> BY DEF Raise
        <4>2. DOMAIN own'[c] = DOMAIN err.new \cup DOMAIN own[c] BY <3>4, OperationOwn DEF OperationFails
        <4> HIDE DEF err
        <4> QED BY <4>1, <4>2 DEF OwnTables
      <3>5. CASE Commit(c) \/ Rollback(c)
        <4>1. own' = [own EXCEPT ![c] = << >>] BY <3>5, SettledRows DEF Commit, Rollback
        <4>2. own'[c] = << >> BY <4>1 DEF DataTypes, IsFcn
        <4> QED BY <4>2
      <3> QED BY <1>2, <3>1, <3>2, <3>3, <3>4, <3>5, DataSteps
    <2> QED BY <2>1, <2>2 DEF OwnTables
  <1> QED BY <1>1, <1>2, StepKinds
-----------------------------------------------------------------------------
\* The relay has entries of the outbox in hand, and marks them once they are published.
RelayOK(c) ==
  /\ pc[c] = "unlock" => job[c].kind = "command"
  /\ job[c].kind = "relay" =>
       /\ pc[c] \in {"publish", "mark"} => \A pk \in found[c][1] : pk[1] = "outbox"
       /\ pc[c] = "mark" => \A pk \in found[c][1] : pk[2] \in published
RelayInv == \A c \in Clients : RelayOK(c)

LEMMA PublishedGrows ==
  ASSUME [DatabaseNext]_databaseVars PROVE published \subseteq published'
  <1>1. ASSUME NEW c \in Clients, ClientStep(c) PROVE published \subseteq published'
    BY <1>1 DEF ClientStep, CommandStep, LoadSnapshot, Load, Save, SaveOutbox, Commit, Rollback, FindSnapshot,
                SaveSnapshot, Publish, MarkByEventIds, OperationFails, BackgroundStep, RelayLoad,
                RelayPublish, RelayMark, RelayCleanup, ReadBegins, ReadPage, Check, DeleteExpired,
                Handle, MarkProcessed, Sweep, LockStep, TakeLock, AskAgain, GiveUp, DropLock, LockRefused,
                LockReturned, localVars
  <1> QED BY <1>1, StepKinds DEF Quiet

LEMMA RelayBatch ==
  ASSUME NEW b, b \in By(D!OutboxLoadUnpublished(rows, Batch), P!OutboxLoadUnpublished(rows, Batch),
                         T!OutboxLoadUnpublished(rows, Batch))
  PROVE  b \subseteq Unpublished(rows)
  BY UnpublishedBy DEF By, D!OutboxLoadUnpublished, P!OutboxLoadUnpublished, T!OutboxLoadUnpublished,
     D!Oldest, P!Oldest, T!Oldest

\* The stage of a client that is not a command.
LEMMA StepRelay ==
  ASSUME DataTypes, RelayInv, [DatabaseNext]_databaseVars PROVE RelayInv'
  <1>0. published \subseteq published' BY PublishedGrows
  <1>1. CASE Quiet BY <1>1 DEF Quiet, RelayInv, RelayOK
  <1>2. ASSUME NEW c \in Clients, ClientStep(c) PROVE RelayInv'
    <2>1. Others(c) BY <1>2, ClientFrame
    <2>2. \A d \in Clients \ {c} : RelayOK(d)' BY <1>0, <2>1 DEF Others, RelayInv, RelayOK
    <2>3. RelayOK(c)'
      <3> USE <2>1 DEF RelayInv, RelayOK, Others, At, Goto, Finish
      <3>1. CASE RelayLoad(c)
        <4>1. PICK b : b \subseteq Unpublished(rows) /\ found' = [found EXCEPT ![c] = <<b>>]
          BY <3>1, RelayBatch DEF RelayLoad
        <4>2. found'[c][1] = b BY <4>1 DEF DataTypes, IsFcn
        <4>3. pc'[c] = "publish" BY <3>1 DEF RelayLoad, DataTypes
        <4> QED BY <4>1, <4>2, <4>3 DEF Unpublished, Table
      <3>2. CASE RelayPublish(c)
        <4>1. /\ found'[c] = found[c] /\ pc'[c] = "mark" /\ pc[c] = "publish" /\ job[c].kind = "relay"
              /\ published' = published \cup {pk[2] : pk \in found[c][1]}
          BY <3>2 DEF RelayPublish, DataTypes
        <4> QED BY <4>1
      <3>3. CASE RelayMark(c) \/ RelayCleanup(c)
        <4>1. pc'[c] \in {"cleanup", "done"} BY <3>3 DEF RelayMark, RelayCleanup, DataTypes
        <4> QED BY <4>1
      <3>4. CASE CommandStep(c) \/ OperationFails(c)
        <4>1. job[c].kind = "command"
          BY <3>4 DEF CommandStep, LoadSnapshot, Load, Save, SaveOutbox, Commit, Rollback, FindSnapshot,
                      SaveSnapshot, Publish, MarkByEventIds, OperationFails
        <4> QED BY <4>1
      <3>5. CASE TakeLock(c) \/ AskAgain(c) \/ GiveUp(c) \/ DropLock(c)
        <4>1. UNCHANGED <<pc, found>> BY <3>5 DEF TakeLock, AskAgain, GiveUp, DropLock, localVars
        <4> QED BY <4>1, <1>0
      <3>6. CASE LockRefused(c)
        <4>1. pc'[c] = "done" BY <3>6 DEF LockRefused, DataTypes
        <4> QED BY <4>1
      <3>7. CASE LockReturned(c)
        <4>1. pc[c] = "unlock" /\ pc'[c] # "unlock" BY <3>7 DEF LockReturned, AfterCommit, DataTypes
        <4> QED BY <4>1
      <3>8. CASE ReadBegins(c) \/ Check(c) \/ DeleteExpired(c) \/ Handle(c) \/ MarkProcessed(c) \/ Sweep(c)
        <4>1. job[c].kind # "relay"
          BY <3>8 DEF ReadBegins, Check, DeleteExpired, Handle, MarkProcessed, Sweep
        <4>2. pc'[c] # "unlock"
          BY <3>8 DEF ReadBegins, Check, DeleteExpired, Handle, MarkProcessed, Sweep, DataTypes
        <4> QED BY <4>1, <4>2
      <3>9. CASE ReadPage(c)
        <4>1. job[c].kind = "reader" /\ pc[c] = "read" BY <3>9 DEF ReadPage
        <4>2. pc' = [pc EXCEPT ![c] = "done"] \/ pc' = pc BY <3>9 DEF ReadPage
        <4>3. pc'[c] # "unlock" BY <4>1, <4>2 DEF DataTypes
        <4> QED BY <4>1, <4>3
      <3> QED BY <1>2, <3>1, <3>2, <3>3, <3>4, <3>5, <3>6, <3>7, <3>8, <3>9
              DEF ClientStep, LockStep, BackgroundStep
    <2> QED BY <2>2, <2>3 DEF RelayInv
  <1> QED BY <1>1, <1>2, StepKinds
-----------------------------------------------------------------------------
\* The records of withIdempotency.
HandledFor(k) == \E d \in Clients : result[d] = "handled" /\ wants[d] = k
RecordOK(k) ==
  <<"processed", k>> \in DOMAIN rows => HandledFor(k) /\ rows[<<"processed", k>>].at \in Int
DeliveryOK(c) ==
  /\ result[c] = "handled" => job[c].kind = "delivery" /\ pc[c] \in {"mark", "done"}
  /\ job[c].kind = "delivery" =>
       /\ pc[c] = "mark" => result[c] = "handled"
       /\ result[c] = "skipped" => HandledFor(wants[c])
SkipInv == (\A k : RecordOK(k)) /\ (\A c \in Clients : DeliveryOK(c))

\* Only markProcessed makes a record.
LEMMA RecordRows ==
  ASSUME DataTypes, OwnTables, RelayInv, NEW c \in Clients, ClientStep(c), NEW k,
         <<"processed", k>> \in DOMAIN rows'
  PROVE  \/ <<"processed", k>> \in DOMAIN rows /\ rows'[<<"processed", k>>] = rows[<<"processed", k>>]
         \/ MarkProcessed(c) /\ k = Key(c) /\ rows'[<<"processed", k>>] = [at |-> now]
  <1> DEFINE pk == <<"processed", k>>
  <1>1. CASE UNCHANGED rows BY <1>1
  <1>2. CASE Commit(c)
    <2>1. rows' = Over(own[c], rows) BY <1>2, SettledRows DEF Commit
    <2>2. pk \notin DOMAIN own[c] BY DEF OwnTables, Stores
    <2> QED BY <2>1, <2>2 DEF Over
  <1>3. CASE SaveSnapshot(c)
    <2>1. pk # <<"snapshots", Key(c)>> OBVIOUS
    <2>2. Same(pk) BY <1>3, <2>1, SnapshotRows
    <2> QED BY <2>2 DEF Same
  <1>4. CASE MarkByEventIds(c)
    <2>1. \A e : pk # <<"outbox", e>> OBVIOUS
    <2>2. Same(pk) BY <1>4, <2>1, MarkedRows
    <2> QED BY <2>2 DEF Same
  <1>5. CASE RelayMark(c) \/ RelayCleanup(c)
    <2>1. Same(pk)
      <3>1. CASE RelayCleanup(c)
        <4>1. pk \notin Table(rows, "outbox") BY DEF Table
        <4> QED BY <3>1, <4>1, CleanedRows
      <3>2. CASE RelayMark(c)
        <4>1. pk \notin found[c][1] BY <3>2 DEF RelayMark, At, RelayInv, RelayOK
        <4> QED BY <3>2, <4>1, RelayMarkedRows
      <3> QED BY <1>5, <3>1, <3>2
    <2> QED BY <2>1 DEF Same
  <1>6. CASE DeleteExpired(c)
    <2>1. Same(pk) \/ pk \notin DOMAIN rows' BY <1>6, ExpiredRows
    <2> QED BY <2>1 DEF Same
  <1>7. CASE Sweep(c)
    <2>1. Same(pk) \/ pk \notin DOMAIN rows' BY <1>7, SweptRows
    <2> QED BY <2>1 DEF Same
  <1>8. CASE MarkProcessed(c)
    <2>1. CASE pk = Record(c)
      <3>1. k = Key(c) BY <2>1 DEF Record
      <3> QED BY <1>8, <2>1, <3>1, RecordedRows DEF Same
    <2>2. CASE pk # Record(c) BY <1>8, <2>2, RecordedRows DEF Same
    <2> QED BY <2>1, <2>2
  <1> QED BY <1>1, <1>2, <1>3, <1>4, <1>5, <1>6, <1>7, <1>8, DataSteps

\* A completed handler stays completed.
LEMMA HandledStays ==
  ASSUME DataTypes, SkipInv, NEW c \in Clients, ClientStep(c)
  PROVE  \A d \in Clients : result[d] = "handled" =>
           result'[d] = "handled" /\ pc'[d] \in {"mark", "done"} /\ (d = c /\ MarkProcessed(c) => pc'[d] = "done")
  <1>1. Others(c) BY ClientFrame
  <1>2. ASSUME result[c] = "handled"
        PROVE  result'[c] = "handled" /\ pc'[c] \in {"mark", "done"} /\ (MarkProcessed(c) => pc'[c] = "done")
    <2>1. DeliveryOK(c) BY DEF SkipInv
    <2>2. job[c].kind = "delivery" /\ pc[c] \in {"mark", "done"} BY <1>2, <2>1 DEF DeliveryOK
    <2> USE <1>2, <2>2 DEF At, Goto, Finish
    <2>3. CASE MarkProcessed(c) BY <2>3 DEF MarkProcessed, DataTypes
    <2>4. CASE TakeLock(c) \/ AskAgain(c) \/ GiveUp(c) \/ DropLock(c)
      <3>1. UNCHANGED <<pc, result>> BY <2>4 DEF TakeLock, AskAgain, GiveUp, DropLock, localVars
      <3>2. ~MarkProcessed(c) \/ pc'[c] = "done" BY DEF MarkProcessed, DataTypes
      <3> QED BY <3>1, <3>2
    <2> QED BY <2>3, <2>4
            DEF ClientStep, CommandStep, LoadSnapshot, Load, Save, SaveOutbox, Commit, Rollback, FindSnapshot,
                SaveSnapshot, Publish, MarkByEventIds, OperationFails, BackgroundStep, RelayLoad,
                RelayPublish, RelayMark, RelayCleanup, ReadBegins, ReadPage, Check, DeleteExpired,
                Handle, Sweep, LockStep, LockRefused, LockReturned
  <1>3. \A d \in Clients : result[d] = "handled" => pc[d] \in {"mark", "done"} BY DEF SkipInv, DeliveryOK
  <1> QED BY <1>1, <1>2, <1>3 DEF Others

\* What a step of a delivery, or of another client, makes of its results.
LEMMA DeliveryStep ==
  ASSUME DataTypes, SkipInv, NEW c \in Clients, ClientStep(c),
         \A k : HandledFor(k) => HandledFor(k)'
  PROVE  DeliveryOK(c)'
  <1>1. Others(c) BY ClientFrame
  <1>2. DeliveryOK(c) BY DEF SkipInv
  <1>3. CASE result[c] = "handled"
    <2>1. result'[c] = "handled" /\ pc'[c] \in {"mark", "done"} BY <1>3, HandledStays
    <2>2. job[c].kind = "delivery" /\ pc[c] \in {"mark", "done"} BY <1>2, <1>3 DEF DeliveryOK
    <2> QED BY <1>1, <1>2, <2>1, <2>2 DEF DeliveryOK, Others
  <1>4. CASE result[c] # "handled" /\ job[c].kind # "delivery"
    <2>1. result'[c] # "handled"
      <3> USE DEF At, Goto, Finish, DataTypes
      <3>1. CASE Save(c) \/ SaveOutbox(c) \/ OperationFails(c)
        <4>1. PICK reply : \E next : Operation(c, reply, next)
          BY <3>1, SavedOutbox DEF Save, OperationFails
        <4> QED BY <1>4, <4>1, OperationOwn
      <3>2. CASE LockReturned(c)
        BY <1>4, <3>2 DEF LockReturned
      <3>3. CASE Publish(c) \/ MarkByEventIds(c) \/ LockRefused(c) \/ RelayCleanup(c) \/ Sweep(c) \/ ReadPage(c)
        BY <1>4, <3>3 DEF Publish, MarkByEventIds, LockRefused, RelayCleanup, Sweep, ReadPage
      <3>4. CASE UNCHANGED result BY <1>4, <3>4
      <3>5. ~Check(c) /\ ~Handle(c) BY <1>4 DEF Check, Handle
      <3> QED BY <3>1, <3>2, <3>3, <3>4, <3>5
              DEF ClientStep, CommandStep, LoadSnapshot, Load, Commit, Rollback, FindSnapshot,
                  SaveSnapshot, BackgroundStep, RelayLoad, RelayPublish, RelayMark, ReadBegins,
                  DeleteExpired, MarkProcessed, LockStep, TakeLock, AskAgain, GiveUp, DropLock, localVars
    <2> QED BY <1>1, <1>4, <2>1 DEF DeliveryOK, Others
  <1>5. CASE result[c] # "handled" /\ job[c].kind = "delivery"
    <2> USE <1>5 DEF At, Goto, Finish
    <2>1. pc[c] # "mark" BY <1>2, <1>5 DEF DeliveryOK
    <2>2. CASE Check(c)
      <3>1. CASE pc'[c] \in {"handle", "expire"} /\ result'[c] = result[c]
        BY <1>1, <1>2, <3>1 DEF DeliveryOK, Others
      <3>2. CASE Record(c) \in DOMAIN rows /\ pc'[c] = "done" /\ result'[c] = "skipped"
        <4>1. HandledFor(wants[c]) BY <3>2 DEF SkipInv, RecordOK, Record, Key
        <4> QED BY <1>1, <1>2, <3>2, <4>1 DEF DeliveryOK, Others
      <3> QED BY <2>2, <3>1, <3>2 DEF Check, DataTypes
    <2>3. CASE Handle(c)
      <3>1. \/ pc'[c] = "mark" /\ result'[c] = "handled"
            \/ pc'[c] = "done" /\ result'[c] = "failed"
        BY <2>3 DEF Handle, DataTypes
      <3> QED BY <1>1, <1>2, <3>1 DEF DeliveryOK, Others
    <2>4. CASE DeleteExpired(c)
      <3>1. result'[c] = result[c] /\ pc'[c] = "handle"
        BY <2>4 DEF DeleteExpired, DataTypes
      <3> QED BY <1>1, <1>2, <3>1 DEF DeliveryOK, Others
    <2>5. CASE LockRefused(c)
      <3>1. result'[c] = "rejected" /\ pc'[c] = "done"
        BY <2>5 DEF LockRefused, DataTypes
      <3> QED BY <1>1, <1>2, <3>1 DEF DeliveryOK, Others
    <2>6. CASE LockReturned(c)
      <3>1. /\ result'[c] \in {result[c], "failed"}
            /\ pc'[c] # "mark"
        BY <2>6 DEF LockReturned, DataTypes, AfterCommit
      <3> QED BY <1>1, <1>2, <3>1 DEF DeliveryOK, Others
    <2>7. CASE TakeLock(c) \/ AskAgain(c) \/ GiveUp(c) \/ DropLock(c)
      <3>1. UNCHANGED <<pc, result>>
        BY <2>7 DEF TakeLock, AskAgain, GiveUp, DropLock, localVars
      <3> QED BY <1>1, <1>2, <3>1 DEF DeliveryOK, Others
    <2> QED BY <2>1, <2>2, <2>3, <2>4, <2>5, <2>6, <2>7
            DEF ClientStep, CommandStep, LoadSnapshot, Load, Save, SaveOutbox, Commit, Rollback, FindSnapshot,
                SaveSnapshot, Publish, MarkByEventIds, OperationFails, BackgroundStep, RelayLoad,
                RelayPublish, RelayMark, RelayCleanup, ReadBegins, ReadPage, MarkProcessed, Sweep, LockStep
  <1> QED BY <1>3, <1>4, <1>5

LEMMA StepSkips ==
  ASSUME DataTypes, OwnTables, RelayInv, SkipInv, [DatabaseNext]_databaseVars
  PROVE  SkipInv'
  <1>1. CASE Quiet BY <1>1 DEF Quiet, dataVars, SkipInv, RecordOK, DeliveryOK, HandledFor
  <1>2. ASSUME NEW c \in Clients, ClientStep(c), UNCHANGED now PROVE SkipInv'
    <2>1. Others(c) BY <1>2, ClientFrame
    <2>2. \A k : HandledFor(k) => HandledFor(k)' BY <1>2, <2>1, HandledStays DEF HandledFor, Others
    <2>3. DeliveryOK(c)' BY <1>2, <2>2, DeliveryStep
    <2>4. \A d \in Clients \ {c} : DeliveryOK(d)' BY <2>1, <2>2 DEF SkipInv, DeliveryOK, Others
    <2>5. ASSUME NEW k, <<"processed", k>> \in DOMAIN rows'
          PROVE  HandledFor(k)' /\ rows'[<<"processed", k>>].at \in Int
      <3>1. CASE <<"processed", k>> \in DOMAIN rows /\ rows'[<<"processed", k>>] = rows[<<"processed", k>>]
        BY <2>2, <3>1 DEF SkipInv, RecordOK
      <3>2. CASE MarkProcessed(c) /\ k = Key(c) /\ rows'[<<"processed", k>>] = [at |-> now]
        <4>1. job[c].kind = "delivery" /\ pc[c] = "mark" BY <3>2 DEF MarkProcessed, At
        <4>2. result[c] = "handled" BY <4>1 DEF SkipInv, DeliveryOK
        <4>3. HandledFor(k) BY <3>2, <4>2 DEF HandledFor, Key
        <4>4. rows'[<<"processed", k>>].at = now BY <3>2
        <4> QED BY <2>2, <4>3, <4>4 DEF DataTypes
      <3> QED BY <1>2, <2>5, <3>1, <3>2, RecordRows
    <2> QED BY <2>3, <2>4, <2>5 DEF SkipInv, RecordOK
  <1> QED BY <1>1, <1>2, StepKinds

\* withIdempotency skips a delivery only if the handler has completed for some
\* delivery of the same event, on any adapter and whatever its clock.
THEOREM DatabaseSkipsOnlyHandled == DatabaseSpec => []SkipsOnlyHandled
  <1> DEFINE Inv == DataTypes /\ OwnTables /\ RelayInv /\ SkipInv
  <1>1. DatabaseInit => Inv
    <2>1. SUFFICES ASSUME DatabaseInit PROVE Inv OBVIOUS
    <2>2. DataTypes BY <2>1, InitTypes
    <2>3. OwnTables BY <2>1 DEF DatabaseInit, OwnTables
    <2>4. \A c \in Clients : pc[c] \in {"start", "done"} BY <2>1 DEF DatabaseInit
    <2>5. RelayInv BY <2>4 DEF RelayInv, RelayOK
    <2>6. \A k : RecordOK(k) BY <2>1 DEF DatabaseInit, RecordOK
    <2>7. \A c \in Clients : DeliveryOK(c) BY <2>1, <2>4 DEF DatabaseInit, DeliveryOK
    <2> QED BY <2>2, <2>3, <2>5, <2>6, <2>7 DEF SkipInv
  <1>2. Inv /\ [DatabaseNext]_databaseVars => Inv'
    BY StepTypes, StepOwnTables, StepRelay, StepSkips
  <1>3. Inv => SkipsOnlyHandled
    BY DEF SkipInv, DeliveryOK, HandledFor, SkipsOnlyHandled, Key
  <1> QED BY <1>1, <1>2, <1>3, PTL DEF DatabaseSpec
-----------------------------------------------------------------------------
\* A record counts: as long as no delivery deleted it by mistake, it is there or has reached
\* the time to live.
KeyCounts(k) ==
  k \notin overtaken =>
    \A t \in recorded[k] :
      now - t >= Ttl \/ (<<"processed", k>> \in DOMAIN rows /\ rows[<<"processed", k>>].at = t)
CountInv ==
  /\ IsFcn(recorded, LockKeys) /\ \A k \in LockKeys : recorded[k] \subseteq Int
  /\ \A k \in LockKeys : KeyCounts(k)
  /\ \A c \in Clients : job[c].kind = "delivery" /\ wants[c] \notin overtaken =>
       \A age \in before[c] : age >= Ttl

\* No time is read back as an earlier one than was written: the zone in which
\* Drizzle's timestamps are read is not east of UTC.
ClocksAgree == Zone <= 0

\* What expiry looks at.
LEMMA ExpiredAge ==
  ASSUME ClocksAgree, DataTypes, SkipInv, NEW c \in Clients, Record(c) \in DOMAIN rows,
         By(D!Expired(rows, Key(c), now), P!Expired(rows, Key(c), now), T!Expired(rows, Key(c), now))
  PROVE  now - rows[Record(c)].at > Ttl
  <1> DEFINE at == rows[<<"processed", Key(c)>>].at
  <1>1. at \in Int BY DEF SkipInv, RecordOK, Record
  <1>2. now \in Nat BY DEF DataTypes
  <1>3. D!Expired(rows, Key(c), now) => now - at > Ttl
    BY <1>1, <1>2, NumbersAssumption DEF D!Expired, D!ParsedTimestamp, ClocksAgree
  <1>4. (P!Expired(rows, Key(c), now) \/ T!Expired(rows, Key(c), now)) => now - at > Ttl
    BY DEF P!Expired, T!Expired
  <1> QED BY <1>3, <1>4 DEF By, Record

\* A record stays until it is deleted as expired, or swept at its time to live.
LEMMA RecordStays ==
  ASSUME DataTypes, OwnTables, RelayInv, NEW c \in Clients, ClientStep(c), NEW k,
         <<"processed", k>> \in DOMAIN rows
  PROVE  \/ Same(<<"processed", k>>)
         \/ DeleteExpired(c) /\ k = Key(c)
         \/ Sweep(c) /\ rows[<<"processed", k>>].at <= now - Ttl
  <1> DEFINE pk == <<"processed", k>>
  <1>1. CASE UNCHANGED rows BY <1>1 DEF Same
  <1>2. CASE Commit(c)
    <2>1. rows' = Over(own[c], rows) BY <1>2, SettledRows DEF Commit
    <2>2. pk \notin DOMAIN own[c] BY DEF OwnTables, Stores
    <2> QED BY <2>1, <2>2 DEF Over, Same
  <1>3. CASE SaveSnapshot(c)
    <2>1. pk # <<"snapshots", Key(c)>> OBVIOUS
    <2> QED BY <1>3, <2>1, SnapshotRows
  <1>4. CASE MarkByEventIds(c)
    <2>1. \A e : pk # <<"outbox", e>> OBVIOUS
    <2> QED BY <1>4, <2>1, MarkedRows
  <1>5. CASE RelayCleanup(c)
    <2>1. pk \notin Table(rows, "outbox") BY DEF Table
    <2> QED BY <1>5, <2>1, CleanedRows
  <1>6. CASE RelayMark(c)
    <2>1. pk \notin found[c][1] BY <1>6 DEF RelayMark, At, RelayInv, RelayOK
    <2> QED BY <1>6, <2>1, RelayMarkedRows
  <1>7. CASE DeleteExpired(c)
    <2>1. Same(pk) \/ pk = Record(c) BY <1>7, ExpiredRows
    <2> QED BY <1>7, <2>1 DEF Record
  <1>8. CASE Sweep(c)
    <2>1. Same(pk) \/ rows[pk].at <= now - Ttl BY <1>8, SweptRows
    <2> QED BY <1>8, <2>1
  <1>9. CASE MarkProcessed(c)
    <2>1. pk # Record(c) \/ Record(c) \in DOMAIN rows OBVIOUS
    <2> QED BY <1>9, <2>1, RecordedRows
  <1> QED BY <1>1, <1>2, <1>3, <1>4, <1>5, <1>6, <1>7, <1>8, <1>9, DataSteps

\* The history of the records is written when one is made, or deleted.
LEMMA RecordHistory ==
  ASSUME DataTypes, NEW c \in Clients, ClientStep(c)
  PROVE  /\ MarkProcessed(c) \/ recorded' = recorded
         /\ DeleteExpired(c) \/ overtaken' = overtaken
         /\ Check(c) \/ ReadBegins(c) \/ before' = before
  BY DEF ClientStep, CommandStep, LoadSnapshot, Load, Save, SaveOutbox, Commit, Rollback, FindSnapshot,
         SaveSnapshot, Publish, MarkByEventIds, OperationFails, BackgroundStep, RelayLoad,
         RelayPublish, RelayMark, RelayCleanup, ReadBegins, ReadPage, Check, DeleteExpired,
         Handle, MarkProcessed, Sweep, LockStep, TakeLock, AskAgain, GiveUp, DropLock, LockRefused,
         LockReturned, localVars, recordVars

\* A check lets a delivery through when no record counts any more.
LEMMA CheckedAges ==
  ASSUME ClocksAgree, DataTypes, SkipInv, CountInv, NEW c \in Clients, Check(c),
         wants[c] \notin overtaken
  PROVE  before' = before \/ (\A age \in before'[c] : age >= Ttl)
  <1> DEFINE k == Key(c)
  <1>1. k \in LockKeys /\ k \notin overtaken BY DEF Key, DataTypes, Jobs
  <1>2. recorded[k] \subseteq Int /\ KeyCounts(k) BY <1>1 DEF CountInv
  <1>3. CASE Record(c) \notin DOMAIN rows \/ By(D!Expired(rows, k, now), P!Expired(rows, k, now), T!Expired(rows, k, now))
    <2>1. ASSUME NEW t \in recorded[k] PROVE now - t >= Ttl
      <3>1. now - t >= Ttl \/ (Record(c) \in DOMAIN rows /\ rows[Record(c)].at = t)
        BY <1>1, <1>2, <2>1 DEF KeyCounts, Record
      <3>2. CASE Record(c) \in DOMAIN rows /\ rows[Record(c)].at = t
        <4>1. now - rows[Record(c)].at > Ttl BY <1>3, <3>2, ExpiredAge
        <4>2. t \in Int /\ now \in Nat BY <1>2, <2>1 DEF DataTypes
        <4> QED BY <3>2, <4>1, <4>2, NumbersAssumption
      <3> QED BY <3>1, <3>2
    <2>2. before' = before \/ before' = [before EXCEPT ![c] = Ages(k)] BY DEF Check
    <2>3. CASE before' = [before EXCEPT ![c] = Ages(k)]
      <3>1. before'[c] = Ages(k) BY <2>3 DEF DataTypes, IsFcn
      <3> QED BY <2>1, <3>1 DEF Ages
    <2> QED BY <2>2, <2>3
  <1>4. CASE Record(c) \in DOMAIN rows /\ ~By(D!Expired(rows, k, now), P!Expired(rows, k, now), T!Expired(rows, k, now))
    BY <1>4 DEF Check
  <1> QED BY <1>3, <1>4

\* The records of an event after a step of a client.
LEMMA CountedStep ==
  ASSUME DataTypes, OwnTables, RelayInv, SkipInv, CountInv, NEW c \in Clients, ClientStep(c),
         UNCHANGED now, NEW k \in LockKeys, k \notin overtaken'
  PROVE  recorded'[k] \subseteq Int /\ KeyCounts(k)'
  <1> DEFINE pk == <<"processed", k>>
  <1>1. k \notin overtaken /\ recorded[k] \subseteq Int /\ KeyCounts(k) /\ now \in Nat
    <2>1. k \notin overtaken BY RecordHistory DEF DeleteExpired
    <2> QED BY <2>1 DEF CountInv, DataTypes
  <1>2. ASSUME NEW t \in recorded[k]
        PROVE  now - t >= Ttl \/ (pk \in DOMAIN rows' /\ rows'[pk].at = t)
    <2>1. now - t >= Ttl \/ (pk \in DOMAIN rows /\ rows[pk].at = t) BY <1>1, <1>2 DEF KeyCounts
    <2>2. CASE pk \in DOMAIN rows /\ rows[pk].at = t
      <3>0. t \in Int BY <1>1, <1>2
      <3>1. CASE Same(pk) BY <2>2, <3>1 DEF Same
      <3>2. CASE DeleteExpired(c) /\ k = Key(c)
        <4>1. ~(now - rows[pk].at <= Ttl) BY <2>2, <3>2 DEF DeleteExpired, Record
        <4> QED BY <1>1, <2>2, <3>0, <4>1, NumbersAssumption
      <3>3. CASE Sweep(c) /\ rows[pk].at <= now - Ttl
        BY <1>1, <2>2, <3>0, <3>3, NumbersAssumption
      <3> QED BY <2>2, <3>1, <3>2, <3>3, RecordStays
    <2> QED BY <2>1, <2>2
  <1>3. CASE recorded'[k] = recorded[k]
    BY <1>1, <1>2, <1>3 DEF KeyCounts
  <1>4. CASE recorded'[k] # recorded[k]
    <2>1. MarkProcessed(c) /\ recorded' # recorded BY <1>4, RecordHistory
    <2>2. Record(c) \notin DOMAIN rows /\ recorded' = [recorded EXCEPT ![Key(c)] = @ \cup {now}]
      BY <2>1 DEF MarkProcessed
    <2>3. k = Key(c) /\ recorded'[k] = recorded[k] \cup {now} BY <1>4, <2>2 DEF CountInv, IsFcn
    <2>4. pk \in DOMAIN rows' /\ rows'[pk].at = now BY <2>1, <2>2, <2>3, RecordedRows DEF Record
    <2> QED BY <1>1, <1>2, <2>3, <2>4 DEF KeyCounts
  <1> QED BY <1>3, <1>4

LEMMA StepCounts ==
  ASSUME ClocksAgree, DataTypes, OwnTables, RelayInv, SkipInv, CountInv, [DatabaseNext]_databaseVars
  PROVE  CountInv'
  <1>1. CASE Quiet /\ (UNCHANGED now \/ now' = now + 1)
    <2>1. UNCHANGED <<rows, job, wants, before, recorded, overtaken>> BY <1>1 DEF Quiet, dataVars, recordVars
    <2>2. ASSUME NEW k \in LockKeys, k \notin overtaken, NEW t \in recorded[k]
          PROVE  now' - t >= Ttl \/ (<<"processed", k>> \in DOMAIN rows /\ rows[<<"processed", k>>].at = t)
      <3>1. now - t >= Ttl \/ (<<"processed", k>> \in DOMAIN rows /\ rows[<<"processed", k>>].at = t)
        BY <2>2 DEF CountInv, KeyCounts
      <3>2. t \in Int /\ now \in Nat BY <2>2 DEF CountInv, DataTypes
      <3> QED BY <1>1, <3>1, <3>2, NumbersAssumption
    <2> QED BY <2>1, <2>2 DEF CountInv, KeyCounts, IsFcn
  <1>2. ASSUME NEW c \in Clients, ClientStep(c), UNCHANGED now PROVE CountInv'
    <2>1. Others(c) BY <1>2, ClientFrame
    <2>2. IsFcn(recorded, LockKeys)'
      <3>1. recorded' = recorded \/ recorded' = [recorded EXCEPT ![Key(c)] = @ \cup {now}]
        BY <1>2, RecordHistory DEF MarkProcessed
      <3> QED BY <3>1 DEF CountInv, IsFcn
    <2>3. \A k \in LockKeys : recorded'[k] \subseteq Int
      <3>1. recorded' = recorded \/ recorded' = [recorded EXCEPT ![Key(c)] = @ \cup {now}]
        BY <1>2, RecordHistory DEF MarkProcessed
      <3>2. now \in Int BY DEF DataTypes
      <3> QED BY <3>1, <3>2 DEF CountInv, IsFcn
    <2>4. \A k \in LockKeys : KeyCounts(k)' BY <1>2, CountedStep DEF KeyCounts
    <2>5. overtaken \subseteq overtaken' BY <1>2, RecordHistory DEF DeleteExpired
    <2>6. ASSUME NEW d \in Clients, job[d].kind = "delivery", wants[d] \notin overtaken'
          PROVE  \A age \in before'[d] : age >= Ttl
      <3>1. \A age \in before[d] : age >= Ttl BY <2>5, <2>6 DEF CountInv
      <3>2. CASE d # c \/ before' = before BY <2>1, <3>1, <3>2 DEF Others
      <3>3. CASE d = c /\ before' # before
        <4>1. Check(c) BY <1>2, <2>6, <3>3, RecordHistory DEF ReadBegins, At
        <4> QED BY <2>5, <2>6, <3>3, <4>1, CheckedAges
      <3> QED BY <3>2, <3>3
    <2> QED BY <2>1, <2>2, <2>3, <2>4, <2>6 DEF CountInv, Others
  <1> QED BY <1>1, <1>2, StepKinds

\* A record counts as long as configured, through other deliveries that find it,
\* replace it or sweep it, unless one of them deleted it by mistake, as long as
\* no time is read back as an earlier one than was written.
THEOREM DatabaseRecordsCount ==
  ASSUME ClocksAgree PROVE DatabaseSpec => []RecordsCount
  <1> DEFINE Inv == DataTypes /\ OwnTables /\ RelayInv /\ SkipInv /\ CountInv
  <1>1. DatabaseInit => Inv
    <2>1. SUFFICES ASSUME DatabaseInit PROVE Inv OBVIOUS
    <2>2. DataTypes BY <2>1, InitTypes
    <2>3. OwnTables BY <2>1 DEF DatabaseInit, OwnTables
    <2>4. \A c \in Clients : pc[c] \in {"start", "done"} BY <2>1 DEF DatabaseInit
    <2>5. RelayInv BY <2>4 DEF RelayInv, RelayOK
    <2>6. \A k : RecordOK(k) BY <2>1 DEF DatabaseInit, RecordOK
    <2>7. \A c \in Clients : DeliveryOK(c) BY <2>1, <2>4 DEF DatabaseInit, DeliveryOK
    <2>8. CountInv BY <2>1 DEF DatabaseInit, CountInv, KeyCounts, IsFcn
    <2> QED BY <2>2, <2>3, <2>5, <2>6, <2>7, <2>8 DEF SkipInv
  <1>2. Inv /\ [DatabaseNext]_databaseVars => Inv'
    BY StepTypes, StepOwnTables, StepRelay, StepSkips, StepCounts
  <1>3. Inv => RecordsCount
    BY DEF CountInv, RecordsCount, Key
  <1> QED BY <1>1, <1>2, <1>3, PTL DEF DatabaseSpec

\* Both together: withIdempotency skips what was handled and only that, until its
\* records have expired, unless a delivery deleted a fresh one by mistake.
THEOREM DatabaseRecordsDecide ==
  ASSUME ClocksAgree PROVE DatabaseSpec => []RecordsDecide
  <1>1. SkipsOnlyHandled /\ RecordsCount => RecordsDecide BY DEF RecordsDecide
  <1> QED BY <1>1, DatabaseSkipsOnlyHandled, DatabaseRecordsCount, PTL
-----------------------------------------------------------------------------
InTransaction == {"outbox", "commit", "rollback"}
Transactional(c) == Save(c) \/ SaveOutbox(c) \/ OperationFails(c) \/ Commit(c) \/ Rollback(c)

\* How a client comes to the stages of a command.
LEMMA StageSteps ==
  ASSUME DataTypes, RelayInv, NEW c \in Clients, ClientStep(c), ~Transactional(c), pc'[c] # pc[c]
  PROVE  /\ pc[c] \notin InTransaction \cup {"save"} /\ pc'[c] \notin InTransaction
         /\ pc'[c] = "save" => Load(c)
         /\ pc'[c] = "load" => LoadSnapshot(c)
         /\ pc'[c] = "mark" /\ job[c].kind = "command" => Publish(c)
         /\ pc'[c] = "snapshot" => FindSnapshot(c)
         /\ pc'[c] = "find" => LockReturned(c)
         /\ pc'[c] \in {"expire", "handle"} => job[c].kind = "delivery"
         /\ pc'[c] = "read" => job[c].kind = "reader"
  <1> USE DEF At, Goto, Finish, InTransaction
  <1>1. CASE LoadSnapshot(c) \/ Load(c) \/ FindSnapshot(c) \/ SaveSnapshot(c) \/ Publish(c) \/ MarkByEventIds(c)
    BY <1>1 DEF LoadSnapshot, Load, FindSnapshot, SaveSnapshot, Publish, MarkByEventIds, DataTypes
  <1>2. CASE RelayLoad(c) \/ RelayPublish(c) \/ RelayMark(c) \/ RelayCleanup(c)
    BY <1>2 DEF RelayLoad, RelayPublish, RelayMark, RelayCleanup, DataTypes
  <1>3. CASE ReadBegins(c) \/ DeleteExpired(c) \/ Handle(c) \/ MarkProcessed(c) \/ Sweep(c)
    BY <1>3 DEF ReadBegins, DeleteExpired, Handle, MarkProcessed, Sweep, DataTypes
  <1>4. CASE ReadPage(c)
    <2>1. pc[c] = "read" /\ (pc' = [pc EXCEPT ![c] = "done"] \/ pc' = pc) BY <1>4 DEF ReadPage
    <2>2. pc'[c] = "done" BY <2>1 DEF DataTypes
    <2> QED BY <2>1, <2>2
  <1>5. CASE Check(c)
    <2>1. job[c].kind = "delivery" /\ pc[c] = "start" BY <1>5 DEF Check
    <2>2. pc'[c] \in {"handle", "expire", "done"} BY <1>5 DEF Check, DataTypes
    <2> QED BY <2>1, <2>2
  <1>6. CASE LockReturned(c)
    BY <1>6 DEF LockReturned, AfterCommit, DataTypes
  <1>7. CASE LockRefused(c) BY <1>7 DEF LockRefused, DataTypes
  <1>8. CASE TakeLock(c) \/ AskAgain(c) \/ GiveUp(c) \/ DropLock(c)
    BY <1>8 DEF TakeLock, AskAgain, GiveUp, DropLock, localVars
  <1> QED BY <1>1, <1>2, <1>3, <1>4, <1>5, <1>6, <1>7, <1>8
          DEF ClientStep, CommandStep, LockStep, BackgroundStep, Transactional
-----------------------------------------------------------------------------
\* What a transaction holds of the outbox.
OutboxOwn(c) ==
  /\ DOMAIN own[c] # {} => job[c].kind = "command" /\ pc[c] \in InTransaction
  /\ \A pk \in DOMAIN own[c] : pk[1] = "outbox" =>
       ~own[c][pk].published /\ \E e \in ToSet(Events(c)) : pk = <<"outbox", e>>
  /\ job[c].kind = "command" /\ pc[c] = "commit" /\ job[c].outbox =>
       \A e \in ToSet(Events(c)) : <<"outbox", e>> \in DOMAIN own[c]
  /\ job[c].kind = "command" /\ pc[c] = "mark" => ToSet(Events(c)) \subseteq published

\* An entry of the outbox is that of a committed event; it is marked after the
\* event was published, and none is missing before.
OutboxEntry(pk) == pk[2] \in Committed /\ (rows[pk].published => pk[2] \in published)
Backlog(c) ==
  job[c].outbox => \A e \in ToSet(Events(c)) \ published :
                     e \in Committed => <<"outbox", e>> \in Unpublished(rows)
OutboxInv ==
  /\ \A c \in Clients : OutboxOwn(c) /\ Backlog(c)
  /\ \A pk \in Table(rows, "outbox") : OutboxEntry(pk)

\* The committed events after a commit.
LEMMA CommittedAfter ==
  ASSUME DataTypes, NEW c \in Clients, Commit(c)
  PROVE  Committed' = Committed \cup ToSet(Events(c))
  <1> DEFINE sk == <<job[c].store, Key(c)>>
  <1>1. sk \in Stored BY DEF DataTypes, Jobs, Stored, Key
  <1>2. history[sk] \in Seq(AllEvents) /\ Events(c) \in Seq(AllEvents) BY <1>1, EventTypes DEF DataTypes
  <1>3. ToSet(history[sk] \o Events(c)) = ToSet(history[sk]) \cup ToSet(Events(c))
    <2>1. \A s, t \in Seq(AllEvents) : ToSet(s \o t) = ToSet(s) \cup ToSet(t)
      <3>1. SUFFICES ASSUME NEW s \in Seq(AllEvents), NEW t \in Seq(AllEvents)
                     PROVE  ToSet(s \o t) = ToSet(s) \cup ToSet(t)
        OBVIOUS
      <3>2. /\ Len(s \o t) = Len(s) + Len(t)
            /\ \A i \in 1 .. Len(s) : (s \o t)[i] = s[i]
            /\ \A i \in 1 .. Len(t) : (s \o t)[i + Len(s)] = t[i]
            /\ \A i \in 1 .. Len(s) + Len(t) : i \in 1 .. Len(s) \/ i - Len(s) \in 1 .. Len(t)
            /\ \A i \in Len(s) + 1 .. Len(s) + Len(t) : (s \o t)[i] = t[i - Len(s)]
            /\ Len(s) \in Nat /\ Len(t) \in Nat
        OBVIOUS
      <3>3. /\ DOMAIN (s \o t) = 1 .. Len(s) + Len(t) /\ DOMAIN s = 1 .. Len(s) /\ DOMAIN t = 1 .. Len(t)
        OBVIOUS
      <3>4. \A i \in 1 .. Len(t) : i + Len(s) \in 1 .. Len(s) + Len(t) BY <3>2
      <3>5. \A i \in 1 .. Len(s) : i \in 1 .. Len(s) + Len(t) BY <3>2
      <3>6. ToSet(s \o t) \subseteq ToSet(s) \cup ToSet(t) BY <3>2, <3>3 DEF ToSet
      <3>7. ASSUME NEW e \in ToSet(s) PROVE e \in ToSet(s \o t)
        <4>1. PICK i \in 1 .. Len(s) : e = s[i] BY <3>3 DEF ToSet
        <4>2. i \in 1 .. Len(s) + Len(t) /\ (s \o t)[i] = e BY <3>2, <3>5, <4>1
        <4> QED BY <3>3, <4>2 DEF ToSet
      <3>8. ASSUME NEW e \in ToSet(t) PROVE e \in ToSet(s \o t)
        <4>1. PICK i \in 1 .. Len(t) : e = t[i] BY <3>3 DEF ToSet
        <4>2. i + Len(s) \in 1 .. Len(s) + Len(t) /\ (s \o t)[i + Len(s)] = e BY <3>2, <3>4, <4>1
        <4> QED BY <3>3, <4>2 DEF ToSet
      <3> QED BY <3>6, <3>7, <3>8
    <2> QED BY <1>2, <2>1
  <1>4. /\ history'[sk] = history[sk] \o Events(c)
        /\ \A x \in Stored : x # sk => history'[x] = history[x]
    BY <1>1 DEF Commit, DataTypes
  <1>5. \A x \in Stored : ToSet(history'[x]) = IF x = sk THEN ToSet(history[sk]) \cup ToSet(Events(c))
                                              ELSE ToSet(history[x])
    BY <1>3, <1>4
  <1> QED BY <1>1, <1>5 DEF Committed

LEMMA CommittedSame == ASSUME UNCHANGED history PROVE Committed' = Committed
  BY DEF Committed

\* The part of the outbox in one client's transaction, after its step.
LEMMA StepOutboxOwn ==
  ASSUME DataTypes, RelayInv, NEW c \in Clients, OutboxOwn(c), ClientStep(c), published \subseteq published'
  PROVE  OutboxOwn(c)'
  <1>1. Others(c) BY ClientFrame
  <1>2. job' = job /\ Events(c)' = Events(c) BY <1>1 DEF Others, Events
  <1>3. CASE ~Transactional(c)
    <2>1. own'[c] = own[c] BY <1>3, DataSteps DEF Transactional
    <2>2. CASE pc'[c] = pc[c] BY <1>2, <2>1, <2>2 DEF OutboxOwn
    <2>3. CASE pc'[c] # pc[c]
      <3>1. pc[c] \notin InTransaction /\ pc'[c] \notin InTransaction BY <1>3, <2>3, StageSteps
      <3>2. DOMAIN own'[c] = {} BY <2>1, <3>1 DEF OutboxOwn
      <3>3. ASSUME job[c].kind = "command", pc'[c] = "mark" PROVE ToSet(Events(c)) \subseteq published'
        <4>1. Publish(c) BY <1>3, <2>3, <3>3, StageSteps
        <4> QED BY <4>1 DEF Publish
      <3> QED BY <1>2, <3>1, <3>2, <3>3 DEF OutboxOwn, InTransaction
    <2> QED BY <2>2, <2>3
  <1>4. CASE Save(c)
    <2>1. /\ DOMAIN own'[c] = DOMAIN Saved(c).new \cup DOMAIN own[c]
          /\ pc'[c] = IF Saved(c).error = "none" THEN IF job[c].outbox THEN "outbox" ELSE "commit"
                      ELSE "rollback"
      BY <1>4, OperationOwn DEF Save
    <2>2. job[c].kind = "command" /\ pc[c] = "save" BY <1>4 DEF Save, At
    <2>3. DOMAIN own[c] = {} BY <2>2 DEF OutboxOwn, InTransaction
    <2>4. \A pk \in DOMAIN own'[c] : pk[1] \in Stores
      BY <2>1, <2>3, SavedTables DEF DataTypes, Jobs
    <2>5. pc'[c] \in InTransaction /\ (pc'[c] = "commit" => ~job[c].outbox)
      BY <2>1 DEF InTransaction
    <2> QED BY <1>2, <2>2, <2>4, <2>5 DEF OutboxOwn, InTransaction, Stores
  <1>5. CASE SaveOutbox(c)
    <2> DEFINE ins == INSERT(Seen(c), Entry(c))
    <2>1. /\ DOMAIN own'[c] = DOMAIN ins.new \cup DOMAIN own[c]
          /\ \A pk \in DOMAIN ins.new : own'[c][pk] = ins.new[pk]
          /\ \A pk \in DOMAIN own[c] : pk \notin DOMAIN ins.new => own'[c][pk] = own[c][pk]
          /\ pc'[c] = IF ins.error = "none" THEN "commit" ELSE "rollback"
      BY <1>5, SavedOutbox, OperationOwn
    <2>2. job[c].kind = "command" /\ pc[c] = "outbox" BY <1>5 DEF SaveOutbox, At
    <2>3. \/ ins.error = "none" /\ ins.new = Entry(c)
          \/ ins.error # "none" /\ ins.new = << >>
      BY DEF INSERT, Reply, Raise
    <2>4. /\ \A pk \in DOMAIN Entry(c) : /\ ~Entry(c)[pk].published
                                         /\ \E e \in ToSet(Events(c)) : pk = <<"outbox", e>>
          /\ \A e \in ToSet(Events(c)) : <<"outbox", e>> \in DOMAIN Entry(c)
      BY DEF Entry
    <2> HIDE DEF ins
    <2>5. CASE ins.error = "none" /\ ins.new = Entry(c)
      BY <1>2, <2>1, <2>2, <2>4, <2>5 DEF OutboxOwn, InTransaction
    <2>6. CASE ins.error # "none" /\ ins.new = << >>
      BY <1>2, <2>1, <2>2, <2>6 DEF OutboxOwn, InTransaction
    <2> QED BY <2>3, <2>5, <2>6
  <1>6. CASE OperationFails(c)
    <2> DEFINE err == Raise("driver error")
    <2>1. err.new = << >> /\ err.error # "none" BY DEF Raise
    <2>2. /\ DOMAIN own'[c] = DOMAIN err.new \cup DOMAIN own[c]
          /\ \A pk \in DOMAIN own[c] : pk \notin DOMAIN err.new => own'[c][pk] = own[c][pk]
          /\ pc'[c] = IF err.error = "none" THEN "commit" ELSE "rollback"
      BY <1>6, OperationOwn DEF OperationFails
    <2>3. job[c].kind = "command" BY <1>6 DEF OperationFails, At
    <2> HIDE DEF err
    <2> QED BY <1>2, <2>1, <2>2, <2>3 DEF OutboxOwn, InTransaction
  <1>7. CASE Commit(c) \/ Rollback(c)
    <2>1. own' = [own EXCEPT ![c] = << >>] BY <1>7, SettledRows DEF Commit, Rollback
    <2>2. own'[c] = << >> BY <2>1 DEF DataTypes, IsFcn
    <2>3. pc'[c] \in {"unlock", "find", "publish", "done"}
      BY <1>7 DEF Commit, Rollback, Goto, AfterCommit, DataTypes
    <2> QED BY <2>2, <2>3 DEF OutboxOwn
  <1> QED BY <1>3, <1>4, <1>5, <1>6, <1>7 DEF Transactional

\* The rows of the outbox after a step of a client.
LEMMA StepOutboxRows ==
  ASSUME DataTypes, OwnTables, RelayInv, OutboxInv, NEW c \in Clients, ClientStep(c),
         published \subseteq published'
  PROVE  /\ \A pk \in Table(rows', "outbox") : OutboxEntry(pk)'
         /\ \A d \in Clients : Backlog(d)'
  <1>1. Others(c) BY ClientFrame
  <1>2. job' = job /\ \A d \in Clients : Events(d)' = Events(d) BY <1>1 DEF Others, Events
  <1>3. ASSUME UNCHANGED history,
               \A pk \in Table(rows', "outbox") :
                 pk \in DOMAIN rows /\ (rows'[pk] = rows[pk] \/ pk[2] \in published),
               \A e \in AllEvents : <<"outbox", e>> \in DOMAIN rows =>
                 Same(<<"outbox", e>>) \/ e \in published
        PROVE  /\ \A pk \in Table(rows', "outbox") : OutboxEntry(pk)'
               /\ \A d \in Clients : Backlog(d)'
    <2>1. Committed' = Committed BY <1>3, CommittedSame
    <2>2. ASSUME NEW pk \in Table(rows', "outbox") PROVE OutboxEntry(pk)'
      <3>1. pk \in Table(rows, "outbox") BY <1>3 DEF Table
      <3> QED BY <1>3, <2>1, <3>1 DEF OutboxInv, OutboxEntry
    <2>3. ASSUME NEW d \in Clients, job[d].outbox, NEW e \in ToSet(Events(d)) \ published', e \in Committed
          PROVE  <<"outbox", e>> \in Unpublished(rows')
      <3>1. <<"outbox", e>> \in Unpublished(rows) BY <2>3 DEF OutboxInv, Backlog
      <3>2. e \in AllEvents BY EventTypes
      <3>3. Same(<<"outbox", e>>) BY <1>3, <2>3, <3>1, <3>2 DEF Unpublished, Table
      <3> QED BY <3>1, <3>3 DEF Unpublished, Table, Same
    <2> QED BY <1>2, <2>1, <2>2, <2>3 DEF Backlog
  <1>4. ASSUME UNCHANGED history, \A pk : pk[1] = "outbox" => Same(pk)
        PROVE  /\ \A pk \in Table(rows', "outbox") : OutboxEntry(pk)'
               /\ \A d \in Clients : Backlog(d)'
    <2>1. \A pk \in Table(rows', "outbox") : pk \in DOMAIN rows /\ rows'[pk] = rows[pk]
      BY <1>4 DEF Table, Same
    <2>2. \A e : Same(<<"outbox", e>>) BY <1>4
    <2> QED BY <1>3, <1>4, <2>1, <2>2
  <1>5. CASE UNCHANGED <<rows, history>> BY <1>4, <1>5 DEF Same
  <1>6. CASE SaveSnapshot(c) /\ UNCHANGED history
    <2>1. \A pk : pk[1] = "outbox" => pk # <<"snapshots", Key(c)>> OBVIOUS
    <2> QED BY <1>4, <1>6, <2>1, SnapshotRows
  <1>7. CASE DeleteExpired(c) /\ UNCHANGED history
    <2>1. \A pk : pk[1] = "outbox" => pk # Record(c) BY DEF Record
    <2> QED BY <1>4, <1>7, <2>1, ExpiredRows
  <1>8. CASE Sweep(c) /\ UNCHANGED history BY <1>4, <1>8, SweptRows
  <1>9. CASE MarkProcessed(c) /\ UNCHANGED history
    <2>1. \A pk : pk[1] = "outbox" => pk # Record(c) BY DEF Record
    <2> QED BY <1>4, <1>9, <2>1, RecordedRows
  <1>10. CASE MarkByEventIds(c) /\ UNCHANGED history
    <2>1. ToSet(Events(c)) \subseteq published BY <1>10 DEF MarkByEventIds, At, OutboxInv, OutboxOwn
    <2>2. \A pk : Same(pk) \/ (pk \in DOMAIN rows /\ \E e \in ToSet(Events(c)) : pk = <<"outbox", e>>)
      BY <1>10, MarkedRows
    <2>3. \A pk \in Table(rows', "outbox") : pk \in DOMAIN rows /\ (rows'[pk] = rows[pk] \/ pk[2] \in published)
      BY <2>1, <2>2 DEF Table, Same
    <2>4. \A e : Same(<<"outbox", e>>) \/ e \in published BY <2>1, <2>2
    <2> QED BY <1>3, <1>10, <2>3, <2>4
  <1>11. CASE RelayMark(c) /\ UNCHANGED history
    <2>1. \A pk \in found[c][1] : pk[2] \in published BY <1>11 DEF RelayMark, At, RelayInv, RelayOK
    <2>2. \A pk : Same(pk) \/ (pk \in DOMAIN rows /\ pk \in found[c][1]) BY <1>11, RelayMarkedRows
    <2>3. \A pk \in Table(rows', "outbox") : pk \in DOMAIN rows /\ (rows'[pk] = rows[pk] \/ pk[2] \in published)
      BY <2>1, <2>2 DEF Table, Same
    <2>4. \A e : Same(<<"outbox", e>>) \/ e \in published
      <3>1. \A e : <<"outbox", e>>[2] = e OBVIOUS
      <3> QED BY <2>1, <2>2, <3>1
    <2> QED BY <1>3, <1>11, <2>3, <2>4
  <1>12. CASE RelayCleanup(c) /\ UNCHANGED history
    <2>1. \A pk : Same(pk) \/ (pk \in Table(rows, "outbox") \ Unpublished(rows) /\ pk \notin DOMAIN rows')
      BY <1>12, CleanedRows
    <2>2. \A pk \in Table(rows', "outbox") : pk \in DOMAIN rows /\ rows'[pk] = rows[pk]
      BY <2>1 DEF Table, Same
    <2>3. ASSUME NEW e, ~Same(<<"outbox", e>>) PROVE e \in published
      <3>1. <<"outbox", e>> \in Table(rows, "outbox") /\ rows[<<"outbox", e>>].published
        BY <2>1, <2>3 DEF Unpublished
      <3>2. OutboxEntry(<<"outbox", e>>) BY <3>1 DEF OutboxInv
      <3> QED BY <3>1, <3>2 DEF OutboxEntry
    <2> QED BY <1>3, <1>12, <2>2, <2>3
  <1>13. CASE Commit(c)
    <2>1. rows' = Over(own[c], rows) BY <1>13, SettledRows DEF Commit
    <2>2. Committed' = Committed \cup ToSet(Events(c)) BY <1>13, CommittedAfter
    <2>3. OutboxOwn(c) /\ job[c].kind = "command" /\ pc[c] = "commit"
      BY <1>13 DEF OutboxInv, Commit, At
    <2>4. UNCHANGED published BY <1>13 DEF Commit
    <2>5. ASSUME NEW pk \in Table(rows', "outbox") PROVE OutboxEntry(pk)'
      <3>1. CASE pk \in DOMAIN own[c]
        <4>1. rows'[pk] = own[c][pk] BY <2>1, <3>1 DEF Over
        <4>2. ~own[c][pk].published /\ pk[2] \in ToSet(Events(c))
          BY <2>3, <2>5, <3>1 DEF OutboxOwn, Table
        <4> QED BY <2>2, <4>1, <4>2 DEF OutboxEntry
      <3>2. CASE pk \notin DOMAIN own[c]
        <4>1. pk \in Table(rows, "outbox") /\ rows'[pk] = rows[pk] BY <2>1, <2>5, <3>2 DEF Over, Table
        <4> QED BY <2>2, <2>4, <4>1 DEF OutboxInv, OutboxEntry
      <3> QED BY <3>1, <3>2
    <2>6. ASSUME NEW d \in Clients, job[d].outbox, NEW e \in ToSet(Events(d)) \ published, e \in Committed'
          PROVE  <<"outbox", e>> \in Unpublished(rows')
      <3> DEFINE pk == <<"outbox", e>>
      <3>1. CASE pk \in DOMAIN own[c]
        <4>1. pk \in DOMAIN rows' /\ rows'[pk] = own[c][pk] BY <2>1, <3>1 DEF Over
        <4>2. ~own[c][pk].published BY <2>3, <3>1 DEF OutboxOwn
        <4> QED BY <4>1, <4>2 DEF Unpublished, Table
      <3>2. CASE pk \notin DOMAIN own[c]
        <4>1. e \notin ToSet(Events(c))
          <5>1. d = c => e \in ToSet(Events(c)) /\ pk \in DOMAIN own[c] BY <2>3, <2>6 DEF OutboxOwn
          <5>2. d # c => e \notin ToSet(Events(c)) BY <2>6, EventsAssumption DEF Events
          <5> QED BY <3>2, <5>1, <5>2
        <4>2. pk \in Unpublished(rows) BY <2>2, <2>6, <4>1 DEF OutboxInv, Backlog
        <4>3. pk \in DOMAIN rows' /\ rows'[pk] = rows[pk] BY <2>1, <3>2, <4>2 DEF Over, Unpublished, Table
        <4> QED BY <4>2, <4>3 DEF Unpublished, Table
      <3> QED BY <3>1, <3>2
    <2> QED BY <1>2, <2>4, <2>5, <2>6 DEF Backlog
  <1> QED BY <1>5, <1>6, <1>7, <1>8, <1>9, <1>10, <1>11, <1>12, <1>13, DataSteps

LEMMA StepOutbox ==
  ASSUME DataTypes, OwnTables, RelayInv, OutboxInv, [DatabaseNext]_databaseVars PROVE OutboxInv'
  <1>0. published \subseteq published' BY PublishedGrows
  <1>1. CASE Quiet
    BY <1>1 DEF Quiet, dataVars, OutboxInv, OutboxOwn, OutboxEntry, Backlog, Committed, Events, Entry
  <1>2. ASSUME NEW c \in Clients, ClientStep(c) PROVE OutboxInv'
    <2>1. Others(c) BY <1>2, ClientFrame
    <2>2. OutboxOwn(c)' BY <1>0, <1>2, StepOutboxOwn DEF OutboxInv
    <2>3. \A d \in Clients \ {c} : OutboxOwn(d)' BY <1>0, <2>1 DEF OutboxInv, OutboxOwn, Others, Events
    <2>4. /\ \A pk \in Table(rows', "outbox") : OutboxEntry(pk)'
          /\ \A d \in Clients : Backlog(d)'
      BY <1>0, <1>2, StepOutboxRows
    <2> QED BY <2>2, <2>3, <2>4 DEF OutboxInv
  <1> QED BY <1>1, <1>2, StepKinds

\* The outbox and the log agree across crashes of the publication: an entry
\* exists only for a committed event, one is marked only after its event was
\* published, by the command or by the relay, and an event committed with the
\* outbox has an unpublished entry until it is published.
THEOREM DatabaseOutboxMatchesLog == DatabaseSpec => []OutboxMatchesLog
  <1> DEFINE Inv == DataTypes /\ OwnTables /\ RelayInv /\ OutboxInv
  <1>1. DatabaseInit => Inv
    <2>1. SUFFICES ASSUME DatabaseInit PROVE Inv OBVIOUS
    <2>2. DataTypes BY <2>1, InitTypes
    <2>3. OwnTables BY <2>1 DEF DatabaseInit, OwnTables
    <2>4. \A c \in Clients : pc[c] \in {"start", "done"} BY <2>1 DEF DatabaseInit
    <2>5. RelayInv BY <2>4 DEF RelayInv, RelayOK
    <2>6. Committed = {} BY <2>1 DEF DatabaseInit, Committed, ToSet
    <2>7. \A c \in Clients : OutboxOwn(c) BY <2>1, <2>4 DEF DatabaseInit, OutboxOwn
    <2>8. \A c \in Clients : Backlog(c) BY <2>6 DEF Backlog
    <2>9. Table(rows, "outbox") = {} BY <2>1 DEF DatabaseInit, Table
    <2> QED BY <2>2, <2>3, <2>5, <2>7, <2>8, <2>9 DEF OutboxInv
  <1>2. Inv /\ [DatabaseNext]_databaseVars => Inv'
    BY StepTypes, StepOwnTables, StepRelay, StepOutbox
  <1>3. Inv => OutboxMatchesLog
    BY DEF OutboxInv, OutboxEntry, Backlog, OutboxMatchesLog
  <1> QED BY <1>1, <1>2, <1>3, PTL DEF DatabaseSpec
=============================================================================
