----------------------- MODULE CommandLifecycleProofs -----------------------
(***************************************************************************)
(* What holds of CommandLifecycle for every set of calls, aggregates and   *)
(* wirings, and every number of events, retries and snapshots.             *)
(*                                                                         *)
(* The properties relate what is stored; the induction needs what a call   *)
(* carries from one await to the next.  Between its load and its commit    *)
(* other calls may save, so a call's copy is not the stored state but a    *)
(* replay of the stream up to the version it loaded (or, state-stored, the *)
(* stored state unless the version has moved on).  The version check turns *)
(* that into equality at the one moment it matters.  CallInv(c) states it  *)
(* for each stage of a call; a step of another call preserves it because   *)
(* stores only grow (StoresGrow).                                          *)
(***************************************************************************)
EXTENDS CommandLifecycle, SequenceTheorems, TLAPS

\* s is the replay of the first n events of the stream t.
IsReplay(s, n, t) == n <= Len(t) /\ s = SubSeq(t, 1, n)

Stream(c) == store[Target[c]].state

\* The stages that end with the attempt; the caller has seen no result yet.
Attempting == {"start", "lock", "loadSnapshot", "load", "decide", "commit",
               "saveId", "saveOutbox"}

\* The stages from the save to the end of the dispatch.
Saved(c) == \/ pc[c] \in {"saveId", "saveOutbox", "saveSnapshot", "publish"}
            \/ pc[c] = "unlock" /\ result[c] # "failed"

\* A call that is under way has an aggregate, no result before its attempt ends,
\* and commits in one step when the unit of work is a transaction.
CallUnderWay(c) ==
  /\ pc[c] # "done" => Target[c] \in Aggregates
  /\ pc[c] \in Attempting => result[c] = "pending"
  /\ Transactional => pc[c] \notin {"saveId", "saveOutbox"}

\* The snapshot a call starts from is a replay of the stream.
BaseIsReplay(c) ==
  pc[c] = "load" /\ EventSourced(c) =>
    IsReplay(att[c].base.state, att[c].base.version, Stream(c))

\* What the handler decides on is the stream up to the loaded version, or the
\* stored state unless the version has moved on.
LoadedWasStored(c) ==
  pc[c] \in {"decide", "commit"} =>
    IF EventSourced(c) THEN IsReplay(att[c].state, att[c].version, Stream(c))
    ELSE /\ att[c].version <= store[Target[c]].version
         /\ att[c].version = store[Target[c]].version => att[c].state = Stream(c)

\* The events to commit continue what the handler saw.
EventsContinue(c) ==
  pc[c] = "commit" =>
    \A i \in 1..Len(att[c].events) :
      /\ att[c].events[i].seq = att[c].version + i
      /\ att[c].events[i].by = c
      /\ att[c].events[i].saw = Len(att[c].state)

\* After the save, the stream begins with what the attempt computed, and a call
\* with events is recorded as a writer.
SavedIsStored(c) ==
  Saved(c) =>
    /\ EventSourced(c) =>
         IsReplay(att[c].state \o att[c].events, att[c].version + Len(att[c].events), Stream(c))
    /\ att[c].events # << >> => c \in writers[Target[c]]

CallInv(c) ==
  /\ CallUnderWay(c)
  /\ BaseIsReplay(c)
  /\ LoadedWasStored(c)
  /\ EventsContinue(c)
  /\ SavedIsStored(c)

\* The transaction that saves for a command also records its identifier.
WritersRecorded ==
  Transactional => \A a \in Aggregates : \A c \in writers[a] :
    HasId(c) => CommandId[c] \in processed

\* The evidence that a command went through its commit.
WentThrough(c) == c \in writers[Target[c]] \/ pc[c] = "saveOutbox" \/ result[c] = "ok"

\* RecordedWasCommitted, of a command that is addressed to an aggregate.
RecordedWentThrough ==
  IdsInTx => \A id \in processed :
    \E c \in Calls : CommandId[c] = id /\ Target[c] \in Aggregates /\ WentThrough(c)

LifecycleInv ==
  /\ LifecycleTypeOK
  /\ \A c \in Calls : CallInv(c)
  /\ SequenceGapFree
  /\ SnapshotsFaithful
  /\ WritersRecorded
  /\ EffectAtMostOnce
  /\ RecordedWentThrough

-----------------------------------------------------------------------------
(* Replays of a stream.                                                    *)

\* A stream that grows still replays to what was loaded from it.
LEMMA ReplayGrows ==
  ASSUME NEW S, NEW t \in Seq(S), NEW e \in Seq(S), NEW n \in Nat, NEW s,
         IsReplay(s, n, t)
  PROVE  IsReplay(s, n, t \o e)
<1>1. n <= Len(t) /\ s = SubSeq(t, 1, n)
  BY DEF IsReplay
<1>2. Len(t \o e) = Len(t) + Len(e) /\ Len(t) \in Nat /\ Len(e) \in Nat
  BY ConcatProperties, LenProperties
<1>3. CASE n = 0
  <2>1. SubSeq(t, 1, 0) = << >> /\ SubSeq(t \o e, 1, 0) = << >>
    BY SubSeqEmpty
  <2> QED
    BY <1>1, <1>2, <1>3, <2>1 DEF IsReplay
<1>4. CASE n # 0
  <2>1. 1 \in 1..Len(t) /\ n \in 1..Len(t)
    BY <1>1, <1>2, <1>4
  <2>2. SubSeq(t \o e, 1, n) = SubSeq(t, 1, n)
    BY <2>1, SubSeqOfConcat1
  <2> QED
    BY <1>1, <1>2, <2>2 DEF IsReplay
<1> QED
  BY <1>3, <1>4

\* The replay of a whole stream is the stream.
LEMMA ReplayAll ==
  ASSUME NEW S, NEW t \in Seq(S), NEW s
  PROVE  IsReplay(s, Len(t), t) <=> s = t
BY SubSeqFull, LenProperties DEF IsReplay

\* Replaying the events after a snapshot on top of it gives the whole stream.
LEMMA ReplayLoaded ==
  ASSUME NEW S, NEW t \in Seq(S), NEW n \in Nat, NEW s, IsReplay(s, n, t)
  PROVE  /\ s \o SubSeq(t, n + 1, Len(t)) = t
         /\ n + Len(SubSeq(t, n + 1, Len(t))) = Len(t)
<1>1. Len(t) \in Nat /\ \A i \in 1..Len(t) : t[i] \in S
  BY LenProperties, ElementOfSeq
<1>2. n \in 0..Len(t) /\ s = SubSeq(t, 1, n)
  BY <1>1 DEF IsReplay
<1>3. SubSeq(t, 1, n) \o SubSeq(t, n + 1, Len(t)) = SubSeq(t, 1, Len(t))
  <2>1. 1 \in 1..Len(t) + 1 /\ n \in 1 - 1..Len(t) /\ Len(t) \in n..Len(t)
    BY <1>1, <1>2
  <2> QED
    BY <2>1, ConcatAdjacentSubSeq
<1>4. Len(SubSeq(t, n + 1, Len(t))) = IF n + 1 <= Len(t) THEN Len(t) - (n + 1) + 1 ELSE 0
  <2>1. n + 1 \in Int /\ Len(t) \in Int /\ \A i \in n + 1..Len(t) : t[i] \in S
    BY <1>1, <1>2
  <2> QED
    BY <2>1, SubSeqProperties
<1>5. SubSeq(t, 1, Len(t)) = t
  BY SubSeqFull
<1>6. s \o SubSeq(t, n + 1, Len(t)) = t
  BY <1>2, <1>3, <1>5
<1>7. n + Len(SubSeq(t, n + 1, Len(t))) = Len(t)
  BY <1>1, <1>2, <1>4
<1> QED
  BY <1>6, <1>7

\* The events after any version form a stream.
LEMMA AfterType ==
  ASSUME NEW S, NEW t \in Seq(S), NEW n \in Nat
  PROVE  /\ SubSeq(t, n + 1, Len(t)) \in Seq(S)
         /\ Len(SubSeq(t, n + 1, Len(t))) \in Nat
<1>1. Len(t) \in Nat /\ \A i \in 1..Len(t) : t[i] \in S
  BY LenProperties, ElementOfSeq
<1>2. n + 1 \in Int /\ Len(t) \in Int /\ \A i \in n + 1..Len(t) : t[i] \in S
  BY <1>1
<1>3. SubSeq(t, n + 1, Len(t)) \in Seq(S)
  BY <1>2, SubSeqProperties
<1> QED
  BY <1>3, LenProperties

-----------------------------------------------------------------------------
(* Types.                                                                  *)

\* A versioned record or an attempt is typed by its fields.
LEMMA AttemptFields ==
  ASSUME NEW x \in Attempt
  PROVE  /\ x.base \in Versioned /\ x.version \in Nat /\ x.state \in Seq(Event)
         /\ x.events \in Seq(Event) /\ x.snapshotDue \in BOOLEAN
         /\ x.base.version \in Nat /\ x.base.state \in Seq(Event)
BY DEF Attempt, Versioned

\* The empty attempt and the empty record have their types.
LEMMA NoAttemptType == NoAttempt \in Attempt /\ Empty \in Versioned
BY DEF NoAttempt, Attempt, Empty, Versioned

\* Going to a stage keeps the type of pc.
LEMMA GotoType ==
  ASSUME LifecycleTypeOK, NEW c \in Calls, NEW x \in Stages, Goto(c, x)
  PROVE  pc' \in [Calls -> Stages]
BY DEF LifecycleTypeOK, Goto

\* Leaving the strategy keeps the types of the stage and the result.
LEMMA LeaveStrategyType ==
  ASSUME LifecycleTypeOK, NEW c \in Calls, NEW res \in {"ok", "failed"}, LeaveStrategy(c, res)
  PROVE  pc' \in [Calls -> Stages] /\ result' \in [Calls -> Results]
BY DEF LifecycleTypeOK, LeaveStrategy, Goto, Stages, Results

\* A failed attempt keeps the types of the call's state.
LEMMA AttemptFailsType ==
  ASSUME LifecycleTypeOK, NEW c \in Calls, AttemptFails(c)
  PROVE  /\ pc' \in [Calls -> Stages] /\ result' \in [Calls -> Results]
         /\ UNCHANGED <<tries, att, sent>>
BY LeaveStrategyType DEF AttemptFails

\* So does a conflict: the retries stay within their bound.
LEMMA AttemptConflictsType ==
  ASSUME LifecycleTypeOK, NEW c \in Calls, AttemptConflicts(c)
  PROVE  /\ pc' \in [Calls -> Stages] /\ result' \in [Calls -> Results]
         /\ tries' \in [Calls -> 0..MaxRetries] /\ att' \in [Calls -> Attempt]
         /\ sent' \in [Calls -> Nat]
<1>1. CASE Target[c] \notin Locked /\ tries[c] < MaxRetries
  <2>1. tries' = [tries EXCEPT ![c] = tries[c] + 1] /\ tries[c] + 1 \in 0..MaxRetries
    BY <1>1, LifecycleAssumption DEF AttemptConflicts, LifecycleTypeOK
  <2>2. tries' \in [Calls -> 0..MaxRetries]
    BY <2>1 DEF LifecycleTypeOK
  <2>3. att' \in [Calls -> Attempt]
    BY <1>1, NoAttemptType DEF AttemptConflicts, LifecycleTypeOK
  <2>4. pc' \in [Calls -> Stages]
    BY <1>1 DEF AttemptConflicts, LifecycleTypeOK, Goto, Stages
  <2> QED
    BY <1>1, <2>2, <2>3, <2>4 DEF AttemptConflicts, LifecycleTypeOK
<1>2. CASE ~(Target[c] \notin Locked /\ tries[c] < MaxRetries)
  BY <1>2, AttemptFailsType DEF AttemptConflicts, LifecycleTypeOK
<1> QED
  BY <1>1, <1>2

\* What Load reads has its types.
LEMMA LoadedType ==
  ASSUME LifecycleTypeOK, NEW c \in Calls, Target[c] \in Aggregates
  PROVE  LoadedVersion(c) \in Nat /\ LoadedState(c) \in Seq(Event)
<1> DEFINE t == store[Target[c]].state
           n == att[c].base.version
<1>1. /\ store[Target[c]] \in Versioned /\ t \in Seq(Event)
      /\ store[Target[c]].version \in Nat
  BY DEF LifecycleTypeOK, Versioned
<1>2. n \in Nat /\ att[c].base.state \in Seq(Event)
  BY AttemptFields DEF LifecycleTypeOK
<1>3. SubSeq(t, n + 1, Len(t)) \in Seq(Event) /\ Len(SubSeq(t, n + 1, Len(t))) \in Nat
  BY <1>1, <1>2, AfterType
<1>4. After(store[Target[c]], n) = SubSeq(t, n + 1, Len(t))
  BY DEF After
<1>5. att[c].base.state \o After(store[Target[c]], n) \in Seq(Event)
  BY <1>2, <1>3, <1>4, ConcatProperties
<1> HIDE DEF t, n
<1>6. LoadedVersion(c) \in Nat
  <2>1. n + Len(After(store[Target[c]], n)) \in Nat
    BY <1>2, <1>3, <1>4
  <2> QED
    BY <2>1, <1>1 DEF LoadedVersion, n
<1> QED
  BY <1>1, <1>5, <1>6 DEF LoadedState, n, t

\* The enriched events have their type.
LEMMA EnrichedType ==
  ASSUME LifecycleTypeOK, NEW c \in Calls, NEW n \in Nat
  PROVE  /\ Enriched(c, n) \in Seq(Event)
         /\ Len(Enriched(c, n)) = n
         /\ \A i \in 1..n : Enriched(c, n)[i] =
              [by |-> c, try |-> tries[c], seq |-> att[c].version + i,
               saw |-> Len(att[c].state)]
<1>1. att[c].version \in Nat /\ att[c].state \in Seq(Event)
  BY AttemptFields DEF LifecycleTypeOK
<1>2. Len(att[c].state) \in Nat
  BY <1>1, LenProperties
<1>3. tries[c] \in Nat
  BY LifecycleAssumption DEF LifecycleTypeOK
<1>4. \A i \in 1..n : [by |-> c, try |-> tries[c], seq |-> att[c].version + i,
                       saw |-> Len(att[c].state)] \in Event
  BY <1>1, <1>2, <1>3 DEF Event
<1>5. Enriched(c, n) \in [1..n -> Event]
  BY <1>4 DEF Enriched
<1>6. Enriched(c, n) \in Seq(Event) /\ Len(Enriched(c, n)) = n
  BY <1>5
<1> QED
  BY <1>6 DEF Enriched

\* What the save writes has its types.
LEMMA SavedType ==
  ASSUME LifecycleTypeOK, NEW c \in Calls, Target[c] \in Aggregates, SaveAggregate(c)
  PROVE  store' \in [Aggregates -> Versioned] /\ writers' \in [Aggregates -> SUBSET Calls]
<1>1. /\ store[Target[c]].state \in Seq(Event) /\ store[Target[c]].version \in Nat
      /\ att[c].state \in Seq(Event) /\ att[c].events \in Seq(Event) /\ att[c].version \in Nat
  BY AttemptFields DEF LifecycleTypeOK, Versioned
<1>2. Len(att[c].events) \in Nat
  BY <1>1, LenProperties
<1>3. SavedState(c) \in Seq(Event)
  BY <1>1, ConcatProperties DEF SavedState
<1>4. SavedVersion(c) \in Nat
  <2>1. store[Target[c]].version + Len(att[c].events) \in Nat /\ att[c].version + 1 \in Nat
    BY <1>1, <1>2
  <2> QED
    BY <2>1 DEF SavedVersion
<1>5. [version |-> SavedVersion(c), state |-> SavedState(c)] \in Versioned
  BY <1>3, <1>4 DEF Versioned
<1>6. CASE SaveIsNoOp(c)
  BY <1>6 DEF SaveAggregate, LifecycleTypeOK
<1>7. CASE ~SaveIsNoOp(c)
  <2>1. store' = [store EXCEPT ![Target[c]] =
                    [version |-> SavedVersion(c), state |-> SavedState(c)]]
    BY <1>7 DEF SaveAggregate
  <2>2. writers' = [writers EXCEPT ![Target[c]] = @ \cup {c}]
    BY <1>7 DEF SaveAggregate
  <2>3. store' \in [Aggregates -> Versioned]
    BY <1>5, <2>1 DEF LifecycleTypeOK
  <2>4. writers' \in [Aggregates -> SUBSET Calls]
    BY <2>2 DEF LifecycleTypeOK
  <2> QED
    BY <2>3, <2>4
<1> QED
  BY <1>6, <1>7

\* Recording an identifier and writing the outbox keep their types.
LEMMA RecordsType ==
  ASSUME LifecycleTypeOK, NEW c \in Calls
  PROVE  /\ ClaimId(c) => processed' \subseteq Ids
         /\ SaveOutboxEntries(c) => outbox' \subseteq Event
         /\ Elements(att[c].events) \subseteq Event
<1>1. att[c].events \in Seq(Event)
  BY AttemptFields DEF LifecycleTypeOK
<1>2. Elements(att[c].events) \subseteq Event
  BY <1>1, ElementOfSeq DEF Elements
<1>3. ClaimId(c) => processed' \subseteq Ids
  BY LifecycleAssumption DEF ClaimId, HasId, LifecycleTypeOK
<1> QED
  BY <1>2, <1>3 DEF SaveOutboxEntries, LifecycleTypeOK

\* Every step of a call keeps the types.
LEMMA CallStepType ==
  ASSUME LifecycleTypeOK, NEW c \in Calls, Step(c), pc[c] # "done" => Target[c] \in Aggregates
  PROVE  LifecycleTypeOK'
<1> USE DEF stores
<1>0. wiring' \in Wirings
  BY DEF Step, LifecycleTypeOK
<1>1. CASE CheckIdempotency(c)
  <2>1. pc' \in [Calls -> Stages] /\ result' \in [Calls -> Results]
    BY <1>1 DEF CheckIdempotency, LifecycleTypeOK, Goto, Stages, Results
  <2> QED
    BY <1>0, <1>1, <2>1 DEF CheckIdempotency, LifecycleTypeOK
<1>2. CASE AcquireLock(c)
  <2>1. pc' \in [Calls -> Stages]
    BY <1>2 DEF AcquireLock, LifecycleTypeOK, Goto, Stages
  <2>2. lock' \in [Aggregates -> Calls \cup {NoCall}]
    BY <1>2 DEF AcquireLock, LifecycleTypeOK
  <2> QED
    BY <1>0, <1>2, <2>1, <2>2 DEF AcquireLock, LifecycleTypeOK
<1>3. CASE LockTimeout(c)
  <2>1. pc' \in [Calls -> Stages] /\ result' \in [Calls -> Results]
    BY <1>3 DEF LockTimeout, LifecycleTypeOK, Goto, Stages, Results
  <2> QED
    BY <1>0, <1>3, <2>1 DEF LockTimeout, LifecycleTypeOK
<1>4. CASE LoadSnapshot(c)
  <2>1. pc' \in [Calls -> Stages]
    BY <1>4 DEF LoadSnapshot, LifecycleTypeOK, Goto, Stages
  <2>2. snap[Target[c]] \in Versioned
    BY <1>4 DEF LoadSnapshot, LifecycleTypeOK
  <2>3. att' \in [Calls -> Attempt]
    <3>1. [att[c] EXCEPT !.base = snap[Target[c]]] \in Attempt
      BY <2>2 DEF LifecycleTypeOK, Attempt
    <3>2. att' = [att EXCEPT ![c] = [att[c] EXCEPT !.base = snap[Target[c]]]]
      BY <1>4 DEF LoadSnapshot
    <3> QED
      BY <3>1, <3>2 DEF LifecycleTypeOK
  <2> QED
    BY <1>0, <1>4, <2>1, <2>3 DEF LoadSnapshot, LifecycleTypeOK
<1>5. CASE Load(c)
  <2>1. pc' \in [Calls -> Stages]
    BY <1>5 DEF Load, LifecycleTypeOK, Goto, Stages
  <2>2. LoadedVersion(c) \in Nat /\ LoadedState(c) \in Seq(Event)
    BY <1>5, LoadedType DEF Load
  <2>3. att' \in [Calls -> Attempt]
    <3>1. [att[c] EXCEPT !.version = LoadedVersion(c), !.state = LoadedState(c)] \in Attempt
      BY <2>2 DEF LifecycleTypeOK, Attempt
    <3>2. att' = [att EXCEPT ![c] = [att[c] EXCEPT !.version = LoadedVersion(c),
                                                   !.state = LoadedState(c)]]
      BY <1>5 DEF Load, LifecycleTypeOK
    <3> QED
      BY <3>1, <3>2 DEF LifecycleTypeOK
  <2> QED
    BY <1>0, <1>5, <2>1, <2>3 DEF Load, LifecycleTypeOK
<1>6. ASSUME NEW n \in 0..MaxEvents, Decide(c, n)
      PROVE  LifecycleTypeOK'
  <2>1. pc' \in [Calls -> Stages]
    BY <1>6 DEF Decide, LifecycleTypeOK, Goto, Stages
  <2>2. Enriched(c, n) \in Seq(Event)
    BY LifecycleAssumption, EnrichedType
  <2>3. SnapshotDue(c, n) \in BOOLEAN
    BY DEF SnapshotDue
  <2>4. att' \in [Calls -> Attempt]
    <3>1. [att[c] EXCEPT !.events = Enriched(c, n), !.snapshotDue = SnapshotDue(c, n)] \in Attempt
      BY <2>2, <2>3 DEF LifecycleTypeOK, Attempt
    <3>2. att' = [att EXCEPT ![c] = [att[c] EXCEPT !.events = Enriched(c, n),
                                                   !.snapshotDue = SnapshotDue(c, n)]]
      BY <1>6 DEF Decide, LifecycleTypeOK
    <3> QED
      BY <3>1, <3>2 DEF LifecycleTypeOK
  <2> QED
    BY <1>0, <1>6, <2>1, <2>4 DEF Decide, LifecycleTypeOK
<1>7. CASE DecideFails(c) \/ CommitDuplicate(c) \/ CommitSaveIdConflict(c)
  <2>1. AttemptFails(c) /\ UNCHANGED <<stores, lock>>
    BY <1>7 DEF DecideFails, CommitDuplicate, CommitSaveIdConflict
  <2> QED
    BY <1>0, <2>1, AttemptFailsType DEF LifecycleTypeOK
<1>8. CASE CommitConflict(c)
  BY <1>0, <1>8, AttemptConflictsType DEF CommitConflict, LifecycleTypeOK
<1>9. CASE CommitTransaction(c)
  <2>1. store' \in [Aggregates -> Versioned] /\ writers' \in [Aggregates -> SUBSET Calls]
    BY <1>9, SavedType DEF CommitTransaction
  <2>2. processed' \subseteq Ids /\ outbox' \subseteq Event
    BY <1>9, RecordsType DEF CommitTransaction
  <2>3. pc' \in [Calls -> Stages] /\ result' \in [Calls -> Results]
    BY <1>9, LeaveStrategyType DEF CommitTransaction
  <2> QED
    BY <1>0, <1>9, <2>1, <2>2, <2>3 DEF CommitTransaction, LifecycleTypeOK
<1>10. CASE CommitBreaks(c)
  <2>1. processed' \subseteq Ids
    BY <1>10, RecordsType DEF CommitBreaks, LifecycleTypeOK
  <2>2. AttemptFails(c)
    BY <1>10 DEF CommitBreaks
  <2> QED
    BY <1>0, <1>10, <2>1, <2>2, AttemptFailsType DEF CommitBreaks, LifecycleTypeOK
<1>11. CASE CommitSave(c)
  <2>1. store' \in [Aggregates -> Versioned] /\ writers' \in [Aggregates -> SUBSET Calls]
    BY <1>11, SavedType DEF CommitSave
  <2>2. pc' \in [Calls -> Stages]
    BY <1>11 DEF CommitSave, LifecycleTypeOK, Goto, Stages
  <2> QED
    BY <1>0, <1>11, <2>1, <2>2 DEF CommitSave, LifecycleTypeOK
<1>12. CASE CommitSaveId(c)
  <2>1. processed' \subseteq Ids
    BY <1>12, RecordsType DEF CommitSaveId
  <2>2. pc' \in [Calls -> Stages]
    BY <1>12 DEF CommitSaveId, LifecycleTypeOK, Goto, Stages
  <2> QED
    BY <1>0, <1>12, <2>1, <2>2 DEF CommitSaveId, LifecycleTypeOK
<1>13. CASE CommitSaveOutbox(c)
  <2>1. outbox' \subseteq Event
    BY <1>13, RecordsType DEF CommitSaveOutbox
  <2>2. pc' \in [Calls -> Stages] /\ result' \in [Calls -> Results]
    BY <1>13, LeaveStrategyType DEF CommitSaveOutbox
  <2> QED
    BY <1>0, <1>13, <2>1, <2>2 DEF CommitSaveOutbox, LifecycleTypeOK
<1>14. CASE Unlock(c)
  <2>1. pc' \in [Calls -> Stages]
    BY <1>14 DEF Unlock, LifecycleTypeOK, Goto, Stages
  <2>2. lock' \in [Aggregates -> Calls \cup {NoCall}]
    BY <1>14 DEF Unlock, LifecycleTypeOK
  <2> QED
    BY <1>0, <1>14, <2>1, <2>2 DEF Unlock, LifecycleTypeOK
<1>15. CASE SaveSnapshot(c)
  <2>1. pc' \in [Calls -> Stages]
    BY <1>15 DEF SaveSnapshot, LifecycleTypeOK, Goto, Stages
  <2>2. PendingSnapshot(c) \in Versioned
    <3>1. att[c].version \in Nat /\ att[c].state \in Seq(Event) /\ att[c].events \in Seq(Event)
      BY AttemptFields DEF LifecycleTypeOK
    <3>2. att[c].state \o att[c].events \in Seq(Event) /\ Len(att[c].events) \in Nat
      BY <3>1, ConcatProperties, LenProperties
    <3>3. att[c].version + Len(att[c].events) \in Nat
      BY <3>1, <3>2
    <3> QED
      BY <3>2, <3>3 DEF PendingSnapshot, Versioned
  <2>3. snap' \in [Aggregates -> Versioned]
    BY <1>15, <2>2 DEF SaveSnapshot, LifecycleTypeOK
  <2> QED
    BY <1>0, <1>15, <2>1, <2>3 DEF SaveSnapshot, LifecycleTypeOK
<1>16. CASE SkipSnapshot(c)
  <2>1. pc' \in [Calls -> Stages]
    BY <1>16 DEF SkipSnapshot, LifecycleTypeOK, Goto, Stages
  <2> QED
    BY <1>0, <1>16, <2>1 DEF SkipSnapshot, LifecycleTypeOK
<1>17. CASE Publish(c)
  <2>1. att[c].events \in Seq(Event) /\ sent[c] \in Nat
    BY AttemptFields DEF LifecycleTypeOK
  <2>2. sent[c] + 1 \in 1..Len(att[c].events)
    BY <1>17, <2>1, LenProperties DEF Publish
  <2>3. att[c].events[sent[c] + 1] \in Event
    BY <2>1, <2>2, ElementOfSeq
  <2>4. sent' = [sent EXCEPT ![c] = sent[c] + 1] /\ sent[c] + 1 \in Nat
    BY <1>17, <2>1 DEF Publish
  <2>5. sent' \in [Calls -> Nat]
    BY <2>4 DEF LifecycleTypeOK
  <2>6. dispatched' \subseteq Event
    BY <1>17, <2>3 DEF Publish, LifecycleTypeOK
  <2> QED
    BY <1>0, <1>17, <2>5, <2>6 DEF Publish, LifecycleTypeOK
<1>18. CASE PublishFails(c)
  <2>1. pc' \in [Calls -> Stages] /\ result' \in [Calls -> Results]
    BY <1>18 DEF PublishFails, LifecycleTypeOK, Goto, Stages, Results
  <2> QED
    BY <1>0, <1>18, <2>1 DEF PublishFails, LifecycleTypeOK
<1>19. CASE Published(c)
  <2>1. pc' \in [Calls -> Stages]
    BY <1>19 DEF Published, LifecycleTypeOK, Goto, Stages
  <2> QED
    BY <1>0, <1>19, <2>1 DEF Published, LifecycleTypeOK
<1>20. CASE MarkPublished(c)
  <2>1. pc' \in [Calls -> Stages]
    BY <1>20 DEF MarkPublished, LifecycleTypeOK, Goto, Stages
  <2>2. marked' \subseteq Event
    BY <1>20 DEF MarkPublished, LifecycleTypeOK
  <2> QED
    BY <1>0, <1>20, <2>1, <2>2 DEF MarkPublished, LifecycleTypeOK
<1> QED
  BY <1>1, <1>2, <1>3, <1>4, <1>5, <1>6, <1>7, <1>8, <1>9, <1>10, <1>11, <1>12, <1>13,
     <1>14, <1>15, <1>16, <1>17, <1>18, <1>19, <1>20 DEF Step, CallStep

-----------------------------------------------------------------------------
(* What a step leaves alone, and how the stores grow.                      *)

StoresGrow ==
  \A a \in Aggregates :
    /\ \E e \in Seq(Event) : store'[a].state = store[a].state \o e
    /\ a \notin Sourced => store'[a] = store[a] \/ store[a].version < store'[a].version
    /\ writers[a] \subseteq writers'[a]

\* The step that writes an aggregate: a save that passed its version check.
Saves(c) == pc[c] = "commit" /\ ~SaveConflicts(c) /\ SaveAggregate(c)

\* The domain is fixed, so are the aggregates of its calls.
LEMMA WiringFixed ==
  ASSUME wiring' = wiring
  PROVE  /\ Target' = Target /\ Locked' = Locked /\ Sourced' = Sourced
         /\ Transactional' = Transactional /\ IdsInTx' = IdsInTx
         /\ \A c : EventSourced(c)' <=> EventSourced(c)
         /\ \A c : HasId(c)' <=> HasId(c)
BY DEF Target, Locked, Sourced, Transactional, IdsInTx, EventSourced, HasId

\* A step of a call changes no other call's state, and writes aggregates only
\* by a save.
LEMMA StepFrame ==
  ASSUME LifecycleTypeOK, NEW c \in Calls, Step(c)
  PROVE  /\ wiring' = wiring
         /\ \A d \in Calls \ {c} : pc'[d] = pc[d] /\ att'[d] = att[d] /\ result'[d] = result[d]
         /\ (store' = store /\ writers' = writers) \/ Saves(c)
         /\ snap' = snap \/ SaveSnapshot(c)
<1> USE DEF LifecycleTypeOK, stores, Goto
<1>1. wiring' = wiring
  BY DEF Step
<1>2. ASSUME NEW res, LeaveStrategy(c, res)
      PROVE  \A d \in Calls \ {c} : pc'[d] = pc[d] /\ result'[d] = result[d]
  BY <1>2 DEF LeaveStrategy
<1>3. ASSUME AttemptFails(c)
      PROVE  \A d \in Calls \ {c} : pc'[d] = pc[d] /\ att'[d] = att[d] /\ result'[d] = result[d]
  BY <1>2, <1>3 DEF AttemptFails
<1>4. ASSUME AttemptConflicts(c)
      PROVE  \A d \in Calls \ {c} : pc'[d] = pc[d] /\ att'[d] = att[d] /\ result'[d] = result[d]
  BY <1>3, <1>4 DEF AttemptConflicts
<1>5. CASE CheckIdempotency(c) \/ AcquireLock(c) \/ LockTimeout(c)
  BY <1>1, <1>5 DEF CheckIdempotency, AcquireLock, LockTimeout
<1>6. CASE LoadSnapshot(c) \/ Load(c) \/ \E n \in 0..MaxEvents : Decide(c, n)
  BY <1>1, <1>6 DEF LoadSnapshot, Load, Decide
<1>7. CASE DecideFails(c) \/ CommitConflict(c) \/ CommitDuplicate(c) \/ CommitBreaks(c)
           \/ CommitSaveIdConflict(c)
  BY <1>1, <1>3, <1>4, <1>7
     DEF DecideFails, CommitConflict, CommitDuplicate, CommitBreaks, CommitSaveIdConflict
<1>8. CASE CommitTransaction(c)
  BY <1>1, <1>2, <1>8 DEF CommitTransaction, Saves
<1>9. CASE CommitSave(c) \/ CommitSaveId(c)
  BY <1>1, <1>9 DEF CommitSave, CommitSaveId, Saves
<1>10. CASE CommitSaveOutbox(c)
  BY <1>1, <1>2, <1>10 DEF CommitSaveOutbox
<1>11. CASE Unlock(c) \/ SaveSnapshot(c) \/ SkipSnapshot(c) \/ Published(c) \/ MarkPublished(c)
  BY <1>1, <1>11 DEF Unlock, SaveSnapshot, SkipSnapshot, Published, MarkPublished
<1>12. CASE Publish(c) \/ PublishFails(c)
  BY <1>1, <1>12 DEF Publish, PublishFails
<1> QED
  BY <1>5, <1>6, <1>7, <1>8, <1>9, <1>10, <1>11, <1>12 DEF Step, CallStep

\* A save that passes the version check finds the state the handler decided on,
\* and appends its events to it, for both persistence modes.
LEMMA SaveAppends ==
  ASSUME LifecycleTypeOK, SequenceGapFree, NEW c \in Calls, CallInv(c), Saves(c)
  PROVE  /\ Target[c] \in Aggregates
         /\ SaveIsNoOp(c) => store' = store /\ writers' = writers
         /\ ~SaveIsNoOp(c) =>
              /\ att[c].version = store[Target[c]].version
              /\ att[c].state = Stream(c)
              /\ writers' = [writers EXCEPT ![Target[c]] = @ \cup {c}]
         /\ att[c].events # << >> => c \in writers'[Target[c]]
         /\ store'[Target[c]].state = Stream(c) \o att[c].events
         /\ EventSourced(c) =>
              store'[Target[c]].version = store[Target[c]].version + Len(att[c].events)
         /\ ~EventSourced(c) => store'[Target[c]].version = store[Target[c]].version + 1
         /\ \A a \in Aggregates : a # Target[c] => store'[a] = store[a]
<1> DEFINE a == Target[c]
<1>1. pc[c] = "commit" /\ a \in Aggregates
  BY DEF Saves, CallInv, CallUnderWay
<1>2. /\ store[a] \in Versioned /\ store[a].state \in Seq(Event) /\ store[a].version \in Nat
      /\ att[c].state \in Seq(Event) /\ att[c].events \in Seq(Event) /\ att[c].version \in Nat
  BY <1>1, AttemptFields DEF LifecycleTypeOK, Versioned
<1>3. CASE SaveIsNoOp(c)
  <2>1. store' = store /\ writers' = writers
    BY <1>3 DEF Saves, SaveAggregate
  <2>2. EventSourced(c) /\ att[c].events = << >>
    BY <1>3 DEF SaveIsNoOp
  <2>3. store[a].state \o << >> = store[a].state /\ Len(<< >>) = 0
    BY <1>2, ConcatEmptySeq
  <2>4. store[a].version + 0 = store[a].version
    BY <1>2
  <2> QED
    BY <1>1, <1>3, <2>1, <2>2, <2>3, <2>4 DEF Stream
<1>4. CASE ~SaveIsNoOp(c)
  <2>1. att[c].version = store[a].version
    BY <1>4 DEF Saves, SaveConflicts
  <2>2. att[c].state = store[a].state
    <3>1. CASE EventSourced(c)
      <4>1. a \in Sourced
        BY <3>1 DEF EventSourced
      <4>2. store[a].version = Len(store[a].state)
        BY <4>1 DEF SequenceGapFree
      <4>3. IsReplay(att[c].state, att[c].version, store[a].state)
        BY <1>1, <3>1 DEF CallInv, LoadedWasStored, Stream
      <4> QED
        BY <1>2, <2>1, <4>2, <4>3, ReplayAll
    <3>2. CASE ~EventSourced(c)
      BY <1>1, <2>1, <3>2 DEF CallInv, LoadedWasStored, Stream
    <3> QED
      BY <3>1, <3>2
  <2>3. /\ store' = [store EXCEPT ![a] = [version |-> SavedVersion(c), state |-> SavedState(c)]]
        /\ writers' = [writers EXCEPT ![a] = @ \cup {c}]
    BY <1>4 DEF Saves, SaveAggregate
  <2>4. SavedState(c) = store[a].state \o att[c].events
    BY <2>2 DEF SavedState
  <2>5. /\ EventSourced(c) => SavedVersion(c) = store[a].version + Len(att[c].events)
        /\ ~EventSourced(c) => SavedVersion(c) = store[a].version + 1
    BY <2>1 DEF SavedVersion
  <2>6. /\ store'[a] = [version |-> SavedVersion(c), state |-> SavedState(c)]
        /\ \A b \in Aggregates : b # a => store'[b] = store[b]
    BY <1>1, <2>3 DEF LifecycleTypeOK
  <2>7. c \in writers'[a]
    BY <1>1, <2>3 DEF LifecycleTypeOK
  <2>8. store'[a].state = SavedState(c) /\ store'[a].version = SavedVersion(c)
    BY <2>6
  <2> HIDE DEF a
  <2> QED
    BY <1>1, <1>4, <2>1, <2>2, <2>3, <2>4, <2>5, <2>6, <2>7, <2>8 DEF Stream, a
<1> QED
  BY <1>3, <1>4

\* Hence a step only ever extends what is stored.
LEMMA StepGrows ==
  ASSUME LifecycleTypeOK, SequenceGapFree, NEW c \in Calls, CallInv(c), Step(c)
  PROVE  StoresGrow
<1>1. CASE store' = store /\ writers' = writers
  <2> SUFFICES ASSUME NEW a \in Aggregates
               PROVE  \E e \in Seq(Event) : store[a].state = store[a].state \o e
    BY <1>1 DEF StoresGrow
  <2>1. store[a].state \in Seq(Event)
    BY DEF LifecycleTypeOK, Versioned
  <2>2. << >> \in Seq(Event) /\ store[a].state \o << >> = store[a].state
    BY <2>1, ConcatEmptySeq
  <2> QED
    BY <2>2
<1>2. CASE Saves(c)
  <2> SUFFICES ASSUME NEW a \in Aggregates
               PROVE  /\ \E e \in Seq(Event) : store'[a].state = store[a].state \o e
                      /\ a \notin Sourced =>
                           store'[a] = store[a] \/ store[a].version < store'[a].version
                      /\ writers[a] \subseteq writers'[a]
    BY DEF StoresGrow
  <2>1. store[a].state \in Seq(Event) /\ store[a].version \in Nat
    BY DEF LifecycleTypeOK, Versioned
  <2>2. << >> \in Seq(Event) /\ store[a].state \o << >> = store[a].state
    BY <2>1, ConcatEmptySeq
  <2>3. writers[a] \subseteq writers'[a]
    <3>1. writers' = writers \/ writers' = [writers EXCEPT ![Target[c]] = @ \cup {c}]
      BY <1>2, SaveAppends
    <3> QED
      BY <3>1 DEF LifecycleTypeOK
  <2>4. CASE a # Target[c]
    BY <1>2, <2>2, <2>3, <2>4, SaveAppends
  <2>5. CASE a = Target[c]
    <3>1. att[c].events \in Seq(Event)
      BY AttemptFields DEF LifecycleTypeOK
    <3>2. store'[a].state = store[a].state \o att[c].events
      BY <1>2, <2>5, SaveAppends DEF Stream
    <3>3. a \notin Sourced => store'[a].version = store[a].version + 1
      BY <1>2, <2>5, SaveAppends DEF EventSourced
    <3>4. a \notin Sourced => store[a].version < store'[a].version
      BY <2>1, <3>3
    <3>5. \E e \in Seq(Event) : store'[a].state = store[a].state \o e
      BY <3>1, <3>2
    <3> QED
      BY <2>3, <3>4, <3>5
  <2> QED
    BY <2>4, <2>5
<1> QED
  BY <1>1, <1>2, StepFrame

\* A call that does not move keeps its invariant while the stores grow.
LEMMA OthersKeep ==
  ASSUME LifecycleTypeOK, LifecycleTypeOK', StoresGrow, wiring' = wiring, NEW d \in Calls,
         pc'[d] = pc[d], att'[d] = att[d], result'[d] = result[d], CallInv(d)
  PROVE  CallInv(d)'
<1> DEFINE a == Target[d]
<1>0. Target' = Target /\ (EventSourced(d)' <=> EventSourced(d)) /\ Transactional' = Transactional
  BY WiringFixed
<1>1. CallUnderWay(d)'
  BY <1>0 DEF CallInv, CallUnderWay
<1>2. CASE pc[d] = "done"
  BY <1>1, <1>2 DEF CallInv, BaseIsReplay, LoadedWasStored, EventsContinue, SavedIsStored, Saved
<1>3. CASE pc[d] # "done"
  <2>1. a \in Aggregates
    BY <1>3 DEF CallInv, CallUnderWay
  <2>2. /\ store[a].state \in Seq(Event) /\ store[a].version \in Nat
        /\ store'[a].version \in Nat
        /\ att[d] \in Attempt
    BY <2>1 DEF LifecycleTypeOK, Versioned
  <2>3. ASSUME NEW s, NEW n \in Nat, IsReplay(s, n, store[a].state)
        PROVE  IsReplay(s, n, store'[a].state)
    <3>1. PICK e \in Seq(Event) : store'[a].state = store[a].state \o e
      BY <2>1 DEF StoresGrow
    <3>2. IsReplay(s, n, store[a].state \o e)
      BY <2>2, <2>3, ReplayGrows
    <3> QED
      BY <3>1, <3>2
  <2>4. Stream(d)' = store'[a].state /\ Stream(d) = store[a].state
    BY <1>0 DEF Stream
  <2>5. BaseIsReplay(d)'
    BY <1>0, <2>2, <2>3, <2>4, AttemptFields DEF CallInv, BaseIsReplay
  <2>6. LoadedWasStored(d)'
    <3>1. CASE EventSourced(d)
      BY <1>0, <2>2, <2>3, <2>4, <3>1, AttemptFields DEF CallInv, LoadedWasStored
    <3>2. CASE ~EventSourced(d)
      <4>1. store'[a] = store[a] \/ store[a].version < store'[a].version
        BY <2>1, <3>2 DEF StoresGrow, EventSourced
      <4>2. att[d].version \in Nat
        BY <2>2, AttemptFields
      <4> HIDE DEF a
      <4>3. pc[d] \in {"decide", "commit"} =>
              /\ att[d].version <= store[a].version
              /\ att[d].version = store[a].version => att[d].state = store[a].state
        BY <2>4, <3>2 DEF CallInv, LoadedWasStored, a
      <4>4. pc[d] \in {"decide", "commit"} =>
              /\ att[d].version <= store'[a].version
              /\ att[d].version = store'[a].version => att[d].state = store'[a].state
        BY <2>2, <4>1, <4>2, <4>3
      <4> QED
        BY <1>0, <2>4, <3>2, <4>4 DEF LoadedWasStored, a
    <3> QED
      BY <3>1, <3>2
  <2>7. EventsContinue(d)'
    BY DEF CallInv, EventsContinue
  <2>8. SavedIsStored(d)'
    <3>1. att[d].version + Len(att[d].events) \in Nat
      BY <2>2, AttemptFields, LenProperties
    <3>2. writers[a] \subseteq writers'[a]
      BY <2>1 DEF StoresGrow
    <3>3. Saved(d)' <=> Saved(d)
      BY DEF Saved
    <3> HIDE DEF a
    <3> QED
      BY <1>0, <2>3, <2>4, <3>1, <3>2, <3>3 DEF CallInv, SavedIsStored, a
  <2> QED
    BY <1>1, <2>5, <2>6, <2>7, <2>8 DEF CallInv
<1> QED
  BY <1>2, <1>3

-----------------------------------------------------------------------------
(* The call that moves.                                                    *)

\* Stages at which a call carries nothing that must agree with the stores.
LEMMA PlainStage ==
  ASSUME wiring' = wiring, NEW c \in Calls,
         \/ pc'[c] \in {"lock", "loadSnapshot", "mark", "done"}
         \/ pc'[c] = "unlock" /\ result'[c] = "failed",
         pc'[c] # "done" => Target[c] \in Aggregates,
         pc'[c] \in Attempting => result'[c] = "pending"
  PROVE  CallInv(c)'
BY WiringFixed DEF CallInv, CallUnderWay, BaseIsReplay, LoadedWasStored, EventsContinue,
   SavedIsStored, Saved, Attempting

\* A failed attempt ends the call's claims on the stores.
LEMMA FailedStage ==
  ASSUME LifecycleTypeOK, wiring' = wiring, NEW c \in Calls, CallInv(c), pc[c] # "done",
         AttemptFails(c)
  PROVE  CallInv(c)'
<1>1. Target[c] \in Aggregates
  BY DEF CallInv, CallUnderWay
<1>2. pc'[c] \in {"unlock", "done"} /\ result'[c] = "failed"
  BY DEF AttemptFails, LeaveStrategy, Goto, LifecycleTypeOK
<1> QED
  BY <1>1, <1>2, PlainStage DEF Attempting

\* From the save to the dispatch a call carries the same claim.
LEMMA SavedStage ==
  ASSUME wiring' = wiring, NEW c \in Calls, CallInv(c), Saved(c),
         pc'[c] \in {"saveOutbox", "unlock", "saveSnapshot", "publish"},
         pc'[c] = "saveOutbox" => result'[c] = "pending" /\ ~Transactional,
         att'[c] = att[c], store' = store, writers' = writers
  PROVE  CallInv(c)'
<1>1. Target[c] \in Aggregates
  BY DEF CallInv, CallUnderWay, Saved
<1>2. SavedIsStored(c)'
  BY WiringFixed DEF CallInv, SavedIsStored, Stream
<1> QED
  BY <1>1, <1>2, WiringFixed
     DEF CallInv, CallUnderWay, BaseIsReplay, LoadedWasStored, EventsContinue, Attempting

\* The loaded snapshot is a replay of the stream.
LEMMA LoadSnapshotCall ==
  ASSUME LifecycleTypeOK, SnapshotsFaithful, wiring' = wiring, NEW c \in Calls, CallInv(c),
         LoadSnapshot(c)
  PROVE  CallInv(c)'
<1>1. pc'[c] = "load" /\ att'[c].base = snap[Target[c]] /\ UNCHANGED <<store, writers, result>>
  BY DEF LoadSnapshot, Goto, LifecycleTypeOK, Attempt, stores
<1>2. Target[c] \in Aggregates /\ result[c] = "pending"
  BY DEF LoadSnapshot, CallInv, CallUnderWay, Attempting
<1>3. BaseIsReplay(c)'
  BY <1>1, WiringFixed DEF BaseIsReplay, SnapshotsFaithful, IsReplay, Stream, EventSourced
<1> QED
  BY <1>1, <1>2, <1>3, WiringFixed
     DEF CallInv, CallUnderWay, LoadedWasStored, EventsContinue, SavedIsStored, Saved

\* What is loaded is what is stored, through a snapshot or without.
LEMMA LoadCall ==
  ASSUME LifecycleTypeOK, SequenceGapFree, wiring' = wiring, NEW c \in Calls, CallInv(c), Load(c)
  PROVE  CallInv(c)'
<1>1. /\ pc[c] = "load" /\ pc'[c] = "decide"
      /\ att'[c].version = LoadedVersion(c) /\ att'[c].state = LoadedState(c)
      /\ UNCHANGED <<store, writers, result>>
  BY DEF Load, Goto, LifecycleTypeOK, Attempt, stores
<1>2. Target[c] \in Aggregates /\ result[c] = "pending"
  BY <1>1 DEF CallInv, CallUnderWay, Attempting
<1>3. Stream(c) \in Seq(Event) /\ store[Target[c]].version \in Nat
  BY <1>2 DEF LifecycleTypeOK, Versioned, Stream
<1>4. LoadedWasStored(c)'
  <2>1. CASE EventSourced(c)
    <3>1. IsReplay(att[c].base.state, att[c].base.version, Stream(c))
      BY <1>1, <2>1 DEF CallInv, BaseIsReplay
    <3>2. att[c].base.version \in Nat
      BY AttemptFields DEF LifecycleTypeOK
    <3>3. LoadedVersion(c) = Len(Stream(c)) /\ LoadedState(c) = Stream(c)
      BY <1>3, <2>1, <3>1, <3>2, ReplayLoaded DEF LoadedVersion, LoadedState, After, Stream
    <3>4. IsReplay(LoadedState(c), LoadedVersion(c), Stream(c))
      BY <1>3, <3>3, ReplayAll
    <3> QED
      BY <1>1, <2>1, <3>4, WiringFixed DEF LoadedWasStored, Stream
  <2>2. CASE ~EventSourced(c)
    <3>1. LoadedVersion(c) = store[Target[c]].version /\ LoadedState(c) = Stream(c)
      BY <2>2 DEF LoadedVersion, LoadedState, Stream
    <3> QED
      BY <1>1, <1>3, <2>2, <3>1, WiringFixed DEF LoadedWasStored, Stream
  <2> QED
    BY <2>1, <2>2
<1> QED
  BY <1>1, <1>2, <1>4, WiringFixed
     DEF CallInv, CallUnderWay, BaseIsReplay, EventsContinue, SavedIsStored, Saved

\* The events decided are numbered from the loaded version on.
LEMMA DecideCall ==
  ASSUME LifecycleTypeOK, wiring' = wiring, NEW c \in Calls, CallInv(c),
         NEW n \in 0..MaxEvents, Decide(c, n)
  PROVE  CallInv(c)'
<1>1. /\ pc[c] = "decide" /\ pc'[c] = "commit"
      /\ att'[c].version = att[c].version /\ att'[c].state = att[c].state
      /\ att'[c].events = Enriched(c, n)
      /\ UNCHANGED <<store, writers, result>>
  BY DEF Decide, Goto, LifecycleTypeOK, Attempt, stores
<1>2. Target[c] \in Aggregates /\ result[c] = "pending"
  BY <1>1 DEF CallInv, CallUnderWay, Attempting
<1>3. EventsContinue(c)'
  <2>1. n \in Nat
    BY LifecycleAssumption
  <2>2. Len(Enriched(c, n)) = n /\
        \A i \in 1..n : /\ Enriched(c, n)[i].seq = att[c].version + i
                        /\ Enriched(c, n)[i].by = c
                        /\ Enriched(c, n)[i].saw = Len(att[c].state)
    <3>1. Len(Enriched(c, n)) = n
      BY <2>1, EnrichedType
    <3>2. ASSUME NEW i \in 1..n
          PROVE  /\ Enriched(c, n)[i].seq = att[c].version + i
                 /\ Enriched(c, n)[i].by = c
                 /\ Enriched(c, n)[i].saw = Len(att[c].state)
      <4>1. Enriched(c, n)[i] = [by |-> c, try |-> tries[c], seq |-> att[c].version + i,
                                 saw |-> Len(att[c].state)]
        BY <2>1, EnrichedType
      <4> QED
        BY <4>1
    <3> QED
      BY <3>1, <3>2
  <2> QED
    BY <1>1, <2>2 DEF EventsContinue
<1>4. LoadedWasStored(c)'
  BY <1>1, WiringFixed DEF CallInv, LoadedWasStored, Stream
<1> QED
  BY <1>1, <1>2, <1>3, <1>4, WiringFixed
     DEF CallInv, CallUnderWay, BaseIsReplay, SavedIsStored, Saved

\* Once saved, the stream begins with what the attempt computed: by the version
\* check, or because nothing was appended.
LEMMA SavedNow ==
  ASSUME LifecycleTypeOK, SequenceGapFree, wiring' = wiring, NEW c \in Calls, CallInv(c),
         Saves(c), att' = att
  PROVE  SavedIsStored(c)'
<1> DEFINE a == Target[c]
<1>1. /\ a \in Aggregates
      /\ store'[a].state = Stream(c) \o att[c].events
      /\ att[c].events # << >> => c \in writers'[a]
  BY SaveAppends
<1>2. /\ Stream(c) \in Seq(Event) /\ att[c].version \in Nat
      /\ att[c].state \in Seq(Event) /\ att[c].events \in Seq(Event)
  BY <1>1, AttemptFields DEF LifecycleTypeOK, Versioned, Stream
<1>3. ASSUME EventSourced(c)
      PROVE  IsReplay(att[c].state \o att[c].events, att[c].version + Len(att[c].events),
                      Stream(c) \o att[c].events)
  <2>1. IsReplay(att[c].state, att[c].version, Stream(c))
    BY <1>3 DEF Saves, CallInv, LoadedWasStored
  <2>2. CASE SaveIsNoOp(c)
    <3>1. att[c].events = << >> /\ Len(<< >>) = 0
      BY <2>2 DEF SaveIsNoOp
    <3>2. att[c].state \o << >> = att[c].state /\ Stream(c) \o << >> = Stream(c)
      BY <1>2, ConcatEmptySeq
    <3>3. att[c].version + 0 = att[c].version
      BY <1>2
    <3> QED
      BY <2>1, <3>1, <3>2, <3>3
  <2>3. CASE ~SaveIsNoOp(c)
    <3>1. att[c].version = store[a].version /\ att[c].state = Stream(c)
      BY <2>3, SaveAppends
    <3>2. store[a].version = Len(Stream(c))
      BY <1>3 DEF EventSourced, SequenceGapFree, Stream
    <3>3. /\ Stream(c) \o att[c].events \in Seq(Event)
          /\ Len(Stream(c) \o att[c].events) = Len(Stream(c)) + Len(att[c].events)
      BY <1>2, ConcatProperties
    <3> QED
      BY <3>1, <3>2, <3>3, ReplayAll
  <2> QED
    BY <2>2, <2>3
<1> QED
  BY <1>1, <1>3, WiringFixed DEF SavedIsStored, Stream

\* A step of a call preserves the call's own invariant.
LEMMA OwnStep ==
  ASSUME LifecycleTypeOK, SequenceGapFree, SnapshotsFaithful, NEW c \in Calls, CallInv(c), Step(c)
  PROVE  CallInv(c)'
<1> USE DEF stores
<1>0. wiring' = wiring
  BY DEF Step
<1>1. pc[c] # "done" => Target[c] \in Aggregates
  BY DEF CallInv, CallUnderWay
<1>2. pc[c] \in Attempting => result[c] = "pending"
  BY DEF CallInv, CallUnderWay
<1>3. CASE CheckIdempotency(c)
  <2>1. pc'[c] \in {"done", "lock", "loadSnapshot"} /\ (pc'[c] = "done" \/ result' = result)
    BY <1>3 DEF CheckIdempotency, Goto, LifecycleTypeOK
  <2> QED
    BY <1>0, <1>1, <1>2, <1>3, <2>1, PlainStage DEF CheckIdempotency, Attempting
<1>4. CASE AcquireLock(c)
  <2>1. pc'[c] = "loadSnapshot" /\ result' = result
    BY <1>4 DEF AcquireLock, Goto, LifecycleTypeOK
  <2> QED
    BY <1>0, <1>1, <1>2, <1>4, <2>1, PlainStage DEF AcquireLock, Attempting
<1>5. CASE LockTimeout(c) \/ PublishFails(c) \/ MarkPublished(c)
  <2>1. pc'[c] = "done"
    BY <1>5 DEF LockTimeout, PublishFails, MarkPublished, Goto, LifecycleTypeOK
  <2> QED
    BY <1>0, <2>1, PlainStage DEF Attempting
<1>6. CASE LoadSnapshot(c)
  BY <1>0, <1>6, LoadSnapshotCall
<1>7. CASE Load(c)
  BY <1>0, <1>7, LoadCall
<1>8. ASSUME NEW n \in 0..MaxEvents, Decide(c, n)
      PROVE  CallInv(c)'
  BY <1>0, <1>8, DecideCall
<1>9. CASE DecideFails(c) \/ CommitDuplicate(c) \/ CommitBreaks(c) \/ CommitSaveIdConflict(c)
  <2>1. AttemptFails(c) /\ pc[c] # "done"
    BY <1>9 DEF DecideFails, CommitDuplicate, CommitBreaks, CommitSaveIdConflict
  <2> QED
    BY <1>0, <2>1, FailedStage
<1>10. CASE CommitConflict(c)
  <2>1. pc[c] = "commit"
    BY <1>10 DEF CommitConflict
  <2>2. CASE AttemptFails(c)
    BY <1>0, <2>1, <2>2, FailedStage
  <2>3. CASE ~AttemptFails(c)
    <3>1. pc'[c] = "loadSnapshot" /\ result' = result
      BY <1>10, <2>3 DEF CommitConflict, AttemptConflicts, Goto, LifecycleTypeOK
    <3> QED
      BY <1>0, <1>1, <1>2, <2>1, <3>1, PlainStage DEF Attempting
  <2> QED
    BY <2>2, <2>3
<1>11. CASE CommitTransaction(c)
  <2>1. /\ Saves(c) /\ att' = att /\ pc[c] = "commit"
        /\ pc'[c] \in {"unlock", "saveSnapshot"} /\ result'[c] = "ok"
    BY <1>11 DEF CommitTransaction, Saves, LeaveStrategy, Goto, LifecycleTypeOK
  <2>2. SavedIsStored(c)'
    BY <1>0, <2>1, SavedNow
  <2> QED
    BY <1>0, <1>1, <2>1, <2>2, WiringFixed
       DEF CallInv, CallUnderWay, BaseIsReplay, LoadedWasStored, EventsContinue, Attempting
<1>12. CASE CommitSave(c)
  <2>1. /\ Saves(c) /\ att' = att /\ pc[c] = "commit" /\ ~Transactional
        /\ pc'[c] = "saveId" /\ result' = result
    BY <1>12 DEF CommitSave, Saves, Goto, LifecycleTypeOK
  <2>2. SavedIsStored(c)'
    BY <1>0, <2>1, SavedNow
  <2> QED
    BY <1>0, <1>1, <1>2, <2>1, <2>2, WiringFixed
       DEF CallInv, CallUnderWay, BaseIsReplay, LoadedWasStored, EventsContinue, Attempting
<1>13. CASE CommitSaveId(c)
  <2>1. /\ pc[c] = "saveId" /\ pc'[c] = "saveOutbox" /\ UNCHANGED <<store, writers, att, result>>
    BY <1>13 DEF CommitSaveId, Goto, LifecycleTypeOK
  <2>2. ~Transactional
    BY <2>1 DEF CallInv, CallUnderWay
  <2> QED
    BY <1>0, <1>2, <2>1, <2>2, SavedStage DEF Saved, Attempting
<1>14. CASE CommitSaveOutbox(c)
  <2>1. /\ pc[c] = "saveOutbox" /\ pc'[c] \in {"unlock", "saveSnapshot"}
        /\ UNCHANGED <<store, writers, att>>
    BY <1>14 DEF CommitSaveOutbox, LeaveStrategy, Goto, LifecycleTypeOK
  <2> QED
    BY <1>0, <2>1, SavedStage DEF Saved
<1>15. CASE Unlock(c)
  <2>1. /\ pc[c] = "unlock" /\ UNCHANGED <<store, writers, att, result>>
        /\ pc'[c] = IF result[c] = "failed" THEN "done" ELSE "saveSnapshot"
    BY <1>15 DEF Unlock, Goto, LifecycleTypeOK
  <2>2. CASE result[c] = "failed"
    BY <1>0, <2>1, <2>2, PlainStage DEF Attempting
  <2>3. CASE result[c] # "failed"
    BY <1>0, <2>1, <2>3, SavedStage DEF Saved
  <2> QED
    BY <2>2, <2>3
<1>16. CASE SaveSnapshot(c) \/ SkipSnapshot(c)
  <2>1. pc[c] = "saveSnapshot" /\ pc'[c] = "publish" /\ UNCHANGED <<store, writers, att>>
    BY <1>16 DEF SaveSnapshot, SkipSnapshot, Goto, LifecycleTypeOK
  <2> QED
    BY <1>0, <2>1, SavedStage DEF Saved
<1>17. CASE Publish(c)
  <2>1. pc[c] = "publish" /\ UNCHANGED <<store, writers, att, pc>>
    BY <1>17 DEF Publish
  <2> QED
    BY <1>0, <2>1, SavedStage DEF Saved
<1>18. CASE Published(c)
  <2>1. pc[c] = "publish" /\ pc'[c] = "mark"
    BY <1>18 DEF Published, Goto, LifecycleTypeOK
  <2> QED
    BY <1>0, <1>1, <2>1, PlainStage DEF Attempting
<1> QED
  BY <1>3, <1>4, <1>5, <1>6, <1>7, <1>8, <1>9, <1>10, <1>11, <1>12, <1>13, <1>14, <1>15,
     <1>16, <1>17, <1>18 DEF Step, CallStep

-----------------------------------------------------------------------------
(* What is stored.                                                         *)

\* An append numbered from the version on keeps the stream gap-free.
LEMMA GapFreeStep ==
  ASSUME LifecycleTypeOK, SequenceGapFree, NEW c \in Calls, CallInv(c), Step(c)
  PROVE  SequenceGapFree'
<1>0. wiring' = wiring
  BY DEF Step
<1>1. CASE store' = store /\ writers' = writers
  BY <1>0, <1>1, WiringFixed DEF SequenceGapFree
<1>2. CASE Saves(c)
  <2> SUFFICES ASSUME NEW a \in Sourced
               PROVE  /\ store'[a].version = Len(store'[a].state)
                      /\ \A i \in 1..Len(store'[a].state) : store'[a].state[i].seq = i
    BY <1>0, WiringFixed DEF SequenceGapFree
  <2>0. a \in Aggregates
    BY LifecycleAssumption DEF LifecycleTypeOK, Sourced, Wiring
  <2>1. CASE a # Target[c] \/ SaveIsNoOp(c)
    <3>1. store'[a] = store[a]
      BY <1>2, <2>0, <2>1, SaveAppends
    <3> QED
      BY <3>1 DEF SequenceGapFree
  <2>2. CASE a = Target[c] /\ ~SaveIsNoOp(c)
    <3> DEFINE t == store[a].state
               e == att[c].events
    <3>1. EventSourced(c) /\ t = Stream(c)
      BY <2>2 DEF EventSourced, Stream
    <3>2. t \in Seq(Event) /\ e \in Seq(Event)
      BY <2>0, AttemptFields DEF LifecycleTypeOK, Versioned
    <3>3. store[a].version = Len(t) /\ \A i \in 1..Len(t) : t[i].seq = i
      BY DEF SequenceGapFree
    <3>4. att[c].version = Len(t)
      BY <1>2, <2>2, <3>3, SaveAppends
    <3>5. \A i \in 1..Len(e) : e[i].seq = Len(t) + i
      BY <1>2, <3>4 DEF Saves, CallInv, EventsContinue
    <3>6. store'[a].state = t \o e /\ store'[a].version = Len(t) + Len(e)
      BY <1>2, <2>2, <3>1, <3>3, SaveAppends
    <3> HIDE DEF t, e
    <3>7. /\ Len(t \o e) = Len(t) + Len(e) /\ Len(t) \in Nat /\ Len(e) \in Nat
          /\ \A i \in 1..Len(t) + Len(e) :
               (t \o e)[i] = IF i <= Len(t) THEN t[i] ELSE e[i - Len(t)]
      BY <3>2, ConcatProperties, LenProperties
    <3>8. ASSUME NEW i \in 1..Len(t) + Len(e)
          PROVE  (t \o e)[i].seq = i
      <4>1. CASE i <= Len(t)
        BY <3>3, <3>7, <4>1
      <4>2. CASE ~(i <= Len(t))
        <5>1. i - Len(t) \in 1..Len(e) /\ Len(t) + (i - Len(t)) = i
          BY <3>7, <4>2
        <5>2. (t \o e)[i] = e[i - Len(t)]
          BY <3>7, <4>2
        <5> QED
          BY <3>5, <5>1, <5>2
      <4> QED
        BY <4>1, <4>2
    <3> QED
      BY <3>6, <3>7, <3>8
  <2> QED
    BY <2>1, <2>2
<1> QED
  BY <1>1, <1>2, StepFrame

\* Snapshots stay replays: streams grow, and a new one is what was saved.
LEMMA SnapshotsStep ==
  ASSUME LifecycleTypeOK, SequenceGapFree, SnapshotsFaithful, NEW c \in Calls, CallInv(c), Step(c)
  PROVE  SnapshotsFaithful'
<1>0. wiring' = wiring
  BY DEF Step
<1>1. StoresGrow
  BY StepGrows
<1> SUFFICES ASSUME NEW a \in Sourced
             PROVE  IsReplay(snap'[a].state, snap'[a].version, store'[a].state)
  BY <1>0, WiringFixed DEF SnapshotsFaithful, IsReplay
<1>2. a \in Aggregates
  BY LifecycleAssumption DEF LifecycleTypeOK, Sourced, Wiring
<1>3. store[a].state \in Seq(Event) /\ snap[a].version \in Nat
  BY <1>2 DEF LifecycleTypeOK, Versioned
<1>4. CASE snap'[a] = snap[a]
  <2>1. IsReplay(snap[a].state, snap[a].version, store[a].state)
    BY DEF SnapshotsFaithful, IsReplay
  <2>2. PICK e \in Seq(Event) : store'[a].state = store[a].state \o e
    BY <1>1, <1>2 DEF StoresGrow
  <2> QED
    BY <1>3, <1>4, <2>1, <2>2, ReplayGrows
<1>5. CASE SaveSnapshot(c) /\ a = Target[c]
  <2>1. /\ pc[c] = "saveSnapshot" /\ store' = store
        /\ snap' = [snap EXCEPT ![a] = PendingSnapshot(c)]
    BY <1>5 DEF SaveSnapshot
  <2>2. snap'[a] = PendingSnapshot(c)
    BY <1>2, <2>1 DEF LifecycleTypeOK
  <2>3. IsReplay(att[c].state \o att[c].events, att[c].version + Len(att[c].events), store[a].state)
    BY <1>5, <2>1 DEF CallInv, SavedIsStored, Saved, EventSourced, Stream
  <2>4. /\ snap'[a].version = att[c].version + Len(att[c].events)
        /\ snap'[a].state = att[c].state \o att[c].events
    <3> DEFINE v == att[c].version + Len(att[c].events)
               s == att[c].state \o att[c].events
    <3>1. snap'[a] = [version |-> v, state |-> s]
      BY <2>2 DEF PendingSnapshot
    <3> HIDE DEF v, s
    <3>2. snap'[a].version = v /\ snap'[a].state = s
      BY <3>1
    <3> QED
      BY <3>2 DEF v, s
  <2> QED
    BY <2>1, <2>3, <2>4
<1>6. CASE SaveSnapshot(c) /\ a # Target[c]
  <2>1. snap'[a] = snap[a]
    BY <1>2, <1>6 DEF SaveSnapshot, LifecycleTypeOK
  <2> QED
    BY <1>4, <2>1
<1> QED
  BY <1>4, <1>5, <1>6, StepFrame

\* How identifiers are recorded: never over an existing record, and only by a
\* commit, or by one that breaks when the records are not part of it.
LEMMA ClaimShape ==
  ASSUME NEW c \in Calls, Step(c)
  PROVE  \/ processed' = processed
         \/ /\ ClaimId(c) /\ ~IsDuplicate(c)
            /\ CommitTransaction(c) \/ CommitSaveId(c) \/ (CommitBreaks(c) /\ ~IdsInTx)
BY DEF Step, CallStep, stores, CheckIdempotency, AcquireLock, LockTimeout, LoadSnapshot, Load,
   Decide, DecideFails, CommitConflict, CommitTransaction, CommitDuplicate, CommitBreaks,
   CommitSave, CommitSaveId, CommitSaveIdConflict, CommitSaveOutbox, Unlock, SaveSnapshot,
   SkipSnapshot, Publish, PublishFails, Published, MarkPublished

\* With a transaction, who is written down as a writer has its record.
LEMMA WriterShape ==
  ASSUME LifecycleTypeOK, NEW c \in Calls, CallInv(c), SequenceGapFree, Step(c), Transactional
  PROVE  \/ writers' = writers
         \/ /\ CommitTransaction(c) /\ Target[c] \in Aggregates
            /\ writers' = [writers EXCEPT ![Target[c]] = @ \cup {c}]
<1>1. CASE Saves(c)
  <2>1. pc[c] = "commit" /\ ~SaveConflicts(c)
    BY <1>1 DEF Saves
  <2>2. CommitTransaction(c) \/ writers' = writers
    BY <2>1 DEF Step, CallStep, stores, CheckIdempotency, AcquireLock, LockTimeout, LoadSnapshot,
       Load, Decide, DecideFails, CommitConflict, CommitDuplicate, CommitBreaks,
       CommitSave, CommitSaveId, CommitSaveIdConflict, CommitSaveOutbox, Unlock, SaveSnapshot,
       SkipSnapshot, Publish, PublishFails, Published, MarkPublished
  <2> QED
    BY <1>1, <2>2, SaveAppends
<1> QED
  BY <1>1, StepFrame

\* A command saves and is recorded in one transaction, once.
LEMMA EffectStep ==
  ASSUME LifecycleTypeOK, SequenceGapFree, WritersRecorded, EffectAtMostOnce,
         NEW c \in Calls, CallInv(c), Step(c)
  PROVE  WritersRecorded' /\ EffectAtMostOnce'
<1>0. wiring' = wiring
  BY DEF Step
<1> SUFFICES ASSUME Transactional
             PROVE  WritersRecorded' /\ EffectAtMostOnce'
  BY <1>0, WiringFixed DEF WritersRecorded, EffectAtMostOnce
<1>1. processed \subseteq processed'
  BY ClaimShape DEF ClaimId
<1>2. CASE writers' = writers
  BY <1>0, <1>1, <1>2, WiringFixed DEF WritersRecorded, EffectAtMostOnce
<1>3. CASE /\ CommitTransaction(c) /\ Target[c] \in Aggregates
           /\ writers' = [writers EXCEPT ![Target[c]] = @ \cup {c}]
  <2>1. \A a \in Aggregates : \A d : d \in writers'[a] => d \in writers[a] \/ d = c
    BY <1>3 DEF LifecycleTypeOK
  <2>2. HasId(c) => CommandId[c] \notin processed /\ CommandId[c] \in processed'
    BY <1>3 DEF CommitTransaction, IsDuplicate, ClaimId
  <2>3. \A a \in Aggregates : \A d \in writers[a] : HasId(d) => CommandId[d] \in processed
    BY DEF WritersRecorded
  <2>4. WritersRecorded'
    BY <1>0, <1>1, <2>1, <2>2, <2>3, WiringFixed DEF WritersRecorded
  <2>5. ASSUME NEW a \in Aggregates, NEW b \in Aggregates,
               NEW d \in writers'[a], NEW f \in writers'[b], HasId(d), CommandId[d] = CommandId[f]
        PROVE  d = f
    <3>1. HasId(f)
      BY <2>5 DEF HasId
    <3>2. CASE d = c
      BY <2>1, <2>2, <2>3, <2>5, <3>1, <3>2
    <3>3. CASE f = c
      BY <2>1, <2>2, <2>3, <2>5, <3>1, <3>3
    <3>4. CASE d # c /\ f # c
      BY <2>1, <2>5, <3>4 DEF EffectAtMostOnce
    <3> QED
      BY <3>2, <3>3, <3>4
  <2>6. EffectAtMostOnce'
    BY <1>0, <2>5, WiringFixed DEF EffectAtMostOnce
  <2> QED
    BY <2>4, <2>6
<1> QED
  BY <1>2, <1>3, WriterShape

\* That evidence lasts: a dispatch that fails after the commit had events to
\* dispatch, so its call is a writer.
LEMMA EvidenceLasts ==
  ASSUME LifecycleTypeOK, SequenceGapFree, NEW c \in Calls, CallInv(c), Step(c),
         NEW d \in Calls, Target[d] \in Aggregates, WentThrough(d)
  PROVE  WentThrough(d)'
<1>0. wiring' = wiring
  BY DEF Step
<1>1. writers[Target[d]] \subseteq writers'[Target[d]]
  BY StepGrows DEF StoresGrow
<1>2. CASE d \in writers[Target[d]]
  BY <1>0, <1>1, <1>2, WiringFixed DEF WentThrough
<1>3. CASE d # c
  BY <1>0, <1>1, <1>3, StepFrame, WiringFixed DEF WentThrough
<1>4. CASE d = c /\ pc[c] = "saveOutbox"
  <2>1. CommitSaveOutbox(c)
    BY <1>4 DEF Step, CallStep, CheckIdempotency, AcquireLock, LockTimeout, LoadSnapshot, Load,
       Decide, DecideFails, CommitConflict, CommitTransaction, CommitDuplicate, CommitBreaks,
       CommitSave, CommitSaveId, CommitSaveIdConflict, Unlock, SaveSnapshot,
       SkipSnapshot, Publish, PublishFails, Published, MarkPublished
  <2>2. result'[c] = "ok"
    BY <2>1 DEF CommitSaveOutbox, LeaveStrategy, LifecycleTypeOK
  <2> QED
    BY <1>4, <2>2 DEF WentThrough
<1>5. CASE d = c /\ result[c] = "ok" /\ c \notin writers[Target[c]]
  <2>1. pc[c] \notin Attempting
    BY <1>5 DEF CallInv, CallUnderWay
  <2>2. CASE PublishFails(c)
    <3>1. att[c].events \in Seq(Event) /\ sent[c] \in Nat
      BY AttemptFields DEF LifecycleTypeOK
    <3>2. att[c].events # << >>
      BY <2>2, <3>1, EmptySeq DEF PublishFails
    <3>3. c \in writers[Target[c]]
      BY <2>2, <3>2 DEF PublishFails, CallInv, SavedIsStored, Saved
    <3> QED
      BY <1>5, <3>3
  <2>3. CASE ~PublishFails(c)
    <3>1. result' = result
      BY <2>1, <2>3 DEF Step, CallStep, CheckIdempotency, AcquireLock, LockTimeout, LoadSnapshot,
         Load, Decide, DecideFails, CommitConflict, CommitTransaction, CommitDuplicate,
         CommitBreaks, CommitSave, CommitSaveId, CommitSaveIdConflict, CommitSaveOutbox,
         Unlock, SaveSnapshot, SkipSnapshot, Publish, Published, MarkPublished, Attempting
    <3> QED
      BY <1>5, <3>1 DEF WentThrough
  <2> QED
    BY <2>2, <2>3
<1> QED
  BY <1>2, <1>3, <1>4, <1>5 DEF WentThrough

\* Every new record is evidence of a commit, and the old evidence lasts.
LEMMA RecordedStep ==
  ASSUME LifecycleTypeOK, SequenceGapFree, RecordedWentThrough, NEW c \in Calls, CallInv(c), Step(c)
  PROVE  RecordedWentThrough'
<1>0. wiring' = wiring
  BY DEF Step
<1> SUFFICES ASSUME IdsInTx, NEW id \in processed'
             PROVE  \E d \in Calls :
                      CommandId[d] = id /\ Target[d] \in Aggregates /\ WentThrough(d)'
  BY <1>0, WiringFixed DEF RecordedWentThrough
<1>1. CASE id \in processed
  <2>1. PICK d \in Calls : CommandId[d] = id /\ Target[d] \in Aggregates /\ WentThrough(d)
    BY <1>1 DEF RecordedWentThrough
  <2> QED
    BY <2>1, EvidenceLasts
<1>2. CASE id \notin processed
  <2>1. ClaimId(c) /\ (CommitTransaction(c) \/ CommitSaveId(c))
    BY <1>2, ClaimShape
  <2>2. CommandId[c] = id
    BY <1>2, <2>1 DEF ClaimId
  <2>3. Target[c] \in Aggregates
    BY <2>1 DEF CommitTransaction, CommitSaveId, CallInv, CallUnderWay
  <2>4. CASE CommitTransaction(c)
    <3>1. result'[c] = "ok"
      BY <2>4 DEF CommitTransaction, LeaveStrategy, LifecycleTypeOK
    <3> QED
      BY <2>2, <2>3, <3>1 DEF WentThrough
  <2>5. CASE CommitSaveId(c)
    <3>1. pc'[c] = "saveOutbox"
      BY <2>5 DEF CommitSaveId, Goto, LifecycleTypeOK
    <3> QED
      BY <2>2, <2>3, <3>1 DEF WentThrough
  <2> QED
    BY <2>1, <2>4, <2>5
<1> QED
  BY <1>1, <1>2

-----------------------------------------------------------------------------

\* The invariant holds of a domain that has executed nothing.
LEMMA LifecycleInitInv == LifecycleInit => LifecycleInv
<1> SUFFICES ASSUME LifecycleInit PROVE LifecycleInv
  OBVIOUS
<1>1. LifecycleTypeOK
  <2>1. store \in [Aggregates -> Versioned] /\ snap \in [Aggregates -> Versioned]
    BY NoAttemptType DEF LifecycleInit
  <2>2. att \in [Calls -> Attempt]
    BY NoAttemptType DEF LifecycleInit
  <2>3. pc \in [Calls -> Stages] /\ result \in [Calls -> Results]
    BY DEF LifecycleInit, Stages, Results
  <2>4. tries \in [Calls -> 0..MaxRetries] /\ sent \in [Calls -> Nat]
    BY LifecycleAssumption DEF LifecycleInit
  <2> QED
    BY <2>1, <2>2, <2>3, <2>4 DEF LifecycleInit, LifecycleTypeOK
<1>2. ASSUME NEW c \in Calls PROVE CallInv(c)
  <2>1. Target[c] \in Aggregates \cup {NoAggregate}
    BY LifecycleAssumption DEF LifecycleInit, Wiring, Target
  <2>2. pc[c] \in {"done", "start"} /\ result[c] = "pending"
    BY DEF LifecycleInit
  <2>3. pc[c] = "start" => Target[c] \in Aggregates
    BY <2>1 DEF LifecycleInit
  <2> QED
    BY <2>2, <2>3 DEF CallInv, CallUnderWay, BaseIsReplay, LoadedWasStored, EventsContinue,
       SavedIsStored, Saved, Attempting
<1>3. \A a \in Sourced : a \in Aggregates
  BY LifecycleAssumption DEF LifecycleInit, Wiring, Sourced
<1>4. \A a \in Sourced : /\ store[a].version = 0 /\ store[a].state = << >>
                         /\ snap[a].version = 0 /\ snap[a].state = << >>
  BY <1>3 DEF LifecycleInit, Empty
<1>5. SubSeq(<< >>, 1, 0) = << >> /\ Len(<< >>) = 0
  BY SubSeqEmpty
<1>6. SequenceGapFree /\ SnapshotsFaithful
  <2>1. ASSUME NEW a \in Sourced
        PROVE  /\ store[a].version = Len(store[a].state)
               /\ \A i \in 1..Len(store[a].state) : store[a].state[i].seq = i
    BY <1>4
  <2>2. ASSUME NEW a \in Sourced
        PROVE  /\ snap[a].version <= Len(store[a].state)
               /\ snap[a].state = SubSeq(store[a].state, 1, snap[a].version)
    <3>1. snap[a].version = 0 /\ snap[a].state = << >> /\ store[a].state = << >>
      BY <1>4
    <3>2. 0 <= Len(<< >>) /\ << >> = SubSeq(<< >>, 1, 0)
      BY <1>5
    <3> QED
      BY <3>1, <3>2, Zenon
  <2> QED
    BY <2>1, <2>2 DEF SequenceGapFree, SnapshotsFaithful
<1>7. WritersRecorded /\ EffectAtMostOnce /\ RecordedWentThrough
  BY DEF LifecycleInit, WritersRecorded, EffectAtMostOnce, RecordedWentThrough
<1> QED
  BY <1>1, <1>2, <1>6, <1>7 DEF LifecycleInv

\* Every step of every call preserves it.
LEMMA LifecycleNextInv ==
  ASSUME LifecycleInv, [LifecycleNext]_lifecycleVars
  PROVE  LifecycleInv'
<1> USE DEF LifecycleInv
<1>1. CASE UNCHANGED lifecycleVars
  <2>1. /\ UNCHANGED <<wiring, store, writers, snap, processed, outbox, marked, dispatched>>
        /\ UNCHANGED <<lock, pc, tries, att, sent, result>>
    BY <1>1 DEF lifecycleVars, stores, locals
  <2>2. LifecycleTypeOK'
    BY <2>1 DEF LifecycleTypeOK
  <2>3. \A c \in Calls : CallInv(c)'
    BY <2>1, WiringFixed DEF CallInv, CallUnderWay, BaseIsReplay, LoadedWasStored, EventsContinue,
       SavedIsStored, Saved, Stream
  <2>4. SequenceGapFree' /\ SnapshotsFaithful'
    BY <2>1, WiringFixed DEF SequenceGapFree, SnapshotsFaithful
  <2>5. WritersRecorded' /\ EffectAtMostOnce'
    BY <2>1, WiringFixed DEF WritersRecorded, EffectAtMostOnce
  <2>6. RecordedWentThrough'
    BY <2>1, WiringFixed DEF RecordedWentThrough, WentThrough
  <2> QED
    BY <2>2, <2>3, <2>4, <2>5, <2>6
<1>2. ASSUME NEW c \in Calls, Step(c)
      PROVE  LifecycleInv'
  <2>1. LifecycleTypeOK'
    BY <1>2, CallStepType DEF CallInv, CallUnderWay
  <2>2. StoresGrow
    BY <1>2, StepGrows
  <2>3. ASSUME NEW d \in Calls PROVE CallInv(d)'
    <3>1. CASE d = c
      BY <1>2, <3>1, OwnStep
    <3>2. CASE d # c
      <4>1. wiring' = wiring /\ pc'[d] = pc[d] /\ att'[d] = att[d] /\ result'[d] = result[d]
        BY <1>2, <3>2, StepFrame
      <4> QED
        BY <2>1, <2>2, <4>1, OthersKeep
    <3> QED
      BY <3>1, <3>2
  <2>4. SequenceGapFree'
    BY <1>2, GapFreeStep
  <2>5. SnapshotsFaithful'
    BY <1>2, SnapshotsStep
  <2>6. WritersRecorded' /\ EffectAtMostOnce'
    BY <1>2, EffectStep
  <2>7. RecordedWentThrough'
    BY <1>2, RecordedStep
  <2> QED
    BY <2>1, <2>3, <2>4, <2>5, <2>6, <2>7
<1> QED
  BY <1>1, <1>2 DEF LifecycleNext

\* The inductive invariant of the command lifecycle.
LEMMA LifecycleInvariant == LifecycleSpec => []LifecycleInv
BY LifecycleInitInv, LifecycleNextInv, PTL DEF LifecycleSpec

\* The variables keep their types: retries stay within MaxRetries, and a stored
\* stream, a snapshot and an attempt hold only events.
THEOREM LifecycleTypeCorrect == LifecycleSpec => []LifecycleTypeOK
<1>1. LifecycleInv => LifecycleTypeOK
  BY DEF LifecycleInv
<1> QED
  BY <1>1, LifecycleInvariant, PTL

\* In every execution, with any number of concurrent calls, retries and snapshots,
\* the sequence numbers that MetadataEnricher gives the events of a stream are
\* 1, 2, 3... without gap or repetition.
THEOREM LifecycleSequenceGapFree == LifecycleSpec => []SequenceGapFree
<1>1. LifecycleInv => SequenceGapFree
  BY DEF LifecycleInv
<1> QED
  BY <1>1, LifecycleInvariant, PTL

\* Every stored snapshot is the replay of its stream up to its version, also when
\* the snapshots of racing calls overwrite each other out of order.
THEOREM LifecycleSnapshotsFaithful == LifecycleSpec => []SnapshotsFaithful
<1>1. LifecycleInv => SnapshotsFaithful
  BY DEF LifecycleInv
<1> QED
  BY <1>1, LifecycleInvariant, PTL

\* With a transactional unit of work, deliveries of one command that race past the
\* exists() check never both change an aggregate.
THEOREM LifecycleEffectAtMostOnce == LifecycleSpec => []EffectAtMostOnce
<1>1. LifecycleInv => EffectAtMostOnce
  BY DEF LifecycleInv
<1> QED
  BY <1>1, LifecycleInvariant, PTL

\* With idempotency records in the unit of work, a record exists only for a command
\* that went through its commit: a skipped duplicate is never a lost command.
THEOREM LifecycleRecordedWasCommitted == LifecycleSpec => []RecordedWasCommitted
<1>1. LifecycleInv => RecordedWasCommitted
  BY DEF LifecycleInv, RecordedWentThrough, WentThrough, RecordedWasCommitted
<1> QED
  BY <1>1, LifecycleInvariant, PTL

\* A step extends the history of every aggregate by the events of one call, each
\* decided on all the history before it, or leaves it alone.
LEMMA StepIsHistoryStep ==
  ASSUME LifecycleInv, NEW c \in Calls, Step(c), NEW a \in Aggregates
  PROVE  History!Extends(a, c)
<1> DEFINE H == [r \in Aggregates |-> store[r].state]
           old == store[a].state
           new == store'[a].state
           e == att[c].events
<1>1. H[a] = old /\ H'[a] = new
  OBVIOUS
<1>2. old \in Seq(Event) /\ Len(old) \in Nat /\ SubSeq(old, 1, Len(old)) = old
  BY LenProperties, SubSeqFull DEF LifecycleInv, LifecycleTypeOK, Versioned
<1> HIDE DEF H, old, new, e
<1> SUFFICES /\ Len(old) <= Len(new) /\ SubSeq(new, 1, Len(old)) = old
             /\ \A i \in Len(old) + 1..Len(new) : new[i].by = c /\ new[i].saw = Len(old)
  BY <1>1 DEF History!Extends, H, old, new
<1>3. CASE new = old
  BY <1>2, <1>3
<1>4. CASE new # old
  <2>1. Saves(c) /\ LifecycleTypeOK /\ SequenceGapFree /\ CallInv(c)
    BY <1>4, StepFrame DEF LifecycleInv, old, new
  <2>2. ~SaveIsNoOp(c) /\ a = Target[c]
    BY <1>4, <2>1, SaveAppends DEF old, new
  <2>3. new = old \o e /\ att[c].state = old
    BY <2>1, <2>2, SaveAppends DEF old, new, e, Stream
  <2>4. e \in Seq(Event) /\ Len(e) \in Nat
    BY <2>1, AttemptFields, LenProperties DEF LifecycleTypeOK, e
  <2>5. \A i \in 1..Len(e) : e[i].by = c /\ e[i].saw = Len(old)
    BY <2>1, <2>3 DEF Saves, CallInv, EventsContinue, e
  <2>6. /\ Len(old \o e) = Len(old) + Len(e)
        /\ \A i \in 1..Len(old) + Len(e) :
             (old \o e)[i] = IF i <= Len(old) THEN old[i] ELSE e[i - Len(old)]
    BY <1>2, <2>4, ConcatProperties
  <2>7. IsReplay(old, Len(old), old)
    BY <1>2, ReplayAll
  <2>8. IsReplay(old, Len(old), new)
    BY <1>2, <2>3, <2>4, <2>7, ReplayGrows
  <2>9. ASSUME NEW i \in Len(old) + 1..Len(new)
        PROVE  new[i].by = c /\ new[i].saw = Len(old)
    <3>1. i - Len(old) \in 1..Len(e) /\ new[i] = e[i - Len(old)]
      BY <1>2, <2>3, <2>4, <2>6
    <3> QED
      BY <2>5, <3>1
  <2> QED
    BY <2>8, <2>9 DEF IsReplay
<1> QED
  BY <1>3, <1>4

\* The command lifecycle implements AggregateHistory, for both persistence modes
\* and both concurrency strategies: an aggregate's history grows by whole blocks,
\* each decided by one call on exactly the history before it.  No update is lost
\* and no decision on a stale state is ever stored.
THEOREM LifecycleImplementsHistory == LifecycleSpec => HistoryRefined
<1> DEFINE H == [a \in Aggregates |-> store[a].state]
<1>1. LifecycleInit => History!HistoryInit
  BY DEF LifecycleInit, Empty, History!HistoryInit
<1>2. LifecycleInv /\ [LifecycleNext]_lifecycleVars => [History!HistoryNext]_H
  <2> SUFFICES ASSUME LifecycleInv, [LifecycleNext]_lifecycleVars
               PROVE  [History!HistoryNext]_H
    OBVIOUS
  <2>1. CASE UNCHANGED lifecycleVars
    BY <2>1 DEF lifecycleVars, stores
  <2>2. ASSUME NEW c \in Calls, Step(c)
        PROVE  History!HistoryNext
    BY <2>2, StepIsHistoryStep DEF History!HistoryNext
  <2> QED
    BY <2>1, <2>2 DEF LifecycleNext
<1> QED
  BY <1>1, <1>2, LifecycleInvariant, PTL DEF LifecycleSpec, HistoryRefined, History!HistorySpec
=============================================================================
