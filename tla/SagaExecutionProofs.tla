------------------------ MODULE SagaExecutionProofs ------------------------
(***************************************************************************)
(* What holds of SagaExecution for any events, sagas, reactions and number *)
(* of faults.                                                              *)
(*                                                                         *)
(* The hypothesis is NoRacingCheck: no two events race for an instance     *)
(* whose store checks the version and then writes without it (TypeORM).    *)
(* Without it a committed transition can be overwritten, which the run     *)
(* `sagas_typeorm` shows.                                                  *)
(*                                                                         *)
(* The properties say which commands of which attempt took effect.  The    *)
(* induction needs what an attempt has done at each stage: an atomic one   *)
(* has enlisted exactly the commands it has passed (Enlisted), each on a   *)
(* version that cannot be ahead of the aggregate; a best-effort one has    *)
(* executed exactly those (Dispatched).                                    *)
(***************************************************************************)
EXTENDS SagaExecution, SequenceTheorems, FiniteSetTheorems, TLAPS

NoRacingCheck ==
  \A d, e \in Deliveries :
    InstanceOf[d] = InstanceOf[e] /\ InstanceOf[d] \in CheckThenWrite => d = e

\* Command k of attempt t of d took effect.
Wrote(d, t, k) ==
  \E e \in Elements(aggs[Commands[d][k]]) : e.by = d /\ e.try = t /\ e.pos = k

\* Whatever is stored was stored by a committed attempt.
SagaByCommit ==
  \A s \in Instances : \A e \in Elements(saga[s]) : e.try \in 1..commits[e.by]
AggsByCommit ==
  \A a \in Aggregates : \A e \in Elements(aggs[a]) : e.try \in 1..commits[e.by]

\* Every committed attempt of an atomic reaction executed all of its commands,
\* one of a best-effort reaction the first n of them.
AtomicExecuted ==
  \A d \in Deliveries : IsAtomic(d) =>
    \A t \in 1..commits[d], k \in 1..Len(Commands[d]) : Wrote(d, t, k)
PrefixExecuted ==
  \A d \in Deliveries : ~IsAtomic(d) =>
    \A t \in 1..commits[d] : \E n \in 0..Len(Commands[d]) :
      \A k \in 1..Len(Commands[d]) : Wrote(d, t, k) <=> k <= n

\* Nothing is enlisted before the commands are dispatched; a best-effort saga
\* enlists none.
Fresh(d) ==
  pc[d] = "handle" \/ (~IsAtomic(d) /\ pc[d] \in {"commit", "write"}) =>
    local[d].next = 1 /\ \A a \in Aggregates : local[d].writes[a] = << >>

NextInRange(d) == pc[d] = "dispatch" => local[d].next \in 1..Len(Commands[d])

Enlisted(d) ==
  IsAtomic(d) /\ pc[d] \in {"dispatch", "commit", "write"} =>
    /\ \A a \in Aggregates : \A e \in Elements(local[d].writes[a]) :
         e.by = d /\ e.try = commits[d] + 1 /\ e.saw <= Len(aggs[a])
    /\ \A k \in 1..Len(Commands[d]) : k < local[d].next =>
         \E e \in Elements(local[d].writes[Commands[d][k]]) : e.pos = k

AllEnlisted(d) ==
  IsAtomic(d) /\ pc[d] \in {"commit", "write"} => Len(Commands[d]) < local[d].next

Dispatched(d) ==
  ~IsAtomic(d) /\ pc[d] = "dispatch" =>
    /\ commits[d] >= 1
    /\ \A k \in 1..Len(Commands[d]) : Wrote(d, commits[d], k) <=> k < local[d].next

Finished(d) ==
  /\ pc[d] = "publish" => IsAtomic(d)
  /\ pc[d] \in {"publish", "done"} =>
       commits[d] >= 1 /\ \A k \in 1..Len(Commands[d]) : Wrote(d, commits[d], k)

\* Between the check and the write the version stays what it was.
Checked(d) ==
  pc[d] = "write" =>
    InstanceOf[d] \in CheckThenWrite /\ Len(saga[InstanceOf[d]]) = local[d].version

DeliveryInv(d) ==
  /\ Fresh(d) /\ NextInRange(d) /\ Enlisted(d) /\ AllEnlisted(d)
  /\ Dispatched(d) /\ Finished(d) /\ Checked(d)

SagaInv ==
  /\ SagaTypeOK
  /\ SagaByCommit
  /\ CommittedIsKept
  /\ AggsByCommit
  /\ AtomicExecuted
  /\ PrefixExecuted
  /\ \A d \in Deliveries : DeliveryInv(d)

-----------------------------------------------------------------------------
(* The entries of a sequence.                                              *)

\* A sequence holds elements of its set.
LEMMA ElementsType ==
  ASSUME NEW S, NEW s \in Seq(S)
  PROVE  Elements(s) \subseteq S
BY ElementOfSeq DEF Elements

\* The entries of a concatenation are those of both parts.
LEMMA ElementsConcat ==
  ASSUME NEW S, NEW s \in Seq(S), NEW w \in Seq(S)
  PROVE  Elements(s \o w) = Elements(s) \cup Elements(w)
<1>1. /\ Len(s \o w) = Len(s) + Len(w) /\ Len(s) \in Nat /\ Len(w) \in Nat
      /\ \A i \in 1..Len(s) + Len(w) : (s \o w)[i] = IF i <= Len(s) THEN s[i] ELSE w[i - Len(s)]
  BY ConcatProperties, LenProperties
<1>2. ASSUME NEW x \in Elements(s \o w)
      PROVE  x \in Elements(s) \cup Elements(w)
  <2>1. PICK i \in 1..Len(s) + Len(w) : x = (s \o w)[i]
    BY <1>1 DEF Elements
  <2>2. CASE i <= Len(s)
    <3>1. i \in 1..Len(s) /\ x = s[i]
      BY <1>1, <2>1, <2>2
    <3> QED
      BY <3>1 DEF Elements
  <2>3. CASE ~(i <= Len(s))
    <3>1. i - Len(s) \in 1..Len(w) /\ x = w[i - Len(s)]
      BY <1>1, <2>1, <2>3
    <3> QED
      BY <3>1 DEF Elements
  <2> QED
    BY <2>2, <2>3
<1>3. ASSUME NEW x \in Elements(s)
      PROVE  x \in Elements(s \o w)
  <2>1. PICK i \in 1..Len(s) : x = s[i]
    BY DEF Elements
  <2>2. i \in 1..Len(s \o w) /\ x = (s \o w)[i]
    BY <1>1, <2>1
  <2> QED
    BY <2>2 DEF Elements
<1>4. ASSUME NEW x \in Elements(w)
      PROVE  x \in Elements(s \o w)
  <2>1. PICK i \in 1..Len(w) : x = w[i]
    BY DEF Elements
  <2>2. Len(s) + i \in 1..Len(s) + Len(w) /\ ~(Len(s) + i <= Len(s)) /\ Len(s) + i - Len(s) = i
    BY <1>1
  <2>3. x = (s \o w)[Len(s) + i]
    BY <1>1, <2>1, <2>2
  <2> QED
    BY <1>1, <2>2, <2>3 DEF Elements
<1> QED
  BY <1>2, <1>3, <1>4

\* Appending adds one entry.
LEMMA ElementsAppend ==
  ASSUME NEW S, NEW s \in Seq(S), NEW x \in S
  PROVE  Elements(Append(s, x)) = Elements(s) \cup {x}
<1>1. << x >> \in Seq(S) /\ Len(<< x >>) = 1 /\ << x >>[1] = x
  OBVIOUS
<1>2. Elements(<< x >>) = {x}
  BY <1>1 DEF Elements
<1>3. Append(s, x) = s \o << x >>
  BY AppendIsConcat
<1>4. Elements(s \o << x >>) = Elements(s) \cup Elements(<< x >>)
  BY <1>1, ElementsConcat
<1> QED
  BY <1>2, <1>3, <1>4

\* The empty sequence has none.
LEMMA ElementsEmpty == Elements(<< >>) = {}
BY DEF Elements

-----------------------------------------------------------------------------
(* Types.                                                                  *)

\* The fields of a delivery's local state, and its initial value.
LEMMA LocalFields ==
  /\ \A x \in Local : /\ x.version \in Nat /\ x.next \in Nat
                      /\ x.writes \in [Aggregates -> Seq(Entry)]
  /\ NoLocal \in Local
  /\ NoLocal.next = 1 /\ NoLocal.version = 0
  /\ \A a \in Aggregates : NoLocal.writes[a] = << >>
BY DEF Local, NoLocal

\* What an event's commands are, and the instance it belongs to.
LEMMA ReactionType ==
  ASSUME NEW d \in Deliveries
  PROVE  /\ Commands[d] \in Seq(Aggregates) /\ Len(Commands[d]) \in Nat
         /\ \A k \in 1..Len(Commands[d]) : Commands[d][k] \in Aggregates
         /\ InstanceOf[d] \in Instances
BY SagaAssumption, LenProperties, ElementOfSeq

\* How EnlistCommand and DispatchCommand change the local state.
LEMMA DispatchLocals ==
  ASSUME SagaTypeOK, NEW d \in Deliveries, pc[d] = "dispatch", NextInRange(d)
  PROVE  /\ NextTarget(d) \in Aggregates
         /\ local[d].next \in Nat /\ local[d].next >= 1
         /\ EnlistCommand(d) =>
              LET a == NextTarget(d)
                  e == Produced(d, commits[d] + 1, Len(aggs[a]))
              IN /\ e \in Entry
                 /\ local'[d].next = local[d].next + 1
                 /\ local'[d].version = local[d].version
                 /\ local'[d].writes = [local[d].writes EXCEPT ![a] = Append(@, e)]
                 /\ local' \in [Deliveries -> Local]
                 /\ \A f \in Deliveries : f # d => local'[f] = local[f]
         /\ DispatchCommand(d) =>
              LET a == NextTarget(d)
                  e == Produced(d, commits[d], Len(aggs[a]))
              IN /\ e \in Entry
                 /\ local'[d].next = local[d].next + 1
                 /\ local'[d].version = local[d].version
                 /\ local'[d].writes = local[d].writes
                 /\ local' \in [Deliveries -> Local]
                 /\ \A f \in Deliveries : f # d => local'[f] = local[f]
                 /\ aggs' = [aggs EXCEPT ![a] = Append(aggs[a], e)]
<1> DEFINE a == NextTarget(d)
           e1 == Produced(d, commits[d] + 1, Len(aggs[a]))
           e2 == Produced(d, commits[d], Len(aggs[a]))
<1>1. local[d].next \in 1..Len(Commands[d])
  BY DEF NextInRange
<1>2. a \in Aggregates /\ local[d].next \in Nat /\ local[d].next >= 1
  BY <1>1, ReactionType DEF NextTarget
<1>3. aggs[a] \in Seq(Entry) /\ Len(aggs[a]) \in Nat
  BY <1>2, LenProperties DEF SagaTypeOK
<1>4. commits[d] \in Nat /\ commits[d] + 1 \in Nat
  BY DEF SagaTypeOK
<1>5. e1 \in Entry /\ e2 \in Entry
  BY <1>2, <1>3, <1>4 DEF Produced, Entry
<1>6. local[d] \in Local /\ local[d].writes \in [Aggregates -> Seq(Entry)]
  BY LocalFields DEF SagaTypeOK
<1> HIDE DEF a, e1, e2
<1>7. ASSUME EnlistCommand(d)
      PROVE  /\ local'[d].next = local[d].next + 1
             /\ local'[d].version = local[d].version
             /\ local'[d].writes = [local[d].writes EXCEPT ![a] = Append(@, e1)]
             /\ local' \in [Deliveries -> Local]
             /\ \A f \in Deliveries : f # d => local'[f] = local[f]
  <2>1. local' = [local EXCEPT ![d].next = @ + 1, ![d].writes[a] = Append(@, e1)]
    BY <1>7 DEF EnlistCommand, a, e1
  <2>2. local' = [local EXCEPT ![d] = [local[d] EXCEPT !.next = local[d].next + 1,
                    !.writes = [local[d].writes EXCEPT ![a] = Append(@, e1)]]]
    BY <2>1, <1>6 DEF SagaTypeOK, Local
  <2>3. Append(local[d].writes[a], e1) \in Seq(Entry)
    BY <1>2, <1>5, <1>6, AppendProperties
  <2>4. [local[d].writes EXCEPT ![a] = Append(@, e1)] \in [Aggregates -> Seq(Entry)]
    BY <1>2, <1>6, <2>3
  <2>5. [local[d] EXCEPT !.next = local[d].next + 1,
           !.writes = [local[d].writes EXCEPT ![a] = Append(@, e1)]] \in Local
    <3> DEFINE n == local[d].next + 1
               w == [local[d].writes EXCEPT ![a] = Append(@, e1)]
    <3>1. n \in Nat /\ w \in [Aggregates -> Seq(Entry)]
      BY <1>2, <2>4
    <3> HIDE DEF n, w
    <3>2. [local[d] EXCEPT !.next = n, !.writes = w] \in Local
      BY <1>6, <3>1 DEF Local
    <3> QED
      BY <3>2 DEF n, w
  <2> QED
    BY <1>6, <2>2, <2>5 DEF SagaTypeOK, Local
<1>8. ASSUME DispatchCommand(d)
      PROVE  /\ local'[d].next = local[d].next + 1
             /\ local'[d].version = local[d].version
             /\ local'[d].writes = local[d].writes
             /\ local' \in [Deliveries -> Local]
             /\ \A f \in Deliveries : f # d => local'[f] = local[f]
             /\ aggs' = [aggs EXCEPT ![a] = Append(aggs[a], e2)]
  <2>1. local' = [local EXCEPT ![d] = [local[d] EXCEPT !.next = local[d].next + 1]]
    BY <1>8 DEF DispatchCommand
  <2>2. [local[d] EXCEPT !.next = local[d].next + 1] \in Local
    BY <1>2, <1>6 DEF Local
  <2>3. aggs' = [aggs EXCEPT ![a] = Append(aggs[a], e2)]
    BY <1>8 DEF DispatchCommand, a, e2
  <2> QED
    BY <1>6, <2>1, <2>2, <2>3 DEF SagaTypeOK, Local
<1> QED
  BY <1>2, <1>5, <1>7, <1>8 DEF a, e1, e2

\* The entry by which a commit of d extends its saga.
Transition(d) ==
  [by |-> d, try |-> commits[d] + 1, pos |-> 0, saw |-> Len(saga[InstanceOf[d]])]

\* A commit finds the version it loaded, so it appends to the saga's history; the
\* aggregates gain what was enlisted for them.
LEMMA CommitEffect ==
  ASSUME NoRacingCheck, SagaTypeOK, NEW d \in Deliveries, DeliveryInv(d), Commit(d)
  PROVE  /\ Transition(d) \in Entry
         /\ saga' = [saga EXCEPT ![InstanceOf[d]] = Append(saga[InstanceOf[d]], Transition(d))]
         /\ commits' = [commits EXCEPT ![d] = commits[d] + 1]
         /\ commits[d] \in Nat
         /\ aggs' \in [Aggregates -> Seq(Entry)]
         /\ \A a \in Aggregates :
              /\ aggs'[a] = aggs[a] \o local[d].writes[a]
              /\ Elements(aggs'[a]) = Elements(aggs[a]) \cup Elements(local[d].writes[a])
              /\ Len(aggs[a]) <= Len(aggs'[a])
<1> DEFINE s == InstanceOf[d]
<1>1. s \in Instances /\ saga[s] \in Seq(Entry) /\ Len(saga[s]) \in Nat
  BY ReactionType, LenProperties DEF SagaTypeOK
<1>2. Len(saga[s]) = local[d].version
  BY DEF Commit, Conflicts, SagaConflicts, DeliveryInv, Checked
<1>3. SubSeq(saga[s], 1, local[d].version) = saga[s]
  BY <1>1, <1>2, SubSeqFull
<1>4. commits[d] \in Nat
  BY DEF SagaTypeOK
<1>5. Transition(d) \in Entry
  BY <1>1, <1>4 DEF Transition, Entry
<1>6. saga' = [saga EXCEPT ![s] = Append(saga[s], Transition(d))]
  BY <1>2, <1>3 DEF Commit, Absorb, Transition
<1>7. commits' = [commits EXCEPT ![d] = commits[d] + 1]
  BY DEF Commit
<1>8. local[d].writes \in [Aggregates -> Seq(Entry)]
  BY LocalFields DEF SagaTypeOK
<1>9. ASSUME NEW a \in Aggregates
      PROVE  /\ aggs'[a] = aggs[a] \o local[d].writes[a]
             /\ aggs'[a] \in Seq(Entry)
             /\ Elements(aggs'[a]) = Elements(aggs[a]) \cup Elements(local[d].writes[a])
             /\ Len(aggs[a]) <= Len(aggs'[a])
  <2>1. aggs'[a] = aggs[a] \o local[d].writes[a]
    BY DEF Commit
  <2>2. aggs[a] \in Seq(Entry) /\ local[d].writes[a] \in Seq(Entry)
    BY <1>8 DEF SagaTypeOK
  <2>3. Elements(aggs[a] \o local[d].writes[a]) = Elements(aggs[a]) \cup Elements(local[d].writes[a])
    BY <2>2, ElementsConcat
  <2>4. aggs[a] \o local[d].writes[a] \in Seq(Entry)
    BY <2>2, ConcatProperties
  <2>5. Len(aggs[a] \o local[d].writes[a]) = Len(aggs[a]) + Len(local[d].writes[a])
    BY <2>2, ConcatProperties
  <2>6. Len(aggs[a]) \in Nat /\ Len(local[d].writes[a]) \in Nat
    BY <2>2, LenProperties
  <2> DEFINE w == aggs[a] \o local[d].writes[a]
  <2>12. Len(w) = Len(aggs[a]) + Len(local[d].writes[a])
    BY <2>5
  <2>8. aggs'[a] = w /\ w \in Seq(Entry)
    BY <2>1, <2>4
  <2>9. Elements(w) = Elements(aggs[a]) \cup Elements(local[d].writes[a])
    BY <2>3
  <2>10. aggs'[a] = aggs[a] \o local[d].writes[a]
    BY <2>1
  <2> HIDE DEF w
  <2>13. \A x, y \in Nat : x <= x + y
    OBVIOUS
  <2>7. Len(aggs[a]) <= Len(w)
    BY <2>6, <2>12, <2>13, Zenon
  <2>11. /\ aggs'[a] \in Seq(Entry) /\ Len(aggs[a]) <= Len(aggs'[a])
         /\ Elements(aggs'[a]) = Elements(aggs[a]) \cup Elements(local[d].writes[a])
    BY <2>7, <2>8, <2>9, Zenon
  <2> QED
    BY <2>10, <2>11
<1>10. aggs' \in [Aggregates -> Seq(Entry)]
  <2>1. aggs' = [a \in Aggregates |-> aggs[a] \o local[d].writes[a]]
    BY DEF Commit
  <2>2. \A a \in Aggregates : aggs[a] \o local[d].writes[a] \in Seq(Entry)
    BY <1>9
  <2> QED
    BY <2>1, <2>2
<1> QED
  BY <1>4, <1>5, <1>6, <1>7, <1>9, <1>10

\* A rejected delivery goes back to the broker or is lost, its local state is gone.
LEMMA RejectsEffect ==
  ASSUME SagaTypeOK, NEW d \in Deliveries, Rejects(d)
  PROVE  /\ pc' \in [Deliveries -> Stages] /\ local' \in [Deliveries -> Local]
         /\ pc'[d] \in {"idle", "lost"}
         /\ \A f \in Deliveries : f # d => pc'[f] = pc[f] /\ local'[f] = local[f]
BY LocalFields DEF SagaTypeOK, Rejects, Goto, Stages

\* Every step keeps the types.
LEMMA SagaStepType ==
  ASSUME NoRacingCheck, SagaTypeOK, NEW d \in Deliveries, DeliveryInv(d),
         ExecutorStep(d) \/ Fault(d)
  PROVE  /\ saga' \in [Instances -> Seq(Entry)]
         /\ aggs' \in [Aggregates -> Seq(Entry)]
         /\ bus' \in Buses
         /\ pc' \in [Deliveries -> Stages]
         /\ commits' \in [Deliveries -> Nat]
         /\ local' \in [Deliveries -> Local]
         /\ published' \subseteq Entry
         /\ faults' \in 0..MaxFaults
         /\ \A f \in Deliveries : f # d =>
              pc'[f] = pc[f] /\ local'[f] = local[f] /\ commits'[f] = commits[f]
<1>1. CASE LoadSaga(d)
  <2>1. saga[InstanceOf[d]] \in Seq(Entry)
    BY ReactionType DEF SagaTypeOK
  <2>2. Len(saga[InstanceOf[d]]) \in Nat
    BY <2>1, LenProperties
  <2>3. [NoLocal EXCEPT !.version = Len(saga[InstanceOf[d]])] \in Local
    BY <2>2, LocalFields DEF Local
  <2>4. local' \in [Deliveries -> Local] /\ \A f \in Deliveries : f # d => local'[f] = local[f]
    BY <1>1, <2>3 DEF LoadSaga, SagaTypeOK
  <2>5. pc' \in [Deliveries -> Stages] /\ \A f \in Deliveries : f # d => pc'[f] = pc[f]
    BY <1>1 DEF LoadSaga, Goto, SagaTypeOK, Stages
  <2> QED
    BY <1>1, <2>4, <2>5 DEF LoadSaga, SagaTypeOK
<1>2. CASE Handle(d)
  <2>1. pc' \in [Deliveries -> Stages] /\ \A f \in Deliveries : f # d => pc'[f] = pc[f]
    BY <1>2 DEF Handle, Goto, AfterCommands, SagaTypeOK, Stages
  <2> QED
    BY <1>2, <2>1 DEF Handle, SagaTypeOK
<1>3. CASE EnlistCommand(d)
  <2>1. pc' \in [Deliveries -> Stages] /\ \A f \in Deliveries : f # d => pc'[f] = pc[f]
    BY <1>3 DEF EnlistCommand, Goto, AfterCommands, SagaTypeOK, Stages
  <2>2. local' \in [Deliveries -> Local] /\ \A f \in Deliveries : f # d => local'[f] = local[f]
    BY <1>3, DispatchLocals DEF EnlistCommand, DeliveryInv
  <2> QED
    BY <1>3, <2>1, <2>2 DEF EnlistCommand, SagaTypeOK
<1>4. CASE CheckVersion(d)
  <2>1. pc' \in [Deliveries -> Stages] /\ \A f \in Deliveries : f # d => pc'[f] = pc[f]
    BY <1>4 DEF CheckVersion, Goto, SagaTypeOK, Stages
  <2> QED
    BY <1>4, <2>1 DEF CheckVersion, SagaTypeOK
<1>5. CASE CommitConflict(d)
  BY <1>5, RejectsEffect DEF CommitConflict, SagaTypeOK
<1>6. CASE Commit(d)
  <2>1. pc' \in [Deliveries -> Stages] /\ \A f \in Deliveries : f # d => pc'[f] = pc[f]
    BY <1>6 DEF Commit, Goto, AfterCommands, SagaTypeOK, Stages
  <2>2. /\ Transition(d) \in Entry
        /\ saga' = [saga EXCEPT ![InstanceOf[d]] = Append(saga[InstanceOf[d]], Transition(d))]
        /\ commits' = [commits EXCEPT ![d] = commits[d] + 1]
        /\ commits[d] \in Nat
        /\ aggs' \in [Aggregates -> Seq(Entry)]
    BY <1>6, CommitEffect
  <2>3. Append(saga[InstanceOf[d]], Transition(d)) \in Seq(Entry)
    BY <2>2, ReactionType, AppendProperties DEF SagaTypeOK
  <2>4. saga' \in [Instances -> Seq(Entry)]
    BY <2>2, <2>3 DEF SagaTypeOK
  <2>5. commits' \in [Deliveries -> Nat] /\ \A f \in Deliveries : f # d => commits'[f] = commits[f]
    BY <2>2 DEF SagaTypeOK
  <2> QED
    BY <1>6, <2>1, <2>2, <2>4, <2>5 DEF Commit, SagaTypeOK
<1>7. CASE DispatchCommand(d)
  <2>1. pc' \in [Deliveries -> Stages] /\ \A f \in Deliveries : f # d => pc'[f] = pc[f]
    BY <1>7 DEF DispatchCommand, Goto, AfterCommands, SagaTypeOK, Stages
  <2> DEFINE a == NextTarget(d)
             e == Produced(d, commits[d], Len(aggs[a]))
  <2>2. /\ local' \in [Deliveries -> Local] /\ \A f \in Deliveries : f # d => local'[f] = local[f]
        /\ a \in Aggregates /\ e \in Entry
        /\ aggs' = [aggs EXCEPT ![a] = Append(aggs[a], e)]
    BY <1>7, DispatchLocals DEF DispatchCommand, DeliveryInv
  <2> HIDE DEF a, e
  <2>3. Append(aggs[a], e) \in Seq(Entry)
    BY <2>2, AppendProperties DEF SagaTypeOK
  <2>4. aggs' \in [Aggregates -> Seq(Entry)]
    BY <2>2, <2>3 DEF SagaTypeOK
  <2> QED
    BY <1>7, <2>1, <2>2, <2>4 DEF DispatchCommand, SagaTypeOK
<1>8. CASE Publish(d)
  <2>1. pc' \in [Deliveries -> Stages] /\ \A f \in Deliveries : f # d => pc'[f] = pc[f]
    BY <1>8 DEF Publish, Goto, SagaTypeOK, Stages
  <2>2. Unpublished(d) \subseteq Entry
    <3>1. local[d].writes \in [Aggregates -> Seq(Entry)]
      BY LocalFields DEF SagaTypeOK
    <3>2. \A a \in Aggregates : Elements(local[d].writes[a]) \subseteq Entry
      BY <3>1, ElementsType
    <3> QED
      BY <3>2 DEF Unpublished
  <2>3. published' \subseteq Entry
    BY <1>8, <2>2 DEF Publish, SagaTypeOK
  <2> QED
    BY <1>8, <2>1, <2>3 DEF Publish, SagaTypeOK
<1>9. CASE Fault(d)
  <2>1. faults' \in 0..MaxFaults
    BY <1>9, SagaAssumption DEF Fault, SagaTypeOK
  <2>2. Rejects(d)
    BY <1>9 DEF Fault
  <2> QED
    BY <1>9, <2>1, <2>2, RejectsEffect DEF Fault, SagaTypeOK
<1> QED
  BY <1>1, <1>2, <1>3, <1>4, <1>5, <1>6, <1>7, <1>8, <1>9 DEF ExecutorStep

-----------------------------------------------------------------------------
(* What a step of d does to what others rely on.                           *)

\* Nothing leaves a store, and what enters one is the work of d.
Grows(d) ==
  /\ \A a \in Aggregates :
       /\ Elements(aggs[a]) \subseteq Elements(aggs'[a])
       /\ \A e \in Elements(aggs'[a]) : e \in Elements(aggs[a]) \/ e.by = d
       /\ Len(aggs[a]) <= Len(aggs'[a])
  /\ \A s \in Instances :
       /\ Elements(saga[s]) \subseteq Elements(saga'[s])
       /\ s # InstanceOf[d] => saga'[s] = saga[s]

\* Every step only adds work of its own delivery.
LEMMA StepGrows ==
  ASSUME NoRacingCheck, SagaTypeOK, NEW d \in Deliveries, DeliveryInv(d),
         ExecutorStep(d) \/ Fault(d)
  PROVE  Grows(d)
<1>0. \A a \in Aggregates : aggs[a] \in Seq(Entry) /\ Len(aggs[a]) \in Nat
  BY LenProperties DEF SagaTypeOK
<1>1. CASE Commit(d)
  <2>1. /\ Transition(d) \in Entry
        /\ saga' = [saga EXCEPT ![InstanceOf[d]] = Append(saga[InstanceOf[d]], Transition(d))]
        /\ \A a \in Aggregates :
              /\ Elements(aggs'[a]) = Elements(aggs[a]) \cup Elements(local[d].writes[a])
              /\ Len(aggs[a]) <= Len(aggs'[a])
    BY <1>1, CommitEffect
  <2>2. ASSUME NEW a \in Aggregates, NEW e \in Elements(local[d].writes[a])
        PROVE  e.by = d
    <3>1. CASE IsAtomic(d)
      BY <1>1, <3>1 DEF Commit, DeliveryInv, Enlisted
    <3>2. CASE ~IsAtomic(d)
      <4>1. local[d].writes[a] = << >>
        BY <1>1, <3>2 DEF Commit, DeliveryInv, Fresh
      <4> QED
        BY <4>1, ElementsEmpty
    <3> QED
      BY <3>1, <3>2
  <2>3. InstanceOf[d] \in Instances /\ saga \in [Instances -> Seq(Entry)]
    BY ReactionType DEF SagaTypeOK
  <2>4. Elements(Append(saga[InstanceOf[d]], Transition(d)))
          = Elements(saga[InstanceOf[d]]) \cup {Transition(d)}
    BY <2>1, <2>3, ElementsAppend
  <2>5. ASSUME NEW s \in Instances
        PROVE  /\ Elements(saga[s]) \subseteq Elements(saga'[s])
               /\ s # InstanceOf[d] => saga'[s] = saga[s]
    <3>1. CASE s = InstanceOf[d]
      <4>1. saga'[s] = Append(saga[InstanceOf[d]], Transition(d))
        BY <2>1, <2>3, <3>1
      <4> QED
        BY <2>4, <3>1, <4>1
    <3>2. CASE s # InstanceOf[d]
      BY <2>1, <2>3, <3>2
    <3> QED
      BY <3>1, <3>2
  <2> QED
    BY <2>1, <2>2, <2>5 DEF Grows
<1>2. CASE DispatchCommand(d)
  <2> DEFINE a == NextTarget(d)
             x == Produced(d, commits[d], Len(aggs[a]))
  <2>1. /\ a \in Aggregates /\ x \in Entry /\ x.by = d
        /\ aggs' = [aggs EXCEPT ![a] = Append(aggs[a], x)]
        /\ saga' = saga
    BY <1>2, DispatchLocals DEF DispatchCommand, DeliveryInv, Produced
  <2> HIDE DEF a, x
  <2>2. Elements(Append(aggs[a], x)) = Elements(aggs[a]) \cup {x}
    BY <2>1, <1>0, ElementsAppend
  <2>3. Len(Append(aggs[a], x)) = Len(aggs[a]) + 1
    BY <2>1, <1>0, AppendProperties
  <2>4. Len(aggs[a]) <= Len(Append(aggs[a], x))
    BY <2>1, <2>3, <1>0
  <2>5. ASSUME NEW b \in Aggregates
        PROVE  /\ Elements(aggs[b]) \subseteq Elements(aggs'[b])
               /\ \A e \in Elements(aggs'[b]) : e \in Elements(aggs[b]) \/ e.by = d
               /\ Len(aggs[b]) <= Len(aggs'[b])
    <3>1. CASE b = a
      <4>1. aggs'[b] = Append(aggs[a], x)
        BY <2>1, <3>1 DEF SagaTypeOK
      <4> QED
        BY <2>1, <2>2, <2>4, <3>1, <4>1
    <3>2. CASE b # a
      <4>1. aggs'[b] = aggs[b]
        BY <2>1, <3>2 DEF SagaTypeOK
      <4> QED
        BY <1>0, <4>1
    <3> QED
      BY <3>1, <3>2
  <2> QED
    BY <2>1, <2>5 DEF Grows
<1>3. CASE ~Commit(d) /\ ~DispatchCommand(d)
  <2>1. saga' = saga /\ aggs' = aggs
    BY <1>3 DEF ExecutorStep, LoadSaga, Handle, EnlistCommand, CheckVersion, CommitConflict,
                Publish, Fault
  <2> QED
    BY <1>0, <2>1 DEF Grows
<1> QED
  BY <1>1, <1>2, <1>3

\* What a step does not write about f, in either direction.
LEMMA WroteStays ==
  ASSUME NEW d \in Deliveries, Grows(d), NEW f \in Deliveries,
         NEW t, NEW k \in 1..Len(Commands[f])
  PROVE  /\ Wrote(f, t, k) => Wrote(f, t, k)'
         /\ f # d /\ Wrote(f, t, k)' => Wrote(f, t, k)
<1>1. Commands[f][k] \in Aggregates
  BY ReactionType
<1> QED
  BY <1>1 DEF Grows, Wrote

\* A step of d leaves what another delivery knows of itself intact.
LEMMA OthersKept ==
  ASSUME NoRacingCheck, SagaTypeOK, NEW d \in Deliveries, Grows(d),
         NEW f \in Deliveries, f # d, DeliveryInv(f),
         pc'[f] = pc[f], local'[f] = local[f], commits'[f] = commits[f]
  PROVE  DeliveryInv(f)'
<1>0. /\ \A a \in Aggregates : aggs[a] \in Seq(Entry) /\ Len(aggs[a]) \in Nat
      /\ local[f].writes \in [Aggregates -> Seq(Entry)]
  BY LenProperties, LocalFields DEF SagaTypeOK
<1>1. Fresh(f)' /\ NextInRange(f)' /\ AllEnlisted(f)'
  BY DEF DeliveryInv, Fresh, NextInRange, AllEnlisted, IsAtomic
<1>2. Enlisted(f)'
  <2> SUFFICES ASSUME IsAtomic(f), pc[f] \in {"dispatch", "commit", "write"}
      PROVE  /\ \A a \in Aggregates : \A e \in Elements(local[f].writes[a]) :
                  e.by = f /\ e.try = commits[f] + 1 /\ e.saw <= Len(aggs'[a])
             /\ \A k \in 1..Len(Commands[f]) : k < local[f].next =>
                  \E e \in Elements(local[f].writes[Commands[f][k]]) : e.pos = k
    BY DEF Enlisted, IsAtomic
  <2>1. /\ \A a \in Aggregates : \A e \in Elements(local[f].writes[a]) :
             e.by = f /\ e.try = commits[f] + 1 /\ e.saw <= Len(aggs[a])
        /\ \A k \in 1..Len(Commands[f]) : k < local[f].next =>
             \E e \in Elements(local[f].writes[Commands[f][k]]) : e.pos = k
    BY DEF DeliveryInv, Enlisted
  <2>2. ASSUME NEW a \in Aggregates, NEW e \in Elements(local[f].writes[a])
        PROVE  e.saw <= Len(aggs'[a])
    <3>0. Elements(local[f].writes[a]) \subseteq Entry
      BY <1>0, ElementsType
    <3>1. e.saw \in Nat
      BY <3>0 DEF Entry
    <3>2. Len(aggs[a]) <= Len(aggs'[a]) /\ e.saw <= Len(aggs[a])
      BY <2>1 DEF Grows
    <3>3. Len(aggs'[a]) \in Nat
      BY <3>2
    <3> QED
      BY <1>0, <3>1, <3>2, <3>3
  <2> QED
    BY <2>1, <2>2
<1>3. Dispatched(f)' /\ Finished(f)'
  <2>1. \A t : \A k \in 1..Len(Commands[f]) : Wrote(f, t, k) <=> Wrote(f, t, k)'
    BY WroteStays
  <2>2. Dispatched(f)'
    BY <2>1 DEF DeliveryInv, Dispatched, IsAtomic
  <2>3. Finished(f)'
    BY <2>1 DEF DeliveryInv, Finished, IsAtomic
  <2> QED
    BY <2>2, <2>3
<1>4. Checked(f)'
  <2> SUFFICES ASSUME pc[f] = "write"
      PROVE  InstanceOf[f] \in CheckThenWrite /\ Len(saga'[InstanceOf[f]]) = local[f].version
    BY DEF Checked
  <2>1. InstanceOf[f] \in CheckThenWrite /\ Len(saga[InstanceOf[f]]) = local[f].version
    BY DEF DeliveryInv, Checked
  <2>2. InstanceOf[d] # InstanceOf[f] /\ InstanceOf[f] \in Instances
    BY <2>1, ReactionType DEF NoRacingCheck
  <2> QED
    BY <2>1, <2>2 DEF Grows
<1> QED
  BY <1>1, <1>2, <1>3, <1>4 DEF DeliveryInv

-----------------------------------------------------------------------------
(* The invariant, action by action.                                        *)

\* The parts of the invariant about what is stored.
StoreInv ==
  SagaByCommit /\ CommittedIsKept /\ AggsByCommit /\ AtomicExecuted /\ PrefixExecuted

\* Steps that store nothing.
LEMMA QuietStep ==
  ASSUME StoreInv, UNCHANGED <<saga, aggs, commits>>
  PROVE  /\ StoreInv'
         /\ \A f \in Deliveries : \A t, k : Wrote(f, t, k)' <=> Wrote(f, t, k)
<1>1. /\ \A f \in Deliveries : \A t, k : Wrote(f, t, k)' <=> Wrote(f, t, k)
      /\ \A f \in Deliveries : \A t : Absorbed(f, t)' <=> Absorbed(f, t)
  BY DEF Wrote, Absorbed
<1>2. SagaByCommit' /\ AggsByCommit'
  BY DEF StoreInv, SagaByCommit, AggsByCommit
<1>3. CommittedIsKept'
  BY <1>1 DEF StoreInv, CommittedIsKept
<1>4. AtomicExecuted' /\ PrefixExecuted'
  BY <1>1 DEF StoreInv, AtomicExecuted, PrefixExecuted, IsAtomic
<1> QED
  BY <1>1, <1>2, <1>3, <1>4 DEF StoreInv

\* Steps that store nothing and leave d at a stage that claims nothing.
LEMMA RestingInv ==
  ASSUME NEW d \in Deliveries, pc'[d] \in {"idle", "ignored", "lost"}
  PROVE  DeliveryInv(d)'
BY DEF DeliveryInv, Fresh, NextInRange, Enlisted, AllEnlisted, Dispatched, Finished, Checked

\* load(): a fresh attempt.
LEMMA LoadInv ==
  ASSUME SagaTypeOK, NEW d \in Deliveries, LoadSaga(d)
  PROVE  DeliveryInv(d)'
<1>1. pc'[d] \in {"ignored", "handle"}
  BY DEF LoadSaga, Goto, SagaTypeOK
<1>2. CASE pc'[d] = "ignored"
  BY <1>2, RestingInv
<1>3. CASE pc'[d] = "handle"
  <2>1. local'[d] = [NoLocal EXCEPT !.version = Len(saga[InstanceOf[d]])]
    BY DEF LoadSaga, SagaTypeOK
  <2>2. local'[d].next = 1 /\ \A a \in Aggregates : local'[d].writes[a] = << >>
    BY <2>1 DEF NoLocal
  <2> QED
    BY <1>3, <2>2 DEF DeliveryInv, Fresh, NextInRange, Enlisted, AllEnlisted, Dispatched,
                      Finished, Checked
<1> QED
  BY <1>1, <1>2, <1>3

\* The handler: an atomic reaction without commands is ready to commit, one with
\* commands starts with the first.
LEMMA HandleInv ==
  ASSUME SagaTypeOK, NEW d \in Deliveries, DeliveryInv(d), Handle(d)
  PROVE  DeliveryInv(d)'
<1>1. /\ pc'[d] = IF IsAtomic(d) /\ 0 < Len(Commands[d]) THEN "dispatch" ELSE "commit"
      /\ UNCHANGED <<saga, aggs, commits, local>>
  BY DEF Handle, Goto, AfterCommands, SagaTypeOK
<1>2. local[d].next = 1 /\ \A a \in Aggregates : local[d].writes[a] = << >>
  BY DEF Handle, DeliveryInv, Fresh
<1>3. Len(Commands[d]) \in Nat
  BY ReactionType
<1>4. Fresh(d)' /\ Dispatched(d)' /\ Finished(d)' /\ Checked(d)'
  BY <1>1, <1>2 DEF Fresh, Dispatched, Finished, Checked, IsAtomic
<1>5. NextInRange(d)' /\ AllEnlisted(d)'
  BY <1>1, <1>2, <1>3 DEF NextInRange, AllEnlisted, IsAtomic
<1>6. Enlisted(d)'
  <2>1. \A a \in Aggregates : Elements(local'[d].writes[a]) = {}
    BY <1>1, <1>2, ElementsEmpty
  <2>2. \A k \in 1..Len(Commands[d]) : ~(k < local'[d].next)
    BY <1>1, <1>2, <1>3
  <2> QED
    BY <2>1, <2>2 DEF Enlisted
<1> QED
  BY <1>4, <1>5, <1>6 DEF DeliveryInv

\* An enlisted command is remembered with the version it saw.
LEMMA EnlistInv ==
  ASSUME SagaTypeOK, NEW d \in Deliveries, DeliveryInv(d), EnlistCommand(d)
  PROVE  DeliveryInv(d)'
<1> DEFINE a == NextTarget(d)
           x == Produced(d, commits[d] + 1, Len(aggs[a]))
           n == local[d].next
<1>1. pc[d] = "dispatch" /\ IsAtomic(d) /\ UNCHANGED <<saga, aggs, commits>>
  BY DEF EnlistCommand
<1>2. n \in 1..Len(Commands[d]) /\ Len(Commands[d]) \in Nat
  BY <1>1, ReactionType DEF DeliveryInv, NextInRange
<1>3. /\ a \in Aggregates /\ x \in Entry
      /\ local'[d].next = n + 1
      /\ local'[d].writes = [local[d].writes EXCEPT ![a] = Append(@, x)]
  BY <1>1, DispatchLocals DEF DeliveryInv
<1>4. a = Commands[d][n]
  BY DEF NextTarget
<1>5. x.by = d /\ x.try = commits[d] + 1 /\ x.pos = n /\ x.saw = Len(aggs[a])
  BY DEF Produced
<1>6. pc'[d] = IF n < Len(Commands[d]) THEN "dispatch" ELSE "commit"
  BY DEF EnlistCommand, Goto, AfterCommands, SagaTypeOK
<1>7. local[d].writes \in [Aggregates -> Seq(Entry)] /\ aggs[a] \in Seq(Entry)
  BY <1>3, LocalFields DEF SagaTypeOK
<1>8. Len(aggs[a]) \in Nat
  BY <1>7, LenProperties
<1> HIDE DEF a, x, n
<1>9. /\ Elements(local'[d].writes[a]) = Elements(local[d].writes[a]) \cup {x}
      /\ \A b \in Aggregates : b # a => local'[d].writes[b] = local[d].writes[b]
  <2>1. Elements(Append(local[d].writes[a], x)) = Elements(local[d].writes[a]) \cup {x}
    BY <1>3, <1>7, ElementsAppend
  <2> QED
    BY <1>3, <1>7, <2>1
<1>10. /\ \A b \in Aggregates : \A e \in Elements(local[d].writes[b]) :
            e.by = d /\ e.try = commits[d] + 1 /\ e.saw <= Len(aggs[b])
       /\ \A k \in 1..Len(Commands[d]) : k < n =>
            \E e \in Elements(local[d].writes[Commands[d][k]]) : e.pos = k
  BY <1>1 DEF DeliveryInv, Enlisted, n
<1>11. ASSUME NEW b \in Aggregates, NEW e \in Elements(local'[d].writes[b])
       PROVE  e.by = d /\ e.try = commits[d] + 1 /\ e.saw <= Len(aggs[b])
  <2>1. CASE e \in Elements(local[d].writes[b])
    BY <1>10, <2>1
  <2>2. CASE e \notin Elements(local[d].writes[b])
    <3>1. b = a /\ e = x
      BY <1>9, <2>2
    <3> QED
      BY <1>5, <1>8, <3>1
  <2> QED
    BY <2>1, <2>2
<1>12. ASSUME NEW k \in 1..Len(Commands[d]), k < n + 1
       PROVE  \E e \in Elements(local'[d].writes[Commands[d][k]]) : e.pos = k
  <2>0. Commands[d][k] \in Aggregates
    BY ReactionType
  <2>1. CASE k = n
    BY <1>4, <1>5, <1>9, <2>1
  <2>2. CASE k # n
    <3>1. k < n
      BY <1>2, <1>12, <2>2
    <3>2. PICK e \in Elements(local[d].writes[Commands[d][k]]) : e.pos = k
      BY <1>10, <3>1
    <3> QED
      BY <1>9, <2>0, <3>2
  <2> QED
    BY <2>1, <2>2
<1>13. Enlisted(d)'
  BY <1>1, <1>3, <1>11, <1>12 DEF Enlisted
<1>14. NextInRange(d)' /\ AllEnlisted(d)'
  BY <1>2, <1>3, <1>6 DEF NextInRange, AllEnlisted
<1>15. Fresh(d)' /\ Dispatched(d)' /\ Finished(d)' /\ Checked(d)'
  BY <1>1, <1>6 DEF Fresh, Dispatched, Finished, Checked, IsAtomic
<1> QED
  BY <1>13, <1>14, <1>15 DEF DeliveryInv

\* The check of the version: the saga's state is the one that was loaded.
LEMMA CheckInv ==
  ASSUME SagaTypeOK, NEW d \in Deliveries, DeliveryInv(d), CheckVersion(d)
  PROVE  DeliveryInv(d)'
<1>1. /\ pc[d] = "commit" /\ pc'[d] = "write" /\ InstanceOf[d] \in CheckThenWrite
      /\ UNCHANGED <<saga, aggs, commits, local>>
  BY DEF CheckVersion, Goto, SagaTypeOK
<1>2. Len(saga[InstanceOf[d]]) = local[d].version
  BY <1>1 DEF CheckVersion, SagaConflicts
<1>3. Fresh(d)' /\ NextInRange(d)' /\ AllEnlisted(d)' /\ Dispatched(d)' /\ Finished(d)'
  BY <1>1 DEF DeliveryInv, Fresh, NextInRange, AllEnlisted, Dispatched, Finished, IsAtomic
<1>4. Enlisted(d)'
  BY <1>1 DEF DeliveryInv, Enlisted, IsAtomic
<1>5. Checked(d)'
  BY <1>1, <1>2 DEF Checked
<1> QED
  BY <1>3, <1>4, <1>5 DEF DeliveryInv

\* Publishing touches neither the stores nor what is known of them.
LEMMA PublishInv ==
  ASSUME SagaTypeOK, NEW d \in Deliveries, DeliveryInv(d), StoreInv, Publish(d)
  PROVE  DeliveryInv(d)'
<1>1. /\ pc[d] = "publish" /\ pc'[d] \in {"publish", "done"}
      /\ UNCHANGED <<saga, aggs, commits, local>>
  BY DEF Publish, Goto, SagaTypeOK
<1>2. \A t, k : Wrote(d, t, k)' <=> Wrote(d, t, k)
  BY <1>1, QuietStep
<1>3. Finished(d)'
  BY <1>1, <1>2 DEF DeliveryInv, Finished, IsAtomic
<1> QED
  BY <1>1, <1>3 DEF DeliveryInv, Fresh, NextInRange, Enlisted, AllEnlisted, Dispatched, Checked

\* What the commit of an attempt of d makes true.
LEMMA CommitInv ==
  ASSUME NoRacingCheck, SagaTypeOK, NEW d \in Deliveries, DeliveryInv(d), StoreInv,
         Grows(d), Commit(d)
  PROVE  StoreInv' /\ DeliveryInv(d)'
<1> DEFINE t0 == commits[d] + 1
<1>1. /\ Transition(d) \in Entry
      /\ saga' = [saga EXCEPT ![InstanceOf[d]] = Append(saga[InstanceOf[d]], Transition(d))]
      /\ commits' = [commits EXCEPT ![d] = t0]
      /\ commits[d] \in Nat
      /\ aggs' \in [Aggregates -> Seq(Entry)]
      /\ \A a \in Aggregates :
            Elements(aggs'[a]) = Elements(aggs[a]) \cup Elements(local[d].writes[a])
  BY CommitEffect
<1>2. Transition(d).by = d /\ Transition(d).try = t0
  BY DEF Transition
<1>3. pc[d] \in {"commit", "write"} /\ local' = local
  BY DEF Commit
<1>4. /\ commits \in [Deliveries -> Nat] /\ commits'[d] = t0
      /\ \A f \in Deliveries : f # d => commits'[f] = commits[f]
  BY <1>1 DEF SagaTypeOK
<1>5. t0 \in Nat /\ t0 > commits[d] /\ t0 \in 1..t0 /\ \A t \in 1..t0 : t \in 1..commits[d] \/ t = t0
  BY <1>1
<1>6. \A f \in Deliveries : 1..commits[f] \subseteq 1..commits'[f]
  BY <1>4, <1>5
<1> HIDE DEF t0
<1>7. /\ \A a \in Aggregates : aggs[a] \in Seq(Entry) /\ local[d].writes[a] \in Seq(Entry)
      /\ \A s \in Instances : saga[s] \in Seq(Entry)
      /\ InstanceOf[d] \in Instances
  BY LocalFields, ReactionType DEF SagaTypeOK
<1>8. /\ \A a \in Aggregates : Elements(aggs[a]) \subseteq Entry
      /\ \A s \in Instances : Elements(saga[s]) \subseteq Entry
  BY <1>7, ElementsType
<1>9. /\ Elements(saga'[InstanceOf[d]]) = Elements(saga[InstanceOf[d]]) \cup {Transition(d)}
      /\ \A s \in Instances : s # InstanceOf[d] => saga'[s] = saga[s]
  <2>1. Elements(Append(saga[InstanceOf[d]], Transition(d)))
          = Elements(saga[InstanceOf[d]]) \cup {Transition(d)}
    BY <1>1, <1>7, ElementsAppend
  <2> QED
    BY <1>1, <1>7, <2>1 DEF SagaTypeOK
\* The saga's own state.
<1>10. SagaByCommit'
  <2> SUFFICES ASSUME NEW s \in Instances, NEW e \in Elements(saga'[s])
      PROVE  e.try \in 1..commits'[e.by]
    BY DEF SagaByCommit
  <2>1. CASE e \in Elements(saga[s])
    <3>1. e.by \in Deliveries
      BY <1>8, <2>1 DEF Entry
    <3>2. e.try \in 1..commits[e.by]
      BY <2>1 DEF StoreInv, SagaByCommit
    <3> QED
      BY <1>6, <3>1, <3>2
  <2>2. CASE e \notin Elements(saga[s])
    <3>1. e = Transition(d)
      BY <1>9, <2>2
    <3> QED
      BY <1>2, <1>4, <1>5, <3>1
  <2> QED
    BY <2>1, <2>2
<1>11. CommittedIsKept'
  <2> SUFFICES ASSUME NEW f \in Deliveries, NEW t \in 1..commits'[f]
      PROVE  Absorbed(f, t)'
    BY DEF CommittedIsKept
  <2>0. InstanceOf[f] \in Instances
    BY ReactionType
  <2>1. CASE t \in 1..commits[f]
    <3>1. PICK e \in Elements(saga[InstanceOf[f]]) : e.by = f /\ e.try = t
      BY <2>1 DEF StoreInv, CommittedIsKept, Absorbed
    <3>2. e \in Elements(saga'[InstanceOf[f]])
      BY <2>0 DEF Grows
    <3> QED
      BY <3>1, <3>2 DEF Absorbed
  <2>2. CASE t \notin 1..commits[f]
    <3>1. f = d /\ t = t0
      BY <1>4, <1>5, <2>2
    <3>2. Transition(d) \in Elements(saga'[InstanceOf[d]])
      BY <1>9
    <3> QED
      BY <1>2, <3>1, <3>2 DEF Absorbed
  <2> QED
    BY <2>1, <2>2
\* The aggregates.
<1>12. ASSUME NEW a \in Aggregates, NEW e \in Elements(local[d].writes[a])
       PROVE  IsAtomic(d) /\ e.by = d /\ e.try = t0
  <2>1. CASE IsAtomic(d)
    BY <1>3, <2>1 DEF DeliveryInv, Enlisted, t0
  <2>2. CASE ~IsAtomic(d)
    <3>1. local[d].writes[a] = << >>
      BY <1>3, <2>2 DEF DeliveryInv, Fresh
    <3> QED
      BY <3>1, ElementsEmpty
  <2> QED
    BY <2>1, <2>2
<1>13. AggsByCommit'
  <2> SUFFICES ASSUME NEW a \in Aggregates, NEW e \in Elements(aggs'[a])
      PROVE  e.try \in 1..commits'[e.by]
    BY DEF AggsByCommit
  <2>1. CASE e \in Elements(aggs[a])
    <3>1. e.by \in Deliveries
      BY <1>8, <2>1 DEF Entry
    <3>2. e.try \in 1..commits[e.by]
      BY <2>1 DEF StoreInv, AggsByCommit
    <3> QED
      BY <1>6, <3>1, <3>2
  <2>2. CASE e \notin Elements(aggs[a])
    <3>1. e.by = d /\ e.try = t0
      BY <1>1, <1>12, <2>2
    <3> QED
      BY <1>4, <1>5, <3>1
  <2> QED
    BY <2>1, <2>2
<1>14. \A k \in 1..Len(Commands[d]) : ~Wrote(d, t0, k)
  <2> SUFFICES ASSUME NEW k \in 1..Len(Commands[d]),
                      NEW e \in Elements(aggs[Commands[d][k]]), e.by = d, e.try = t0
      PROVE  FALSE
    BY DEF Wrote
  <2>1. e.try \in 1..commits[d]
    BY ReactionType DEF StoreInv, AggsByCommit
  <2> QED
    BY <1>4, <1>5, <2>1
<1>15. IsAtomic(d) => \A t : t = t0 => \A k \in 1..Len(Commands[d]) : Wrote(d, t, k)'
  <2> SUFFICES ASSUME IsAtomic(d), NEW t, t = t0, NEW k \in 1..Len(Commands[d])
      PROVE  Wrote(d, t, k)'
    OBVIOUS
  <2>1. k < local[d].next
    <3>1. Len(Commands[d]) < local[d].next /\ Len(Commands[d]) \in Nat /\ local[d].next \in Nat
      BY <1>3, ReactionType, LocalFields DEF DeliveryInv, AllEnlisted, SagaTypeOK
    <3> QED
      BY <3>1
  <2>2. PICK e \in Elements(local[d].writes[Commands[d][k]]) : e.pos = k
    BY <1>3, <2>1 DEF DeliveryInv, Enlisted
  <2>3. Commands[d][k] \in Aggregates
    BY ReactionType
  <2>4. e \in Elements(aggs'[Commands[d][k]]) /\ e.by = d /\ e.try = t0
    BY <1>1, <1>12, <2>3
  <2> QED
    BY <2>2, <2>4 DEF Wrote
<1>16. \A t : ~IsAtomic(d) => \A k \in 1..Len(Commands[d]) : Wrote(d, t, k)' <=> Wrote(d, t, k)
  <2>1. ~IsAtomic(d) => \A a \in Aggregates : Elements(aggs'[a]) = Elements(aggs[a])
    BY <1>1, <1>12
  <2> QED
    BY <2>1, ReactionType DEF Wrote
<1>17. \A f \in Deliveries : \A t : \A k \in 1..Len(Commands[f]) :
         /\ Wrote(f, t, k) => Wrote(f, t, k)'
         /\ f # d => (Wrote(f, t, k)' <=> Wrote(f, t, k))
  BY WroteStays
<1>18. AtomicExecuted'
  <2> SUFFICES ASSUME NEW f \in Deliveries, IsAtomic(f), NEW t \in 1..commits'[f],
                      NEW k \in 1..Len(Commands[f])
      PROVE  Wrote(f, t, k)'
    BY DEF AtomicExecuted, IsAtomic
  <2>1. CASE t \in 1..commits[f]
    BY <1>17, <2>1 DEF StoreInv, AtomicExecuted
  <2>2. CASE t \notin 1..commits[f]
    <3>1. f = d /\ t = t0
      BY <1>4, <1>5, <2>2
    <3> QED
      BY <1>15, <3>1
  <2> QED
    BY <2>1, <2>2
<1>19. PrefixExecuted'
  <2> SUFFICES ASSUME NEW f \in Deliveries, ~IsAtomic(f), NEW t \in 1..commits'[f]
      PROVE  \E n \in 0..Len(Commands[f]) :
               \A k \in 1..Len(Commands[f]) : Wrote(f, t, k)' <=> k <= n
    BY DEF PrefixExecuted, IsAtomic
  <2>1. CASE t \in 1..commits[f]
    <3>1. PICK n \in 0..Len(Commands[f]) : \A k \in 1..Len(Commands[f]) : Wrote(f, t, k) <=> k <= n
      BY <2>1 DEF StoreInv, PrefixExecuted
    <3>2. \A k \in 1..Len(Commands[f]) : Wrote(f, t, k)' <=> Wrote(f, t, k)
      BY <1>16, <1>17
    <3> QED
      BY <3>1, <3>2
  <2>2. CASE t \notin 1..commits[f]
    <3>1. f = d /\ t = t0
      BY <1>4, <1>5, <2>2
    <3>2. \A k \in 1..Len(Commands[f]) : ~Wrote(f, t, k)'
      BY <1>14, <1>16, <3>1
    <3>3. 0 \in 0..Len(Commands[f]) /\ \A k \in 1..Len(Commands[f]) : ~(k <= 0)
      BY ReactionType
    <3> QED
      BY <3>2, <3>3
  <2> QED
    BY <2>1, <2>2
\* The delivery itself.
<1>20. pc'[d] = IF IsAtomic(d) THEN "publish"
                ELSE IF 0 < Len(Commands[d]) THEN "dispatch" ELSE "done"
  BY DEF Commit, Goto, AfterCommands, SagaTypeOK
<1>21. Len(Commands[d]) \in Nat
  BY ReactionType
<1>22. ~IsAtomic(d) => local'[d].next = 1
  BY <1>3 DEF DeliveryInv, Fresh
<1>23. commits'[d] >= 1
  BY <1>1, <1>4 DEF t0
<1>24. NextInRange(d)'
  BY <1>20, <1>21, <1>22 DEF NextInRange
<1>25. Dispatched(d)'
  <2>1. ~IsAtomic(d) => \A k \in 1..Len(Commands[d]) : ~(k < local'[d].next)
    BY <1>21, <1>22
  <2>2. ~IsAtomic(d) => \A t : t = t0 => \A k \in 1..Len(Commands[d]) : ~Wrote(d, t, k)'
    BY <1>14, <1>16
  <2>3. ~IsAtomic(d) => \A k \in 1..Len(Commands[d]) : ~Wrote(d, commits[d], k)'
    BY <1>4, <2>2
  <2> QED
    BY <1>23, <2>1, <2>3 DEF Dispatched, IsAtomic
<1>26. Finished(d)'
  <2>1. CASE IsAtomic(d)
    <3>1. \A k \in 1..Len(Commands[d]) : Wrote(d, commits[d], k)'
      BY <1>4, <1>15, <2>1
    <3> QED
      BY <1>20, <1>23, <2>1, <3>1 DEF Finished, IsAtomic
  <2>2. CASE ~IsAtomic(d)
    <3>1. pc'[d] = "done" => \A k \in 1..Len(Commands[d]) : FALSE
      BY <1>20, <1>21, <2>2
    <3> QED
      BY <1>20, <1>23, <2>2, <3>1 DEF Finished
  <2> QED
    BY <2>1, <2>2
<1>27. Fresh(d)' /\ Enlisted(d)' /\ AllEnlisted(d)' /\ Checked(d)'
  BY <1>20 DEF Fresh, Enlisted, AllEnlisted, Checked, IsAtomic
<1> QED
  BY <1>10, <1>11, <1>13, <1>18, <1>19, <1>24, <1>25, <1>26, <1>27 DEF StoreInv, DeliveryInv

\* A best-effort command: the executed commands of the attempt grow by the next.
LEMMA DispatchInv ==
  ASSUME SagaTypeOK, NEW d \in Deliveries, DeliveryInv(d), StoreInv, Grows(d),
         DispatchCommand(d)
  PROVE  StoreInv' /\ DeliveryInv(d)'
<1> DEFINE a == NextTarget(d)
           x == Produced(d, commits[d], Len(aggs[a]))
           n == local[d].next
<1>1. /\ pc[d] = "dispatch" /\ ~IsAtomic(d) /\ saga' = saga /\ commits' = commits
      /\ commits[d] \in Nat
  BY DEF DispatchCommand, SagaTypeOK
<1>2. n \in 1..Len(Commands[d]) /\ Len(Commands[d]) \in Nat /\ a = Commands[d][n]
  BY <1>1, ReactionType DEF DeliveryInv, NextInRange, NextTarget
<1>3. /\ a \in Aggregates /\ x \in Entry
      /\ local'[d].next = n + 1
      /\ aggs' = [aggs EXCEPT ![a] = Append(aggs[a], x)]
  BY <1>1, DispatchLocals DEF DeliveryInv
<1>4. x.by = d /\ x.try = commits[d] /\ x.pos = n
  BY DEF Produced
<1>5. pc'[d] = IF n < Len(Commands[d]) THEN "dispatch" ELSE "done"
  BY DEF DispatchCommand, Goto, AfterCommands, SagaTypeOK
<1>6. commits[d] >= 1 /\ \A k \in 1..Len(Commands[d]) : Wrote(d, commits[d], k) <=> k < n
  BY <1>1 DEF DeliveryInv, Dispatched
<1> HIDE DEF a, x, n
<1>7. /\ Elements(aggs'[a]) = Elements(aggs[a]) \cup {x}
      /\ \A b \in Aggregates : b # a => aggs'[b] = aggs[b]
  <2>1. aggs[a] \in Seq(Entry)
    BY <1>3 DEF SagaTypeOK
  <2>2. Elements(Append(aggs[a], x)) = Elements(aggs[a]) \cup {x}
    BY <1>3, <2>1, ElementsAppend
  <2> QED
    BY <1>3, <2>2 DEF SagaTypeOK
<1>8. ASSUME NEW t, NEW k \in 1..Len(Commands[d])
      PROVE  Wrote(d, t, k)' <=> Wrote(d, t, k) \/ (t = commits[d] /\ k = n)
  <2>0. Commands[d][k] \in Aggregates
    BY ReactionType
  <2>1. ASSUME t = commits[d], k = n PROVE Wrote(d, t, k)'
    <3>1. x \in Elements(aggs'[Commands[d][k]])
      BY <1>2, <1>7, <2>1
    <3> QED
      BY <1>4, <2>1, <3>1 DEF Wrote
  <2>2. ASSUME NEW e \in Elements(aggs'[Commands[d][k]]), e.by = d, e.try = t, e.pos = k,
               ~(t = commits[d] /\ k = n)
        PROVE  Wrote(d, t, k)
    <3>1. e # x
      BY <1>4, <2>2
    <3>2. e \in Elements(aggs[Commands[d][k]])
      BY <1>7, <2>0, <3>1
    <3> QED
      BY <2>2, <3>2 DEF Wrote
  <2>3. Wrote(d, t, k) => Wrote(d, t, k)'
    BY WroteStays
  <2>4. ASSUME Wrote(d, t, k)' PROVE Wrote(d, t, k) \/ (t = commits[d] /\ k = n)
    <3>1. PICK e \in Elements(aggs'[Commands[d][k]]) : e.by = d /\ e.try = t /\ e.pos = k
      BY <2>4 DEF Wrote
    <3> QED
      BY <2>2, <3>1
  <2> QED
    BY <2>1, <2>3, <2>4
<1>9. \A f \in Deliveries : \A t : \A k \in 1..Len(Commands[f]) :
         /\ Wrote(f, t, k) => Wrote(f, t, k)'
         /\ f # d => (Wrote(f, t, k)' <=> Wrote(f, t, k))
  BY WroteStays
<1>10. \A t : t = commits[d] => \A k \in 1..Len(Commands[d]) : Wrote(d, t, k)' <=> k <= n
  BY <1>2, <1>6, <1>8
<1>11. SagaByCommit' /\ CommittedIsKept'
  BY <1>1 DEF StoreInv, SagaByCommit, CommittedIsKept, Absorbed
<1>12. AggsByCommit'
  <2> SUFFICES ASSUME NEW b \in Aggregates, NEW e \in Elements(aggs'[b])
      PROVE  e.try \in 1..commits[e.by]
    BY <1>1 DEF AggsByCommit
  <2>1. CASE e \in Elements(aggs[b])
    BY <2>1 DEF StoreInv, AggsByCommit
  <2>2. CASE e \notin Elements(aggs[b])
    <3>1. e = x
      BY <1>7, <2>2
    <3> QED
      BY <1>1, <1>4, <1>6, <3>1
  <2> QED
    BY <2>1, <2>2
<1>13. AtomicExecuted'
  BY <1>1, <1>9 DEF StoreInv, AtomicExecuted, IsAtomic
<1>14. PrefixExecuted'
  <2> SUFFICES ASSUME NEW f \in Deliveries, ~IsAtomic(f), NEW t \in 1..commits[f]
      PROVE  \E m \in 0..Len(Commands[f]) :
               \A k \in 1..Len(Commands[f]) : Wrote(f, t, k)' <=> k <= m
    BY <1>1 DEF PrefixExecuted, IsAtomic
  <2>1. CASE f = d /\ t = commits[d]
    <3>1. n \in 0..Len(Commands[f])
      BY <1>2, <2>1
    <3> QED
      BY <1>10, <2>1, <3>1
  <2>2. CASE ~(f = d /\ t = commits[d])
    <3>1. PICK m \in 0..Len(Commands[f]) : \A k \in 1..Len(Commands[f]) : Wrote(f, t, k) <=> k <= m
      BY DEF StoreInv, PrefixExecuted
    <3>2. \A k \in 1..Len(Commands[f]) : Wrote(f, t, k)' <=> Wrote(f, t, k)
      BY <1>8, <1>9, <2>2
    <3> QED
      BY <3>1, <3>2
  <2> QED
    BY <2>1, <2>2
<1>15. NextInRange(d)'
  BY <1>2, <1>3, <1>5 DEF NextInRange
<1>16. Dispatched(d)'
  <2>1. \A k \in 1..Len(Commands[d]) : k <= n <=> k < n + 1
    BY <1>2
  <2>2. \A k \in 1..Len(Commands[d]) : Wrote(d, commits[d], k)' <=> k <= n
    BY <1>1, <1>10
  <2> QED
    BY <1>1, <1>3, <1>6, <2>1, <2>2 DEF Dispatched
<1>17. Finished(d)'
  <2>1. pc'[d] = "done" => \A k \in 1..Len(Commands[d]) : k <= n
    BY <1>2, <1>5
  <2>2. \A k \in 1..Len(Commands[d]) : Wrote(d, commits[d], k)' <=> k <= n
    BY <1>1, <1>10
  <2> QED
    BY <1>1, <1>5, <1>6, <2>1, <2>2 DEF Finished
<1>18. Fresh(d)' /\ Enlisted(d)' /\ AllEnlisted(d)' /\ Checked(d)'
  BY <1>1, <1>5 DEF Fresh, Enlisted, AllEnlisted, Checked, IsAtomic
<1> QED
  BY <1>11, <1>12, <1>13, <1>14, <1>15, <1>16, <1>17, <1>18 DEF StoreInv, DeliveryInv

-----------------------------------------------------------------------------
(* The invariant holds.                                                    *)

\* Nothing is stored and nothing is under way at the start.
LEMMA SagaInitInv == SagaInit => SagaInv
<1> SUFFICES ASSUME SagaInit PROVE SagaInv
  OBVIOUS
<1>1. << >> \in Seq(Entry)
  BY EmptySeq
<1>2. SagaTypeOK
  BY <1>1, LocalFields, SagaAssumption DEF SagaInit, SagaTypeOK, Stages
<1>3. \A d \in Deliveries : 1..commits[d] = {}
  BY DEF SagaInit
<1>4. SagaByCommit /\ AggsByCommit
  BY ElementsEmpty DEF SagaInit, SagaByCommit, AggsByCommit
<1>5. CommittedIsKept /\ AtomicExecuted /\ PrefixExecuted
  BY <1>3 DEF CommittedIsKept, AtomicExecuted, PrefixExecuted
<1>6. \A d \in Deliveries : DeliveryInv(d)
  BY DEF SagaInit, DeliveryInv, Fresh, NextInRange, Enlisted, AllEnlisted, Dispatched,
         Finished, Checked
<1> QED
  BY <1>2, <1>4, <1>5, <1>6 DEF SagaInv

\* Each step of each delivery keeps the invariant.
LEMMA SagaStepInv ==
  ASSUME NoRacingCheck, SagaInv, NEW d \in Deliveries, ExecutorStep(d) \/ Fault(d)
  PROVE  SagaInv'
<1>1. SagaTypeOK /\ StoreInv /\ \A f \in Deliveries : DeliveryInv(f)
  BY DEF SagaInv, StoreInv
<1>2. Grows(d)
  BY <1>1, StepGrows
<1>3. \A f \in Deliveries : f # d =>
         pc'[f] = pc[f] /\ local'[f] = local[f] /\ commits'[f] = commits[f]
  BY <1>1, SagaStepType
<1>4. \A f \in Deliveries : f # d => DeliveryInv(f)'
  BY <1>1, <1>2, <1>3, OthersKept
<1>5. StoreInv' /\ DeliveryInv(d)'
  <2>1. CASE Commit(d)
    BY <1>1, <1>2, <2>1, CommitInv
  <2>2. CASE DispatchCommand(d)
    BY <1>1, <1>2, <2>2, DispatchInv
  <2>3. CASE ~Commit(d) /\ ~DispatchCommand(d)
    <3>1. UNCHANGED <<saga, aggs, commits>>
      BY <2>3 DEF ExecutorStep, LoadSaga, Handle, EnlistCommand, CheckVersion, CommitConflict,
                  Publish, Fault
    <3>2. StoreInv'
      BY <1>1, <3>1, QuietStep
    <3>3. CASE LoadSaga(d)
      BY <1>1, <3>2, <3>3, LoadInv
    <3>4. CASE Handle(d)
      BY <1>1, <3>2, <3>4, HandleInv
    <3>5. CASE EnlistCommand(d)
      BY <1>1, <3>2, <3>5, EnlistInv
    <3>6. CASE CheckVersion(d)
      BY <1>1, <3>2, <3>6, CheckInv
    <3>7. CASE Publish(d)
      BY <1>1, <3>2, <3>7, PublishInv
    <3>8. CASE CommitConflict(d) \/ Fault(d)
      <4>1. Rejects(d)
        BY <3>8 DEF CommitConflict, Fault
      <4>2. pc'[d] \in {"idle", "ignored", "lost"}
        BY <1>1, <4>1, RejectsEffect
      <4> QED
        BY <3>2, <4>2, RestingInv
    <3> QED
      BY <2>3, <3>2, <3>3, <3>4, <3>5, <3>6, <3>7, <3>8 DEF ExecutorStep
  <2> QED
    BY <2>1, <2>2, <2>3
<1>6. \A f \in Deliveries : DeliveryInv(f)'
  BY <1>4, <1>5
<1>7. SagaTypeOK'
  <2>1. /\ saga' \in [Instances -> Seq(Entry)]
        /\ aggs' \in [Aggregates -> Seq(Entry)]
        /\ bus' \in Buses
        /\ pc' \in [Deliveries -> Stages]
        /\ commits' \in [Deliveries -> Nat]
        /\ local' \in [Deliveries -> Local]
        /\ published' \subseteq Entry
        /\ faults' \in 0..MaxFaults
    BY <1>1, SagaStepType
  <2>2. \A f \in Deliveries : pc'[f] = "dispatch" => local'[f].next <= Len(Commands[f])
    <3> SUFFICES ASSUME NEW f \in Deliveries, pc'[f] = "dispatch"
        PROVE  local'[f].next <= Len(Commands[f])
      OBVIOUS
    <3>1. local'[f].next \in 1..Len(Commands[f]) /\ Len(Commands[f]) \in Nat
      BY <1>6, ReactionType DEF DeliveryInv, NextInRange
    <3> QED
      BY <3>1
  <2> QED
    BY <2>1, <2>2 DEF SagaTypeOK
<1> QED
  BY <1>5, <1>6, <1>7 DEF SagaInv, StoreInv

\* The invariant holds in every reachable state.
LEMMA SagaInvariant == NoRacingCheck => (SagaSpec => []SagaInv)
<1> SUFFICES ASSUME NoRacingCheck PROVE SagaSpec => []SagaInv
  OBVIOUS
<1>1. SagaInv /\ [SagaNext]_sagaVars => SagaInv'
  <2> SUFFICES ASSUME SagaInv, [SagaNext]_sagaVars PROVE SagaInv'
    OBVIOUS
  <2>1. CASE UNCHANGED sagaVars
    <3>1. /\ saga' = saga /\ aggs' = aggs /\ bus' = bus /\ pc' = pc /\ commits' = commits
          /\ local' = local /\ published' = published /\ faults' = faults
      BY <2>1 DEF sagaVars
    <3>2. SagaTypeOK'
      BY <3>1 DEF SagaInv, SagaTypeOK
    <3>3. StoreInv' /\ \A f \in Deliveries : \A t, k : Wrote(f, t, k)' <=> Wrote(f, t, k)
      BY <3>1, QuietStep DEF SagaInv, StoreInv
    <3>4. ASSUME NEW d \in Deliveries PROVE DeliveryInv(d)'
      <4>1. DeliveryInv(d)
        BY DEF SagaInv
      <4>2. Fresh(d)' /\ NextInRange(d)' /\ AllEnlisted(d)' /\ Checked(d)'
        BY <3>1, <4>1 DEF DeliveryInv, Fresh, NextInRange, AllEnlisted, Checked, IsAtomic
      <4>3. Enlisted(d)'
        BY <3>1, <4>1 DEF DeliveryInv, Enlisted, IsAtomic
      <4>4. Dispatched(d)' /\ Finished(d)'
        BY <3>1, <3>3, <4>1 DEF DeliveryInv, Dispatched, Finished, IsAtomic
      <4> QED
        BY <4>2, <4>3, <4>4 DEF DeliveryInv
    <3> QED
      BY <3>2, <3>3, <3>4 DEF SagaInv, StoreInv
  <2>2. CASE SagaNext
    BY <2>2, SagaStepInv DEF SagaNext
  <2> QED
    BY <2>1, <2>2
<1> QED
  BY <1>1, SagaInitInv, PTL DEF SagaSpec

-----------------------------------------------------------------------------
(* The properties.                                                         *)

\* Executed in terms of Wrote.
LEMMA ExecutedIs ==
  ASSUME NEW d, NEW t
  PROVE  Executed(d, t) = {k \in 1..Len(Commands[d]) : Wrote(d, t, k)}
BY DEF Executed, Wrote

\* An attempt that did not commit stored nothing.
LEMMA NotYetStored ==
  ASSUME SagaInv, NEW d \in Deliveries, NEW t \in Nat, t \notin 1..commits[d]
  PROVE  ~Absorbed(d, t) /\ \A k \in 1..Len(Commands[d]) : ~Wrote(d, t, k)
<1>1. \A e \in Elements(saga[InstanceOf[d]]) : e.try \in 1..commits[e.by]
  BY ReactionType DEF SagaInv, SagaByCommit
<1>2. \A k \in 1..Len(Commands[d]) : \A e \in Elements(aggs[Commands[d][k]]) :
        e.try \in 1..commits[e.by]
  BY ReactionType DEF SagaInv, AggsByCommit
<1> QED
  BY <1>1, <1>2 DEF Absorbed, Wrote

\* The stages, counters and stores have their types in every reachable state.
THEOREM SagaTypeCorrect == NoRacingCheck => (SagaSpec => []SagaTypeOK)
<1> SUFFICES ASSUME NoRacingCheck PROVE SagaSpec => []SagaTypeOK
  OBVIOUS
<1>1. SagaInv => SagaTypeOK
  BY DEF SagaInv
<1> QED
  BY <1>1, SagaInvariant, PTL

\* A transition whose save went through is never lost (saga-executor.ts, save with
\* an expected version), unless events race for an instance in a store that checks
\* the version first and writes without it.
THEOREM SagaCommittedIsKept == NoRacingCheck => (SagaSpec => []CommittedIsKept)
<1> SUFFICES ASSUME NoRacingCheck PROVE SagaSpec => []CommittedIsKept
  OBVIOUS
<1>1. SagaInv => CommittedIsKept
  BY DEF SagaInv
<1> QED
  BY <1>1, SagaInvariant, PTL

\* An atomic reaction takes effect as a whole or not at all: its unit of work
\* commits the saga's transition with every command or leaves none of them.
THEOREM SagaReactionAllOrNothing == NoRacingCheck => (SagaSpec => []ReactionAllOrNothing)
<1> SUFFICES ASSUME NoRacingCheck PROVE SagaSpec => []ReactionAllOrNothing
  OBVIOUS
<1>1. SagaInv => ReactionAllOrNothing
  <2> SUFFICES ASSUME SagaInv, NEW d \in Deliveries, IsAtomic(d), NEW t \in 1..commits[d] + 1
      PROVE  Executed(d, t) = IF Absorbed(d, t) THEN 1..Len(Commands[d]) ELSE {}
    BY DEF ReactionAllOrNothing
  <2>1. commits[d] \in Nat /\ t \in Nat
    BY DEF SagaInv, SagaTypeOK
  <2>2. CASE t \in 1..commits[d]
    <3>1. Absorbed(d, t) /\ \A k \in 1..Len(Commands[d]) : Wrote(d, t, k)
      BY <2>2 DEF SagaInv, CommittedIsKept, AtomicExecuted
    <3> QED
      BY <3>1, ExecutedIs
  <2>3. CASE t \notin 1..commits[d]
    <3>1. ~Absorbed(d, t) /\ \A k \in 1..Len(Commands[d]) : ~Wrote(d, t, k)
      BY <2>1, <2>3, NotYetStored
    <3> QED
      BY <3>1, ExecutedIs
  <2> QED
    BY <2>2, <2>3
<1> QED
  BY <1>1, SagaInvariant, PTL

\* A command of a best-effort reaction finds the transition committed, and the
\* executed commands are a prefix of the reaction.
THEOREM SagaStateBeforeCommands == NoRacingCheck => (SagaSpec => []StateBeforeCommands)
<1> SUFFICES ASSUME NoRacingCheck PROVE SagaSpec => []StateBeforeCommands
  OBVIOUS
<1>1. SagaInv => StateBeforeCommands
  <2> SUFFICES ASSUME SagaInv, NEW d \in Deliveries, ~IsAtomic(d), NEW t \in 0..commits[d]
      PROVE  /\ Executed(d, t) # {} => Absorbed(d, t)
             /\ Executed(d, t) = 1..Cardinality(Executed(d, t))
    BY DEF StateBeforeCommands
  <2>1. commits[d] \in Nat /\ t \in Nat /\ Len(Commands[d]) \in Nat
    BY ReactionType DEF SagaInv, SagaTypeOK
  <2>2. ASSUME NEW n \in 0..Len(Commands[d]), Executed(d, t) = 1..n
        PROVE  Executed(d, t) = 1..Cardinality(Executed(d, t))
    <3>1. n \in Nat
      BY <2>1
    <3>2. Cardinality(1..n) = n
      BY <3>1, FS_Interval
    <3> QED
      BY <2>2, <3>2
  <2>3. CASE t \in 1..commits[d]
    <3>1. PICK n \in 0..Len(Commands[d]) : \A k \in 1..Len(Commands[d]) : Wrote(d, t, k) <=> k <= n
      BY <2>3 DEF SagaInv, PrefixExecuted
    <3>2. {k \in 1..Len(Commands[d]) : Wrote(d, t, k)} = 1..n
      BY <2>1, <3>1
    <3>3. Executed(d, t) = 1..n
      BY <3>2, ExecutedIs
    <3>4. Absorbed(d, t)
      BY <2>3 DEF SagaInv, CommittedIsKept
    <3> QED
      BY <2>2, <3>3, <3>4
  <2>4. CASE t \notin 1..commits[d]
    <3>1. \A k \in 1..Len(Commands[d]) : ~Wrote(d, t, k)
      BY <2>1, <2>4, NotYetStored
    <3>2. Executed(d, t) = {}
      BY <3>1, ExecutedIs
    <3>3. 0 \in 0..Len(Commands[d]) /\ 1..0 = {}
      BY <2>1
    <3> QED
      BY <2>2, <3>2, <3>3
  <2> QED
    BY <2>3, <2>4
<1> QED
  BY <1>1, SagaInvariant, PTL

\* execute() resolves, so that the event is acknowledged, only after the reaction
\* took full effect.
THEOREM SagaDoneTookEffect == NoRacingCheck => (SagaSpec => []DoneTookEffect)
<1> SUFFICES ASSUME NoRacingCheck PROVE SagaSpec => []DoneTookEffect
  OBVIOUS
<1>1. SagaInv => DoneTookEffect
  <2> SUFFICES ASSUME SagaInv, NEW d \in Deliveries, pc[d] = "done"
      PROVE  Absorbed(d, commits[d]) /\ Executed(d, commits[d]) = 1..Len(Commands[d])
    BY DEF DoneTookEffect
  <2>1. commits[d] >= 1 /\ \A k \in 1..Len(Commands[d]) : Wrote(d, commits[d], k)
    BY DEF SagaInv, DeliveryInv, Finished
  <2>2. commits[d] \in 1..commits[d]
    BY <2>1 DEF SagaInv, SagaTypeOK
  <2>3. Absorbed(d, commits[d])
    BY <2>2 DEF SagaInv, CommittedIsKept
  <2> QED
    BY <2>1, <2>3, ExecutedIs
<1> QED
  BY <1>1, SagaInvariant, PTL

-----------------------------------------------------------------------------
(* Sagas implement the history of their instances and aggregates.          *)

\* new extends old by entries of d that saw exactly old.
ExtendsBy(old, new, d) ==
  /\ Len(old) <= Len(new) /\ SubSeq(new, 1, Len(old)) = old
  /\ \A i \in Len(old) + 1 .. Len(new) : new[i].by = d /\ new[i].saw = Len(old)

\* Concatenation with entries of d that saw the sequence so far.
LEMMA ConcatExtends ==
  ASSUME NEW old \in Seq(Entry), NEW w \in Seq(Entry), NEW d,
         \A i \in 1..Len(w) : w[i].by = d /\ w[i].saw = Len(old)
  PROVE  ExtendsBy(old, old \o w, d)
<1> DEFINE new == old \o w
<1>1. /\ new \in Seq(Entry) /\ Len(new) = Len(old) + Len(w)
      /\ Len(old) \in Nat /\ Len(w) \in Nat
      /\ \A i \in 1..Len(old) + Len(w) : new[i] = IF i <= Len(old) THEN old[i] ELSE w[i - Len(old)]
  BY ConcatProperties, LenProperties
<1>2. SubSeq(new, 1, Len(old)) = old
  BY SubSeqOfConcat1
<1> HIDE DEF new
<1>3. ASSUME NEW i \in Len(old) + 1 .. Len(new)
      PROVE  new[i].by = d /\ new[i].saw = Len(old)
  <2>1. i \in 1..Len(old) + Len(w) /\ ~(i <= Len(old)) /\ i - Len(old) \in 1..Len(w)
    BY <1>1
  <2>2. new[i] = w[i - Len(old)]
    BY <1>1, <2>1
  <2> QED
    BY <2>1, <2>2
<1>4. \A x, y \in Nat : x <= x + y
  OBVIOUS
<1>5. Len(old) <= Len(new)
  BY <1>1, <1>4, Zenon
<1>6. ExtendsBy(old, new, d)
  BY <1>2, <1>3, <1>5 DEF ExtendsBy
<1> QED
  BY <1>6 DEF new

\* A record that a step leaves alone.
LEMMA SameExtends ==
  ASSUME NEW old \in Seq(Entry), NEW d
  PROVE  ExtendsBy(old, old, d)
<1>1. << >> \in Seq(Entry) /\ Len(<< >>) = 0
  BY EmptySeq
<1>2. old \o << >> = old
  BY ConcatEmptySeq
<1>3. \A i \in 1..Len(<< >>) : FALSE
  BY <1>1
<1>4. ExtendsBy(old, old \o << >>, d)
  BY <1>1, <1>3, ConcatExtends
<1> QED
  BY <1>2, <1>4

\* A record that gains one entry.
LEMMA AppendExtends ==
  ASSUME NEW old \in Seq(Entry), NEW e \in Entry, e.saw = Len(old)
  PROVE  ExtendsBy(old, Append(old, e), e.by)
<1>1. << e >> \in Seq(Entry) /\ Len(<< e >>) = 1 /\ << e >>[1] = e
  OBVIOUS
<1>2. \A i \in 1..Len(<< e >>) : << e >>[i].by = e.by /\ << e >>[i].saw = Len(old)
  BY <1>1
<1>3. ExtendsBy(old, old \o << e >>, e.by)
  BY <1>1, <1>2, ConcatExtends
<1>4. Append(old, e) = old \o << e >>
  BY AppendIsConcat
<1> QED
  BY <1>3, <1>4

\* An enlisted write that does not conflict is the only one for its aggregate, and
\* saw all of it: a second one would expect a version that was never stored.
LEMMA EnlistedSawAll ==
  ASSUME SagaTypeOK, NEW d \in Deliveries, DeliveryInv(d), Commit(d), NEW a \in Aggregates
  PROVE  \A i \in 1..Len(local[d].writes[a]) :
           local[d].writes[a][i].by = d /\ local[d].writes[a][i].saw = Len(aggs[a])
<1> DEFINE w == local[d].writes[a]
<1>1. w \in Seq(Entry) /\ Len(w) \in Nat /\ aggs[a] \in Seq(Entry)
  BY LocalFields, LenProperties DEF SagaTypeOK
<1>2. Len(aggs[a]) \in Nat
  BY <1>1, LenProperties
<1>3. pc[d] \in {"commit", "write"}
  BY DEF Commit
<1> SUFFICES ASSUME NEW i \in 1..Len(w)
             PROVE  w[i].by = d /\ w[i].saw = Len(aggs[a])
  OBVIOUS
<1>4. w[i] \in Elements(w) /\ w[i] \in Entry
  BY <1>1, ElementOfSeq DEF Elements
<1>5. CASE IsAtomic(d)
  <2>1. w[i].by = d /\ w[i].saw <= Len(aggs[a])
    BY <1>3, <1>4, <1>5 DEF DeliveryInv, Enlisted
  <2>2. w[i].saw = Len(aggs[a]) + i - 1
    BY DEF Commit, Conflicts, WriteConflicts
  <2>3. w[i].saw \in Nat
    BY <1>4 DEF Entry
  <2> HIDE DEF w
  <2>4. w[i].saw = Len(aggs[a])
    <3> DEFINE u == w[i].saw
               v == Len(aggs[a])
    <3>1. u \in Nat /\ v \in Nat /\ i \in Nat /\ i >= 1 /\ u <= v /\ u = v + i - 1
      BY <1>1, <1>2, <2>1, <2>2, <2>3
    <3> HIDE DEF u, v
    <3>2. u = v
      BY <3>1
    <3> QED
      BY <3>2 DEF u, v
  <2> QED
    BY <2>1, <2>4
<1>6. CASE ~IsAtomic(d)
  <2>1. w = << >>
    BY <1>3, <1>6 DEF DeliveryInv, Fresh
  <2>2. Len(<< >>) = 0
    BY EmptySeq
  <2> QED
    BY <2>1, <2>2
<1> QED
  BY <1>5, <1>6

\* One step extends every instance and every aggregate by what d decided on it.
LEMMA StepExtends ==
  ASSUME NoRacingCheck, SagaInv, NEW d \in Deliveries, ExecutorStep(d) \/ Fault(d)
  PROVE  /\ \A s \in Instances : ExtendsBy(saga[s], saga'[s], d)
         /\ \A a \in Aggregates : ExtendsBy(aggs[a], aggs'[a], d)
<1>1. SagaTypeOK /\ DeliveryInv(d)
  BY DEF SagaInv
<1>2. /\ \A s \in Instances : saga[s] \in Seq(Entry)
      /\ \A a \in Aggregates : aggs[a] \in Seq(Entry)
  BY <1>1 DEF SagaTypeOK
<1>3. CASE Commit(d)
  <2>1. /\ Transition(d) \in Entry
        /\ saga' = [saga EXCEPT ![InstanceOf[d]] = Append(saga[InstanceOf[d]], Transition(d))]
        /\ \A a \in Aggregates : aggs'[a] = aggs[a] \o local[d].writes[a]
    BY <1>1, <1>3, CommitEffect
  <2>2. Transition(d).by = d /\ Transition(d).saw = Len(saga[InstanceOf[d]])
    BY DEF Transition
  <2>3. InstanceOf[d] \in Instances
    BY ReactionType
  <2>4. ExtendsBy(saga[InstanceOf[d]], Append(saga[InstanceOf[d]], Transition(d)), Transition(d).by)
    BY <1>2, <2>1, <2>2, <2>3, AppendExtends
  <2>5. ASSUME NEW s \in Instances PROVE ExtendsBy(saga[s], saga'[s], d)
    <3>1. CASE s = InstanceOf[d]
      <4>1. saga'[s] = Append(saga[InstanceOf[d]], Transition(d))
        BY <1>1, <2>1, <3>1 DEF SagaTypeOK
      <4> QED
        BY <2>2, <2>4, <3>1, <4>1
    <3>2. CASE s # InstanceOf[d]
      <4>1. saga'[s] = saga[s]
        BY <1>1, <2>1, <3>2 DEF SagaTypeOK
      <4>2. ExtendsBy(saga[s], saga[s], d)
        BY <1>2, SameExtends
      <4> QED
        BY <4>1, <4>2
    <3> QED
      BY <3>1, <3>2
  <2>6. ASSUME NEW a \in Aggregates PROVE ExtendsBy(aggs[a], aggs'[a], d)
    <3>1. local[d].writes[a] \in Seq(Entry)
      BY <1>1, LocalFields DEF SagaTypeOK
    <3>2. \A i \in 1..Len(local[d].writes[a]) :
            local[d].writes[a][i].by = d /\ local[d].writes[a][i].saw = Len(aggs[a])
      BY <1>1, <1>3, EnlistedSawAll
    <3>3. ExtendsBy(aggs[a], aggs[a] \o local[d].writes[a], d)
      BY <1>2, <3>1, <3>2, ConcatExtends
    <3> QED
      BY <2>1, <3>3
  <2> QED
    BY <2>5, <2>6
<1>4. CASE DispatchCommand(d)
  <2> DEFINE b == NextTarget(d)
             x == Produced(d, commits[d], Len(aggs[b]))
  <2>1. /\ b \in Aggregates /\ x \in Entry
        /\ aggs' = [aggs EXCEPT ![b] = Append(aggs[b], x)]
        /\ saga' = saga
    BY <1>1, <1>4, DispatchLocals DEF DispatchCommand, DeliveryInv
  <2>2. x.by = d /\ x.saw = Len(aggs[b])
    BY DEF Produced
  <2> HIDE DEF b, x
  <2>3. ExtendsBy(aggs[b], Append(aggs[b], x), x.by)
    BY <1>2, <2>1, <2>2, AppendExtends
  <2>4. ASSUME NEW a \in Aggregates PROVE ExtendsBy(aggs[a], aggs'[a], d)
    <3>1. CASE a = b
      <4>1. aggs'[a] = Append(aggs[b], x)
        BY <1>1, <2>1, <3>1 DEF SagaTypeOK
      <4> QED
        BY <2>2, <2>3, <3>1, <4>1
    <3>2. CASE a # b
      <4>1. aggs'[a] = aggs[a]
        BY <1>1, <2>1, <3>2 DEF SagaTypeOK
      <4>2. ExtendsBy(aggs[a], aggs[a], d)
        BY <1>2, SameExtends
      <4> QED
        BY <4>1, <4>2
    <3> QED
      BY <3>1, <3>2
  <2>5. \A s \in Instances : ExtendsBy(saga[s], saga[s], d)
    BY <1>2, SameExtends
  <2> QED
    BY <2>1, <2>4, <2>5
<1>5. CASE ~Commit(d) /\ ~DispatchCommand(d)
  <2>1. saga' = saga /\ aggs' = aggs
    BY <1>5 DEF ExecutorStep, LoadSaga, Handle, EnlistCommand, CheckVersion, CommitConflict,
                Publish, Fault
  <2>2. /\ \A s \in Instances : ExtendsBy(saga[s], saga[s], d)
        /\ \A a \in Aggregates : ExtendsBy(aggs[a], aggs[a], d)
    BY <1>2, SameExtends
  <2> QED
    BY <2>1, <2>2
<1> QED
  BY <1>3, <1>4, <1>5

\* Saga instances and aggregates alike are histories that only grow, each time by
\* what one delivery decided on all of the history before it, although the unit of
\* work of an atomic saga writes several of them.
THEOREM SagaImplementsHistory == NoRacingCheck => (SagaSpec => SagaHistoryRefined)
<1> SUFFICES ASSUME NoRacingCheck PROVE SagaSpec => SagaHistoryRefined
  OBVIOUS
<1> DEFINE R == Instances \cup Aggregates
           H == [r \in R |-> IF r \in Instances THEN saga[r] ELSE aggs[r]]
<1>1. SagaInit => History!HistoryInit
  BY DEF SagaInit, History!HistoryInit
<1>2. SagaInv /\ [SagaNext]_sagaVars => [History!HistoryNext]_H
  <2> SUFFICES ASSUME SagaInv, [SagaNext]_sagaVars PROVE [History!HistoryNext]_H
    OBVIOUS
  <2>1. CASE UNCHANGED sagaVars
    BY <2>1 DEF sagaVars
  <2>2. ASSUME NEW d \in Deliveries, ExecutorStep(d) \/ Fault(d)
        PROVE  History!HistoryNext
    <3>1. /\ \A s \in Instances : ExtendsBy(saga[s], saga'[s], d)
          /\ \A a \in Aggregates : ExtendsBy(aggs[a], aggs'[a], d)
      BY <2>2, StepExtends
    <3>2. ASSUME NEW r \in R PROVE ExtendsBy(H[r], H'[r], d)
      <4>1. CASE r \in Instances
        <5>1. H[r] = saga[r] /\ H'[r] = saga'[r]
          BY <4>1
        <5> QED
          BY <3>1, <4>1, <5>1
      <4>2. CASE r \notin Instances
        <5>1. r \in Aggregates /\ H[r] = aggs[r] /\ H'[r] = aggs'[r]
          BY <4>2
        <5> QED
          BY <3>1, <5>1
      <4> QED
        BY <4>1, <4>2
    <3>3. \A r \in R : History!Extends(r, d)
      BY <3>2 DEF ExtendsBy, History!Extends
    <3>4. DOMAIN H' = R
      OBVIOUS
    <3> QED
      BY <3>3, <3>4 DEF History!HistoryNext
  <2> QED
    BY <2>1, <2>2 DEF SagaNext
<1> QED
  BY <1>1, <1>2, SagaInvariant, PTL DEF SagaSpec, SagaHistoryRefined, History!HistorySpec

-----------------------------------------------------------------------------
(* Reactions that conflict with themselves.                                *)

\* No attempt of a reaction that commands an aggregate twice has committed.
NeverCommitted == \A d \in Deliveries : SelfConflicting(d) => commits[d] = 0

\* The enlisted writes of a commit hold at most one event per aggregate.
LEMMA CommitIsNotSelfConflicting ==
  ASSUME SagaTypeOK, NEW d \in Deliveries, DeliveryInv(d), Commit(d)
  PROVE  ~SelfConflicting(d)
<1> SUFFICES ASSUME IsAtomic(d), NEW i \in 1..Len(Commands[d]), NEW j \in 1..Len(Commands[d]),
                    i # j, Commands[d][i] = Commands[d][j]
             PROVE  FALSE
  BY DEF SelfConflicting
<1> DEFINE a == Commands[d][i]
           w == local[d].writes[a]
<1>1. a \in Aggregates
  BY ReactionType
<1>2. pc[d] \in {"commit", "write"}
  BY DEF Commit
<1>3. i < local[d].next /\ j < local[d].next
  <2>1. Len(Commands[d]) < local[d].next /\ Len(Commands[d]) \in Nat /\ local[d].next \in Nat
    BY <1>2, ReactionType, LocalFields DEF DeliveryInv, AllEnlisted, SagaTypeOK
  <2> QED
    BY <2>1
<1>4. /\ \E e \in Elements(w) : e.pos = i
      /\ \E e \in Elements(w) : e.pos = j
  BY <1>2, <1>3 DEF DeliveryInv, Enlisted
<1>5. Len(aggs[a]) \in Nat /\ Len(w) \in Nat
  BY <1>1, LocalFields, LenProperties DEF SagaTypeOK
<1>6. \A k \in 1..Len(w) : w[k].saw = Len(aggs[a]) /\ w[k].saw = Len(aggs[a]) + k - 1
  BY <1>1, EnlistedSawAll DEF Commit, Conflicts, WriteConflicts
<1> HIDE DEF w
<1>7. \A k \in 1..Len(w) : k = 1
  BY <1>5, <1>6
<1>8. \A e \in Elements(w) : e = w[1]
  BY <1>7 DEF Elements
<1> QED
  BY <1>4, <1>8

\* Two commands of one atomic reaction for the same aggregate load the same version,
\* so such a reaction never commits, however often its event is redelivered.
THEOREM SelfConflictNeverCommits == NoRacingCheck => (SagaSpec => []NeverCommitted)
<1> SUFFICES ASSUME NoRacingCheck PROVE SagaSpec => []NeverCommitted
  OBVIOUS
<1>1. SagaInit => NeverCommitted
  BY DEF SagaInit, NeverCommitted
<1>2. SagaInv /\ NeverCommitted /\ [SagaNext]_sagaVars => NeverCommitted'
  <2> SUFFICES ASSUME SagaInv, NeverCommitted, [SagaNext]_sagaVars,
                      NEW f \in Deliveries, SelfConflicting(f)
               PROVE  commits'[f] = 0
    BY DEF NeverCommitted, SelfConflicting, IsAtomic
  <2>0. commits[f] = 0
    BY DEF NeverCommitted
  <2>1. CASE UNCHANGED sagaVars
    BY <2>0, <2>1 DEF sagaVars
  <2>2. ASSUME NEW d \in Deliveries, Commit(d) PROVE commits'[f] = 0
    <3>1. d # f
      BY <2>2, CommitIsNotSelfConflicting DEF SagaInv
    <3> QED
      BY <2>0, <2>2, <3>1 DEF Commit, SagaInv, SagaTypeOK
  <2>3. ASSUME NEW d \in Deliveries, ExecutorStep(d) \/ Fault(d), ~Commit(d)
        PROVE  commits'[f] = 0
    BY <2>0, <2>3 DEF ExecutorStep, Fault, LoadSaga, Handle, EnlistCommand, CheckVersion,
                      CommitConflict, DispatchCommand, Publish
  <2> QED
    BY <2>1, <2>2, <2>3 DEF SagaNext
<1> QED
  BY <1>1, <1>2, SagaInvariant, PTL DEF SagaSpec
=============================================================================
