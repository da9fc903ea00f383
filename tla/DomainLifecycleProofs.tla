----------------------- MODULE DomainLifecycleProofs -----------------------
(***************************************************************************)
(* What holds of a Domain for any number of callers, any aggregates and    *)
(* any adapters.                                                           *)
(*                                                                         *)
(* DrainedUnlessTimedOut speaks of the callers, the code decides by        *)
(* _activeOperations: the induction needs that the counter is the number   *)
(* of operations in flight (Counted), for which only finitely many callers *)
(* are in flight at a time, however many there are.  That nothing is left  *)
(* open needs what init() has opened at each step (Opened) and that it     *)
(* collected all of it (Collected).                                        *)
(***************************************************************************)
EXTENDS DomainLifecycle, SequenceTheorems, FiniteSetTheorems, TLAPS

\* The callers in flight with a kind of work.
Busy(S) == {c \in Callers : caller[c] \in S}

Inner == {"innerCommand"}
Works == {"idle", "command", "query", "unitOfWork", "innerCommand", "rebuild", "reaction"}
Resources == {"adapter", "infrastructure", "buses"}
Resolved == {"stores", "views", "executors", "commands", "queries", "listeners", "connect"}
Kinds == {"none", "adapterES", "adapterSS", "dedicated", "factory", "memory"}

DomainTypes ==
  /\ wiring \in Wirings \cup {Consumed}
  /\ stage \in Resolved \cup {"adapter", "infrastructure", "persistence", "running", "failed"}
  /\ store \in [Aggregates -> Kinds]
  /\ reader \in BOOLEAN
  /\ open \subseteq Resources
  /\ components \in Seq(Resources)
  /\ shutdown \in {"no", "draining", "relay", "bus", "closing", "done", "rejected"}
  /\ timedOut \in BOOLEAN
  /\ caller \in [Callers -> Works]

Counted ==
  /\ IsFiniteSet(Busy(Operations)) /\ IsFiniteSet(Busy(Inner))
  /\ active = Cardinality(Busy(Operations)) + 2 * Cardinality(Busy(Inner))

\* Past the drain nothing is in flight, unless the deadline ended it.
Drained ==
  /\ stage # "running" => shutdown = "no"
  /\ shutdown \in {"relay", "bus", "closing", "done", "rejected"} /\ ~timedOut => active = 0

AdapterResource == IF Provides("close") THEN {"adapter"} ELSE {}

Opened ==
  /\ stage = "adapter" => open = {}
  /\ stage = "infrastructure" => open = AdapterResource
  /\ stage \in {"persistence"} \cup Resolved =>
       open = AdapterResource \cup {"infrastructure", "buses"}

\* What is still open is still to be closed.
Collected ==
  /\ stage = "running" => \A x \in open : \E i \in 1..Len(components) : components[i] = x
  /\ shutdown = "done" => components = << >>

DomainInv ==
  /\ DomainTypes /\ Counted /\ Drained /\ Opened /\ Collected /\ ChoiceHonoured

-----------------------------------------------------------------------------
(* Counting.                                                               *)

\* How a set of busy callers changes when one caller changes its work.
LEMMA BusyChanges ==
  ASSUME DomainTypes, NEW S, IsFiniteSet(Busy(S)), NEW c \in Callers, NEW x,
         caller' = [caller EXCEPT ![c] = x]
  PROVE  /\ IsFiniteSet(Busy(S)')
         /\ Cardinality(Busy(S)) \in Nat
         /\ caller[c] \notin S /\ x \in S => Cardinality(Busy(S)') = Cardinality(Busy(S)) + 1
         /\ caller[c] \in S /\ x \notin S =>
              Cardinality(Busy(S)') = Cardinality(Busy(S)) - 1 /\ Cardinality(Busy(S)) >= 1
         /\ (caller[c] \in S <=> x \in S) => Cardinality(Busy(S)') = Cardinality(Busy(S))
<1>1. \A b \in Callers : caller'[b] = IF b = c THEN x ELSE caller[b]
  BY DEF DomainTypes
<1>2. Cardinality(Busy(S)) \in Nat
  BY FS_CardinalityType
<1>3. CASE caller[c] \notin S /\ x \in S
  <2>1. Busy(S)' = Busy(S) \cup {c} /\ c \notin Busy(S)
    BY <1>1, <1>3 DEF Busy
  <2> QED
    BY <1>2, <1>3, <2>1, FS_AddElement
<1>4. CASE caller[c] \in S /\ x \notin S
  <2>1. Busy(S)' = Busy(S) \ {c} /\ c \in Busy(S)
    BY <1>1, <1>4 DEF Busy
  <2>2. Cardinality(Busy(S)) # 0
    BY <2>1, FS_EmptySet
  <2> QED
    BY <1>2, <1>4, <2>1, <2>2, FS_RemoveElement
<1>5. CASE caller[c] \in S <=> x \in S
  <2>1. Busy(S)' = Busy(S)
    BY <1>1, <1>5 DEF Busy
  <2> QED
    BY <1>2, <1>5, <2>1
<1> QED
  BY <1>3, <1>4, <1>5

\* The kinds of work are told apart.
LEMMA WorkKinds ==
  /\ \A x \in Works : x \in Operations \/ x \in Inner \/ x \in {"idle", "rebuild", "reaction"}
  /\ \A x \in Operations : x \notin Inner /\ x \in Works /\ x # "idle"
  /\ "unitOfWork" \in Operations /\ "innerCommand" \in Inner /\ "innerCommand" \notin Operations
  /\ \A x \in {"idle", "rebuild", "reaction"} : x \notin Operations /\ x \notin Inner /\ x \in Works
BY DEF Works, Operations, Inner

\* The counter is a number, and zero exactly when no operation is in flight.
LEMMA ActiveIsCount ==
  ASSUME DomainTypes, Counted
  PROVE  /\ active \in Nat
         /\ active = 0 => \A c \in Callers : caller[c] \in {"idle", "rebuild", "reaction"}
         /\ (\E c \in Callers : caller[c] \in Operations) => active >= 1
         /\ (\E c \in Callers : caller[c] \in Inner) => active >= 2
<1> DEFINE p == Cardinality(Busy(Operations))
           q == Cardinality(Busy(Inner))
<1>1. p \in Nat /\ q \in Nat /\ active = p + 2 * q
  BY FS_CardinalityType DEF Counted
<1>2. (p = 0 <=> Busy(Operations) = {}) /\ (q = 0 <=> Busy(Inner) = {})
  BY FS_EmptySet DEF Counted
<1> HIDE DEF p, q
<1>3. /\ active \in Nat
      /\ active = 0 => p = 0 /\ q = 0
      /\ p # 0 => active >= 1
      /\ q # 0 => active >= 2
  BY <1>1
<1>4. ASSUME active = 0, NEW c \in Callers
      PROVE  caller[c] \in {"idle", "rebuild", "reaction"}
  <2>1. caller[c] \notin Operations /\ caller[c] \notin Inner
    BY <1>2, <1>3, <1>4 DEF Busy
  <2>2. caller[c] \in Works
    BY DEF DomainTypes
  <2> QED
    BY <2>1, <2>2, WorkKinds
<1>5. (\E c \in Callers : caller[c] \in Operations) => p # 0
  BY <1>2 DEF Busy
<1>6. (\E c \in Callers : caller[c] \in Inner) => q # 0
  BY <1>2 DEF Busy
<1> QED
  BY <1>3, <1>4, <1>5, <1>6

-----------------------------------------------------------------------------
(* The steps of init().                                                    *)

\* What a step of init() leaves alone.
InitStep ==
  \/ InitAdapter \/ ResolveInfrastructure \/ ResolvePersistence \/ ResolveStores
  \/ ResolveViewStores \/ CreateExecutors
  \/ RegisterCommandHandlers \/ RegisterQueryHandlers \/ SubscribeListeners
  \/ ConnectAndCollect

\* Only Resolved stages have a store for each aggregate, the one its form asks for.
LEMMA ResolutionHonours ==
  ASSUME DomainTypes, ResolvePersistence, stage' # "failed"
  PROVE  /\ stage' = "stores" /\ store' \in [Aggregates -> Kinds]
         /\ ChoiceHonoured'
<1>1. /\ stage' = "stores" /\ wiring' = wiring
      /\ store' = [a \in Aggregates |-> IF a \in Missing THEN "memory" ELSE Resolution[a]]
      /\ \A a \in Aggregates : Resolution[a] # "error"
  BY DEF ResolvePersistence, Throw, Proceed
<1>2. wiring.persistence \in [Aggregates -> Forms]
  BY DEF DomainTypes, Wirings, Consumed, Forms
<1>3. ASSUME NEW a \in Aggregates
      PROVE  /\ store'[a] \in Kinds
             /\ CASE wiring.persistence[a] = "event-sourced" -> store'[a] = "adapterES"
                  [] wiring.persistence[a] = "state-stored"  -> store'[a] = "adapterSS"
                  [] wiring.persistence[a] = "dedicated"     -> store'[a] = "dedicated"
                  [] wiring.persistence[a] = "factory"       -> store'[a] = "factory"
                  [] wiring.persistence[a] = "omitted"       -> store'[a] \in {"adapterSS", "memory"}
  <2> DEFINE f == wiring.persistence[a]
             r == resolveAggregatePersistence(a, f)
  <2>1. f \in Forms /\ Resolution[a] = r
    BY <1>2 DEF Resolution
  <2>2. r # "error" /\ store'[a] = IF r = "none" THEN "memory" ELSE r
    BY <1>1, <2>1 DEF Missing
  <2>3. /\ f = "omitted" => r \in {"adapterSS", "none"}
        /\ f = "event-sourced" => r \in {"adapterES", "error"}
        /\ f = "state-stored" => r \in {"adapterSS", "error"}
        /\ f = "dedicated" => r \in {"dedicated", "error"}
        /\ f = "factory" => r = "factory"
    BY DEF resolveAggregatePersistence
  <2> HIDE DEF r
  <2> QED
    BY <2>1, <2>2, <2>3 DEF Forms, Kinds
<1>4. store' \in [Aggregates -> Kinds]
  BY <1>1, <1>3
<1>5. ChoiceHonoured'
  BY <1>1, <1>3 DEF ChoiceHonoured
<1> QED
  BY <1>1, <1>4, <1>5

\* The steps that only decide whether to go on: types, resources and choices hold.
LEMMA CheckingStep ==
  ASSUME DomainInv, UNCHANGED <<wiring, store, reader, open, components>>,
         shutdown' = shutdown, stage \in Resolved, stage' \in Resolved \cup {"failed"}
  PROVE  Opened' /\ Collected' /\ ChoiceHonoured'
<1>1. Opened'
  BY DEF DomainInv, Opened, AdapterResource, Provides, Resolved
<1>2. Collected'
  BY DEF DomainInv, Collected, Resolved
<1>3. ChoiceHonoured'
  BY DEF DomainInv, ChoiceHonoured, Resolved
<1> QED
  BY <1>1, <1>2, <1>3

\* A step of init() keeps the invariant: it opens what it records, and resolves every
\* aggregate as wired or throws.
LEMMA InitStepInv ==
  ASSUME DomainInv, InitStep
  PROVE  DomainInv'
<1>0. DomainTypes /\ Counted /\ Drained /\ Opened /\ Collected /\ ChoiceHonoured
  BY DEF DomainInv
<1>1. UNCHANGED <<active, shutdown, timedOut, caller>> /\ stage # "running"
  BY DEF InitStep, InitAdapter, ResolveInfrastructure, ResolvePersistence, ResolveStores,
         ResolveViewStores, CreateExecutors, RegisterCommandHandlers, RegisterQueryHandlers,
         SubscribeListeners, ConnectAndCollect
<1>2. Counted'
  BY <1>0, <1>1 DEF Counted, Busy
<1>3. Drained'
  BY <1>0, <1>1 DEF Drained
<1>4. DomainTypes' /\ Opened' /\ Collected' /\ ChoiceHonoured'
  <2>1. shutdown = "no"
    BY <1>0, <1>1 DEF Drained
  <2>2. CASE InitAdapter
    <3>1. /\ stage' \in {"infrastructure", "failed"}
          /\ UNCHANGED <<wiring, store, reader, components>>
          /\ stage' = "infrastructure" => open' = AdapterResource
          /\ stage' = "failed" => open' = open
      BY <2>2 DEF InitAdapter, Proceed, Throw, AdapterResource
    <3>2. AdapterResource' = AdapterResource /\ AdapterResource \subseteq Resources
      BY <3>1 DEF AdapterResource, Provides, Resources
    <3>3. DomainTypes'
      BY <1>0, <1>1, <3>1, <3>2 DEF DomainTypes
    <3>4. Opened' /\ Collected' /\ ChoiceHonoured'
      BY <1>1, <2>1, <3>1, <3>2 DEF Opened, Collected, ChoiceHonoured, Resolved
    <3> QED
      BY <3>3, <3>4
  <2>3. CASE ResolveInfrastructure
    <3>1. /\ stage = "infrastructure" /\ stage' \in {"persistence", "failed"}
          /\ UNCHANGED <<wiring, store, reader, components>>
          /\ stage' = "persistence" => open' = open \cup {"infrastructure", "buses"}
          /\ stage' = "failed" => open' = open
      BY <2>3 DEF ResolveInfrastructure, Proceed, Throw
    <3>2. AdapterResource' = AdapterResource /\ open = AdapterResource
      BY <1>0, <3>1 DEF AdapterResource, Provides, Opened
    <3>3. DomainTypes'
      BY <1>0, <1>1, <3>1 DEF DomainTypes, Resources
    <3>4. Opened' /\ Collected' /\ ChoiceHonoured'
      BY <1>1, <2>1, <3>1, <3>2 DEF Opened, Collected, ChoiceHonoured, Resolved
    <3> QED
      BY <3>3, <3>4
  <2>4. CASE ResolvePersistence
    <3>1. /\ stage = "persistence" /\ UNCHANGED <<wiring, reader, open, components>>
          /\ (stage' = "failed" /\ store' = store) \/ stage' = "stores"
      BY <2>4 DEF ResolvePersistence, Proceed, Throw
    <3>2. AdapterResource' = AdapterResource
      BY <3>1 DEF AdapterResource, Provides
    <3>3. store' \in [Aggregates -> Kinds] /\ ChoiceHonoured'
      <4>1. CASE stage' = "failed"
        BY <1>0, <3>1, <4>1 DEF DomainTypes, ChoiceHonoured
      <4>2. CASE stage' # "failed"
        BY <1>0, <2>4, <4>2, ResolutionHonours
      <4> QED
        BY <4>1, <4>2
    <3>4. DomainTypes'
      BY <1>0, <1>1, <3>1, <3>3 DEF DomainTypes, Resolved
    <3>5. Opened' /\ Collected'
      BY <1>0, <1>1, <2>1, <3>1, <3>2 DEF Opened, Collected, Resolved
    <3> QED
      BY <3>3, <3>4, <3>5
  <2>5. CASE \/ ResolveStores \/ ResolveViewStores \/ CreateExecutors
             \/ RegisterCommandHandlers \/ RegisterQueryHandlers \/ SubscribeListeners
    <3>1. /\ stage \in Resolved /\ stage' \in Resolved \cup {"failed"}
          /\ UNCHANGED <<wiring, store, reader, open, components>>
      BY <2>5 DEF ResolveStores, ResolveViewStores, CreateExecutors, RegisterCommandHandlers,
                  RegisterQueryHandlers, SubscribeListeners, Register, Proceed, Throw, Resolved
    <3>2. DomainTypes'
      BY <1>0, <1>1, <3>1 DEF DomainTypes
    <3> QED
      BY <1>1, <3>1, <3>2, CheckingStep
  <2>6. CASE ConnectAndCollect
    <3>1. CASE stage' = "failed" /\ UNCHANGED <<components, reader, wiring, store>>
      <4>1. open' = open /\ stage \in Resolved
        BY <2>6 DEF ConnectAndCollect, Resolved
      <4>2. DomainTypes'
        BY <1>0, <1>1, <3>1, <4>1 DEF DomainTypes
      <4> QED
        BY <1>1, <3>1, <4>1, <4>2, CheckingStep
    <3>2. CASE stage' = "running"
      <4>1. /\ stage = "connect" /\ open' = open /\ reader' \in EventReader
            /\ components' = (IF Provides("close") THEN <<"adapter">> ELSE <<>>)
                               \o <<"infrastructure", "buses">>
            /\ wiring' = Consumed
            /\ store' = [a \in Aggregates |-> "none"]
        BY <2>6, <3>2 DEF ConnectAndCollect, Throw, Proceed
      <4>2. open = AdapterResource \cup {"infrastructure", "buses"}
        BY <1>0, <4>1 DEF Opened, Resolved
      <4>3. CASE Provides("close")
        <5>1. components' = <<"adapter">> \o <<"infrastructure", "buses">>
          BY <4>1, <4>3
        <5>2. /\ components' \in Seq(Resources)
              /\ Len(components') = 3 /\ components'[1] = "adapter"
              /\ components'[2] = "infrastructure" /\ components'[3] = "buses"
          BY <5>1 DEF Resources
        <5>3. \A x \in open' : \E i \in 1..Len(components') : components'[i] = x
          BY <4>1, <4>2, <4>3, <5>2 DEF AdapterResource
        <5> QED
          BY <1>0, <1>1, <2>1, <3>2, <4>1, <5>2, <5>3
          DEF DomainTypes, Opened, Collected, ChoiceHonoured, EventReader, Kinds, Resolved
      <4>4. CASE ~Provides("close")
        <5>1. components' = <<"infrastructure", "buses">>
          BY <4>1, <4>4
        <5>2. /\ components' \in Seq(Resources)
              /\ Len(components') = 2
              /\ components'[1] = "infrastructure" /\ components'[2] = "buses"
          BY <5>1 DEF Resources
        <5>3. \A x \in open' : \E i \in 1..Len(components') : components'[i] = x
          BY <4>1, <4>2, <4>4, <5>2 DEF AdapterResource
        <5> QED
          BY <1>0, <1>1, <2>1, <3>2, <4>1, <5>2, <5>3
          DEF DomainTypes, Opened, Collected, ChoiceHonoured, EventReader, Kinds, Resolved
      <4> QED
        BY <4>3, <4>4
    <3> QED
      BY <2>6, <3>1, <3>2 DEF ConnectAndCollect, Throw, Proceed
  <2> QED
    BY <2>2, <2>3, <2>4, <2>5, <2>6 DEF InitStep
<1> QED
  BY <1>2, <1>3, <1>4 DEF DomainInv

-----------------------------------------------------------------------------
(* Operations and shutdown().                                              *)

\* Steps of a running domain that leave the resources and the choices alone.
LEMMA RunningStep ==
  ASSUME DomainInv, UNCHANGED <<wiring, stage, store, reader, open, components>>,
         shutdown' = "done" => shutdown = "done"
  PROVE  Opened' /\ Collected' /\ ChoiceHonoured'
<1>1. Opened'
  BY DEF DomainInv, Opened, AdapterResource, Provides
<1>2. Collected'
  BY DEF DomainInv, Collected
<1>3. ChoiceHonoured'
  BY DEF DomainInv, ChoiceHonoured
<1> QED
  BY <1>1, <1>2, <1>3

\* The calls keep the count: each start adds one, each end takes one away, and no
\* operation starts once the shutdown has begun.
LEMMA CallInv ==
  ASSUME DomainInv, NEW c \in Callers, Calls(c)
  PROVE  DomainInv'
<1> DEFINE p == Cardinality(Busy(Operations))
           q == Cardinality(Busy(Inner))
<1>0. DomainTypes /\ Counted /\ Drained
  BY DEF DomainInv
<1>1. /\ UNCHANGED <<wiring, stage, store, reader, open, components, timedOut>>
      /\ shutdown' = shutdown \/ (shutdown = "draining" /\ shutdown' = "relay")
  BY DEF Calls, OperationStarts, OperationEnds, InnerStarts, InnerEnds, InnerRefused,
         UncountedStarts, UncountedEnds, releaseOperation
<1>4. PICK x \in Works : caller' = [caller EXCEPT ![c] = x]
  <2>1. CASE \E op \in Operations : OperationStarts(c, op)
    BY <2>1, WorkKinds, Zenon DEF OperationStarts
  <2>2. CASE OperationEnds(c) \/ InnerRefused(c) \/ UncountedEnds(c)
    <3>1. caller' = [caller EXCEPT ![c] = "idle"]
      BY <2>2 DEF OperationEnds, InnerRefused, UncountedEnds
    <3> QED
      BY <3>1, WorkKinds, Zenon
  <2>3. CASE InnerStarts(c)
    <3>1. caller' = [caller EXCEPT ![c] = "innerCommand"] /\ "innerCommand" \in Works
      BY <2>3 DEF InnerStarts, Works
    <3> QED
      BY <3>1, Zenon
  <2>4. CASE InnerEnds(c)
    <3>1. caller' = [caller EXCEPT ![c] = "unitOfWork"] /\ "unitOfWork" \in Works
      BY <2>4 DEF InnerEnds, Works
    <3> QED
      BY <3>1, Zenon
  <2>5. CASE \E work \in {"rebuild", "reaction"} : UncountedStarts(c, work)
    BY <2>5, WorkKinds, Zenon DEF UncountedStarts
  <2> QED
    BY <2>1, <2>2, <2>3, <2>4, <2>5, Zenon DEF Calls
<1>2. DomainTypes'
  BY <1>0, <1>1, <1>4 DEF DomainTypes
<1>3. Opened' /\ Collected' /\ ChoiceHonoured'
  BY <1>1, RunningStep
<1>5. /\ IsFiniteSet(Busy(Operations)) /\ IsFiniteSet(Busy(Inner))
      /\ active = p + 2 * q /\ active \in Nat
  BY <1>0, ActiveIsCount DEF Counted
<1>6. /\ IsFiniteSet(Busy(Operations)') /\ p \in Nat
      /\ caller[c] \notin Operations /\ x \in Operations => p' = p + 1
      /\ caller[c] \in Operations /\ x \notin Operations => p' = p - 1 /\ p >= 1
      /\ (caller[c] \in Operations <=> x \in Operations) => p' = p
  BY <1>0, <1>4, <1>5, BusyChanges
<1>7. /\ IsFiniteSet(Busy(Inner)') /\ q \in Nat
      /\ caller[c] \notin Inner /\ x \in Inner => q' = q + 1
      /\ caller[c] \in Inner /\ x \notin Inner => q' = q - 1 /\ q >= 1
      /\ (caller[c] \in Inner <=> x \in Inner) => q' = q
  BY <1>0, <1>4, <1>5, BusyChanges
<1>8. caller'[c] = x /\ caller[c] \in Works
  BY <1>0, <1>4 DEF DomainTypes
<1> HIDE DEF p, q
<1>9. ASSUME active' = p' + 2 * q' PROVE Counted'
  BY <1>6, <1>7, <1>9 DEF Counted, p, q
\* A release that ends the drain leaves nothing in flight.
<1>10. ASSUME releaseOperation, active >= 1 PROVE Drained'
  <2>1. active' = active - 1 /\ shutdown' = IF active = 1 /\ shutdown = "draining" THEN "relay" ELSE shutdown
    BY <1>10 DEF releaseOperation
  <2>2. (shutdown' \in {"relay", "bus", "closing", "done", "rejected"} /\ ~timedOut') => active' = 0
    BY <1>0, <1>1, <1>5, <1>10, <2>1 DEF Drained
  <2>3. stage' # "running" => shutdown' = "no"
    BY <1>0, <1>1, <2>1 DEF Drained
  <2> QED
    BY <2>2, <2>3 DEF Drained
<1>11. ASSUME acquireOperation, shutdown' = shutdown PROVE Drained'
  BY <1>1, <1>11 DEF Drained, acquireOperation, Running
<1>12. CASE \E op \in Operations : OperationStarts(c, op)
  <2>1. caller[c] = "idle" /\ x \in Operations /\ acquireOperation /\ shutdown' = shutdown
    BY <1>8, <1>12, <1>0 DEF OperationStarts, DomainTypes
  <2>2. p' = p + 1 /\ q' = q /\ active' = active + 1
    BY <1>6, <1>7, <2>1, WorkKinds DEF acquireOperation
  <2>3. active' = p' + 2 * q'
    BY <1>5, <1>6, <1>7, <2>2
  <2> QED
    BY <1>2, <1>3, <1>9, <1>11, <2>1, <2>3 DEF DomainInv
<1>13. CASE OperationEnds(c) \/ InnerRefused(c)
  <2>1. caller[c] \in Operations /\ x = "idle" /\ releaseOperation
    BY <1>8, <1>13, <1>0 DEF OperationEnds, InnerRefused, DomainTypes, Operations
  <2>2. p' = p - 1 /\ p >= 1 /\ q' = q /\ active' = active - 1
    BY <1>6, <1>7, <2>1, WorkKinds DEF releaseOperation
  <2>3. active' = p' + 2 * q' /\ active >= 1
    BY <1>5, <1>6, <1>7, <2>2
  <2> QED
    BY <1>2, <1>3, <1>9, <1>10, <2>1, <2>3 DEF DomainInv
<1>14. CASE InnerStarts(c)
  <2>1. caller[c] = "unitOfWork" /\ x = "innerCommand" /\ acquireOperation /\ shutdown' = shutdown
    BY <1>8, <1>14, <1>0 DEF InnerStarts, DomainTypes
  <2>2. p' = p - 1 /\ q' = q + 1 /\ active' = active + 1
    BY <1>6, <1>7, <2>1, WorkKinds DEF acquireOperation
  <2>3. active' = p' + 2 * q'
    BY <1>5, <1>6, <1>7, <2>2
  <2> QED
    BY <1>2, <1>3, <1>9, <1>11, <2>1, <2>3 DEF DomainInv
<1>15. CASE InnerEnds(c)
  <2>1. caller[c] = "innerCommand" /\ x = "unitOfWork" /\ releaseOperation
    BY <1>8, <1>15, <1>0 DEF InnerEnds, DomainTypes
  <2>2. p' = p + 1 /\ q' = q - 1 /\ q >= 1 /\ active' = active - 1
    BY <1>6, <1>7, <2>1, WorkKinds DEF releaseOperation
  <2>3. active' = p' + 2 * q' /\ active >= 1
    BY <1>5, <1>6, <1>7, <2>2
  <2> QED
    BY <1>2, <1>3, <1>9, <1>10, <2>1, <2>3 DEF DomainInv
<1>16. CASE (\E work \in {"rebuild", "reaction"} : UncountedStarts(c, work)) \/ UncountedEnds(c)
  <2>1. /\ caller[c] \in {"idle", "rebuild", "reaction"} /\ x \in {"idle", "rebuild", "reaction"}
        /\ active' = active /\ shutdown' = shutdown
    BY <1>8, <1>16, <1>0 DEF UncountedStarts, UncountedEnds, DomainTypes
  <2>2. p' = p /\ q' = q
    BY <1>6, <1>7, <2>1, WorkKinds
  <2>3. active' = p' + 2 * q'
    BY <1>5, <2>1, <2>2
  <2>4. Drained'
    BY <1>0, <1>1, <2>1 DEF Drained
  <2> QED
    BY <1>2, <1>3, <1>9, <2>3, <2>4 DEF DomainInv
<1> QED
  BY <1>12, <1>13, <1>14, <1>15, <1>16 DEF Calls

\* shutdown() and its phases: the drain is skipped only when nothing is in flight, and
\* what is closed leaves the list.
LEMMA ShutdownInv ==
  ASSUME DomainInv, Shutdown \/ ShutdownSteps
  PROVE  DomainInv'
<1>0. DomainTypes /\ Counted /\ Drained /\ Opened /\ Collected
  BY DEF DomainInv
<1>1. UNCHANGED <<wiring, stage, store, reader, active, caller>>
  BY DEF Shutdown, ShutdownSteps, DrainTimesOut, RelayDrained, Closes, CloseEventBus,
         CloseComponent, ShutdownDone
<1>2. Counted' /\ ChoiceHonoured'
  BY <1>0, <1>1 DEF DomainInv, Counted, Busy, ChoiceHonoured
<1>3. active \in Nat
  BY <1>0, ActiveIsCount
<1>4. stage = "running"
  BY <1>0 DEF Drained, Shutdown, Running, ShutdownSteps, DrainTimesOut, RelayDrained,
              Closes, CloseEventBus, CloseComponent, ShutdownDone
<1>5. Opened'
  BY <1>1, <1>4 DEF Opened, Resolved
<1>6. Drained'
  BY <1>0, <1>1, <1>3, <1>4 DEF Drained, Shutdown, ShutdownSteps, DrainTimesOut, RelayDrained,
                                 Closes, CloseEventBus, CloseComponent, ShutdownDone
<1>7. DomainTypes' /\ Collected'
  <2>1. CASE Shutdown \/ DrainTimesOut \/ RelayDrained
    <3>1. /\ open' = open /\ components' = components
          /\ shutdown' \in {"draining", "relay", "bus"}
          /\ timedOut' \in BOOLEAN
      BY <1>0, <2>1 DEF Shutdown, DrainTimesOut, RelayDrained, DomainTypes
    <3> QED
      BY <1>0, <1>1, <3>1 DEF DomainTypes, Collected
  <2>2. CASE CloseEventBus
    <3>1. /\ open' \subseteq open /\ components' = components
          /\ shutdown' \in {"closing", "rejected"} /\ timedOut' = timedOut
      BY <2>2 DEF CloseEventBus
    <3> QED
      BY <1>0, <1>1, <3>1 DEF DomainTypes, Collected
  <2>3. CASE CloseComponent
    <3> DEFINE n == Len(components)
    <3>1. /\ components # << >> /\ components' = SubSeq(components, 1, n - 1)
          /\ open' = open \ {components[n]}
          /\ shutdown = "closing" /\ shutdown' = shutdown /\ timedOut' = timedOut
      BY <2>3 DEF CloseComponent, Front, Last
    <3>2. n \in Nat /\ n >= 1
      BY <1>0, <3>1 DEF DomainTypes
    <3>3. /\ components' \in Seq(Resources) /\ Len(components') = n - 1
          /\ \A i \in 1..n - 1 : components'[i] = components[i]
      <4>1. components \in Seq(Resources)
        BY <1>0 DEF DomainTypes
      <4>2. 1 \in 1..n + 1 /\ n - 1 \in 1 - 1..n /\ (n - 1) - 1 + 1 = n - 1
        BY <3>2
      <4>3. /\ SubSeq(components, 1, n - 1) \in Seq(Resources)
            /\ Len(SubSeq(components, 1, n - 1)) = n - 1
            /\ \A i \in 1..n - 1 : SubSeq(components, 1, n - 1)[i] = components[1 + i - 1]
        BY <3>2, <4>1, <4>2, SubSeqProperties
      <4>4. \A i \in 1..n - 1 : 1 + i - 1 = i
        BY <3>2
      <4> QED
        BY <3>1, <4>3, <4>4
    <3>4. ASSUME NEW x \in open' PROVE \E i \in 1..Len(components') : components'[i] = x
      <4>1. x \in open /\ x # components[n]
        BY <3>1, <3>4
      <4>2. PICK i \in 1..n : components[i] = x
        BY <1>0, <1>4, <4>1 DEF Collected
      <4>3. i \in 1..n - 1
        BY <3>2, <4>1, <4>2
      <4> QED
        BY <3>3, <4>2, <4>3
    <3> QED
      BY <1>0, <1>1, <3>1, <3>3, <3>4 DEF DomainTypes, Collected
  <2>4. CASE ShutdownDone
    <3>1. /\ open' = open /\ components' = components /\ components = << >>
          /\ shutdown' = "done" /\ timedOut' = timedOut
      BY <2>4 DEF ShutdownDone
    <3> QED
      BY <1>0, <1>1, <3>1 DEF DomainTypes, Collected
  <2> QED
    BY <2>1, <2>2, <2>3, <2>4 DEF ShutdownSteps, Closes
<1> QED
  BY <1>2, <1>5, <1>6, <1>7 DEF DomainInv

-----------------------------------------------------------------------------
(* The invariant and what follows from it.                                 *)

\* The invariant holds in every reachable state of a domain.
LEMMA DomainInvariant == DomainSpec => []DomainInv
<1>1. DomainInit => DomainInv
  <2> SUFFICES ASSUME DomainInit PROVE DomainInv
    OBVIOUS
  <2>1. /\ wiring \in Wirings /\ stage = "adapter" /\ store = [a \in Aggregates |-> "none"]
        /\ reader = FALSE /\ open = {} /\ components = << >> /\ active = 0
        /\ shutdown = "no" /\ timedOut = FALSE /\ caller = [c \in Callers |-> "idle"]
    BY DEF DomainInit
  <2>2. DomainTypes
    <3>1. /\ store \in [Aggregates -> Kinds] /\ caller \in [Callers -> Works]
          /\ components \in Seq(Resources)
      BY <2>1 DEF Works, Kinds
    <3> QED
      BY <2>1, <3>1 DEF DomainTypes
  <2>3. Busy(Operations) = {} /\ Busy(Inner) = {}
    BY <2>1, WorkKinds DEF Busy
  <2>4. Counted
    BY <2>1, <2>3, FS_EmptySet DEF Counted
  <2>5. Drained /\ Opened /\ Collected /\ ChoiceHonoured
    BY <2>1 DEF Drained, Opened, Collected, ChoiceHonoured, Resolved
  <2> QED
    BY <2>2, <2>4, <2>5 DEF DomainInv
<1>2. DomainInv /\ [DomainNext]_domain => DomainInv'
  <2> SUFFICES ASSUME DomainInv, [DomainNext]_domain PROVE DomainInv'
    OBVIOUS
  <2>1. CASE UNCHANGED domain
    <3>1. /\ UNCHANGED <<wiring, stage, store, reader, open, components>>
          /\ UNCHANGED <<active, shutdown, timedOut, caller>>
      BY <2>1 DEF domain
    <3>2. DomainTypes' /\ Drained'
      BY <3>1 DEF DomainInv, DomainTypes, Drained
    <3>3. Counted'
      BY <3>1 DEF DomainInv, Counted, Busy
    <3>4. Opened' /\ Collected' /\ ChoiceHonoured'
      BY <3>1, RunningStep
    <3> QED
      BY <3>2, <3>3, <3>4 DEF DomainInv
  <2>2. CASE InitStep
    BY <2>2, InitStepInv
  <2>3. CASE \E c \in Callers : Calls(c)
    BY <2>3, CallInv
  <2>4. CASE Shutdown \/ ShutdownSteps
    BY <2>4, ShutdownInv
  <2> QED
    BY <2>1, <2>2, <2>3, <2>4 DEF DomainNext, InitStep
<1> QED
  BY <1>1, <1>2, PTL DEF DomainSpec

\* _activeOperations is the number of operations in flight, the command inside a unit of
\* work counted on top of it: no path of acquire and release forgets one or releases twice.
THEOREM DomainCountsOperations == DomainSpec => []DomainTypeOK
<1>1. DomainInv => DomainTypeOK
  <2> SUFFICES ASSUME DomainInv PROVE DomainTypeOK
    OBVIOUS
  <2>1. Busy(Inner) = {c \in Callers : caller[c] = "innerCommand"}
    BY DEF Busy, Inner
  <2>2. active = Cardinality({c \in Callers : caller[c] \in Operations})
                    + 2 * Cardinality({c \in Callers : caller[c] = "innerCommand"})
    BY <2>1 DEF DomainInv, Counted, Busy
  <2> QED
    BY <2>2 DEF DomainInv, DomainTypes, DomainTypeOK, Kinds, Resources
<1> QED
  BY <1>1, DomainInvariant, PTL

\* A persistence form of the wiring is never quietly replaced by another store
\* (domain.ts, resolveAggregatePersistence and step 4 of init()).
THEOREM DomainChoiceHonoured == DomainSpec => []ChoiceHonoured
<1>1. DomainInv => ChoiceHonoured
  BY DEF DomainInv
<1> QED
  BY <1>1, DomainInvariant, PTL

\* The bus and the stores are closed under an operation only past the deadline of the
\* drain, and a shutdown() that resolved left nothing open (_performShutdown).
THEOREM DomainDrainedUnlessTimedOut == DomainSpec => []DrainedUnlessTimedOut
<1>1. DomainInv => DrainedUnlessTimedOut
  <2> SUFFICES ASSUME DomainInv PROVE DrainedUnlessTimedOut
    OBVIOUS
  <2>1. DomainTypes /\ Counted /\ Drained /\ Collected
    BY DEF DomainInv
  <2>2. ASSUME shutdown \in {"bus", "closing", "done", "rejected"}, ~timedOut
        PROVE  \A c \in Callers : caller[c] \in {"idle", "rebuild", "reaction"}
    <3>1. active = 0
      BY <2>1, <2>2 DEF Drained
    <3> QED
      BY <2>1, <3>1, ActiveIsCount
  <2>3. ASSUME shutdown = "done" PROVE open = {}
    <3>1. components = << >> /\ stage = "running"
      BY <2>1, <2>3 DEF Drained, Collected
    <3>2. \A i \in 1..Len(components) : FALSE
      BY <3>1
    <3> QED
      BY <2>1, <3>1, <3>2 DEF Collected
  <2> QED
    BY <2>2, <2>3 DEF DrainedUnlessTimedOut
<1> QED
  BY <1>1, DomainInvariant, PTL
=============================================================================
