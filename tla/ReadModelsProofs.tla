------------------------- MODULE ReadModelsProofs --------------------------
(***************************************************************************)
(* What holds of the read side for every set of aggregates, views and      *)
(* projections, every history, upcaster chain and number of writers.       *)
(*                                                                         *)
(* Views are compared with a fold over the log, so the lemmas start with   *)
(* induction: every non-empty set of naturals has a least element (from    *)
(* WFMin, whose parameters are sets), hence the fold satisfies its         *)
(* equation, depends only on the prefix it has read, and upcasting ends in *)
(* the current shape.                                                      *)
(*                                                                         *)
(* The invariant follows the three ways to a view: the strong projection   *)
(* inside a transaction, a publication walking along the handlers of the   *)
(* bus, and a rebuild walking along the log.                               *)
(***************************************************************************)
EXTENDS ReadModels, SequenceTheorems, FiniteSetTheorems, WellFoundedInduction, TLAPS

-----------------------------------------------------------------------------
(* The invariant.                                                          *)

IsFcn(f, S) == f = [x \in S |-> f[x]]

\* The prefixes of the log, folded into view v.
Current(v) == Replayed(log, viewOf, v, DOMAIN log)
CurrentStrong(v) == Replayed(log, viewOf, v, (found + 1) .. Len(log))

InShape(event) == [event EXCEPT !.payload = currentEventVersion(Chain)]

\* Payloads have the shape their version says; this program writes the current one.
LogInv ==
    /\ viewOf \in [Aggregates -> Views]
    /\ log \in Seq(Events) /\ found \in Nat /\ found <= Len(log)
    /\ \A n \in 1 .. Len(log) : log[n].payload = StoredVersion(log[n])
    /\ \A n \in 1 .. Len(log) : found < n => InShape(log[n]) = log[n]

\* Shapes of the view stores.
StoreInv ==
    /\ IsFcn(strong, Views)
    /\ IsFcn(eventual, Names) /\ \A p \in Names : IsFcn(eventual[p], Views)
    /\ adrift \in [Names -> SUBSET Views]

\* What a dispatchCommand call is about.
WriterOK(w) ==
    /\ writer[w].pc \in {"idle", "inserted", "loaded", "publishing", "applying"}
    /\ InTransaction(w) => writer[w].agg \in Aggregates /\ writer[w].kind \in Kinds
    /\ Publishing(w) =>
        /\ writer[w].agg \in Aggregates
        /\ writer[w].n \in 1 .. Len(log) /\ found < writer[w].n
        /\ log[writer[w].n].agg = writer[w].agg
        /\ writer[w].at \in Nat \ {0}
    /\ writer[w].pc = "applying" => writer[w].by \in Names

WriterInv == IsFcn(writer, Writers) /\ \A w \in Writers : WriterOK(w)

\* What a rebuildProjection call is about.
RebuildOK(p) ==
    LET r == rebuild[p] IN
    \/ r = NotRebuilding
    \/ r = [pc |-> "detached", quiet |-> r.quiet]
    \/ r = [pc |-> "replaying", quiet |-> r.quiet, n |-> r.n] /\ r.n \in 1 .. Len(log) + 1
    \/ /\ r = [pc |-> "folding", quiet |-> r.quiet, n |-> r.n, event |-> r.event,
               view |-> r.view]
       /\ r.n \in 1 .. Len(log) /\ r.event = InShape(log[r.n])

RebuildInv == IsFcn(rebuild, Names) /\ \A p \in Names : RebuildOK(p)

\* The bus holds the handlers of the projections that are not being rebuilt, once each.
BusInv ==
    /\ bus \in Seq(Names)
    /\ \A i, j \in 1 .. Len(bus) : bus[i] = bus[j] => i = j
    /\ \A p \in Names : rebuild[p].pc = "no" <=> \E i \in 1 .. Len(bus) : bus[i] = p

\* Strong views: one transaction on an aggregate at a time, so that the view
\* it loaded is still the one it replaces.
Feeds(a, v) == \A b \in Aggregates : viewOf[b] = v <=> b = a

StrongInv ==
    /\ \A w, x \in Writers :
        InTransaction(w) /\ InTransaction(x) /\ writer[w].agg = writer[x].agg => w = x
    /\ \A w \in Writers :
        writer[w].pc = "loaded" /\ Feeds(writer[w].agg, viewOf[writer[w].agg]) =>
            writer[w].view = strong[viewOf[writer[w].agg]]
    /\ \A a \in Aggregates : Feeds(a, viewOf[a]) =>
        strong[viewOf[a]] = CurrentStrong(viewOf[a])[Len(log)]

\* Publications that overlap on a view leave it uncovered everywhere; a quiet
\* rebuild overlaps with none.
Alone ==
    /\ \A w, x \in Writers :
        Publishing(w) /\ Publishing(x) /\ w # x
        /\ viewOf[writer[w].agg] = viewOf[writer[x].agg] =>
            \A p \in Names : viewOf[writer[w].agg] \in adrift[p]
    /\ \A p \in Names : rebuild[p].pc # "no" /\ rebuild[p].quiet =>
        \A w \in Writers : ~Publishing(w)

\* A publication on a covered view: nothing was committed to the view after
\* it, the handlers before its place on the bus have folded its event in, the
\* others have not, and the one at work holds the view it will replace.
Walked(w, p, v) ==
    /\ rebuild[p].pc = "no"
    /\ Current(v)[Len(log)] = Current(v)[writer[w].n]
    /\ \A i \in 1 .. Len(bus) : bus[i] = p =>
        eventual[p][v] = IF i < writer[w].at THEN Current(v)[writer[w].n]
                         ELSE Current(v)[writer[w].n - 1]
    /\ writer[w].pc = "applying" =>
        /\ writer[w].at \in 1 .. Len(bus) /\ writer[w].by = bus[writer[w].at]
        /\ writer[w].by = p => writer[w].view = eventual[p][v]

Walk(w, p) ==
    \A v \in Views :
        Publishing(w) /\ viewOf[writer[w].agg] = v /\ v \notin adrift[p] => Walked(w, p, v)

\* A rebuild has restored the views it covers as far as it has read.
Restored(p) ==
    rebuild[p].pc \in {"replaying", "folding"} =>
        /\ Unreadable \subseteq adrift[p]
        /\ \A v \in Views \ Unreadable :
            rebuild[p].quiet \/ v \notin adrift[p] =>
                /\ eventual[p][v] = Current(v)[rebuild[p].n - 1]
                /\ rebuild[p].pc = "folding" /\ viewOf[rebuild[p].event.agg] = v =>
                    rebuild[p].view = eventual[p][v]

ReadsInv ==
    /\ LogInv /\ StoreInv /\ WriterInv /\ RebuildInv /\ BusInv
    /\ StrongInv /\ Alone /\ ViewsCurrent
    /\ \A p \in Names : Restored(p) /\ \A w \in Writers : Walk(w, p)

-----------------------------------------------------------------------------
(* Induction over data.                                                    *)

\* A non-empty set of naturals has a least element.
LEMMA LeastElement ==
  ASSUME NEW T, T \subseteq Nat, T # {}
  PROVE  \E x \in T : \A y \in T : x <= y
<1> DEFINE R == OpToRel(<, Nat)
<1>1. IsWellFoundedOn(R, Nat)  BY NatLessThanWellFounded
<1>2. \A x, y \in Nat : <<y, x>> \in R <=> y < x  BY DEF OpToRel
<1> HIDE DEF R
<1>3. PICK x \in T : \A y \in T : ~(<<y, x>> \in R)  BY <1>1, WFMin
<1>4. \A y \in T : y \in Nat /\ x \in Nat /\ ~(y < x)  BY <1>2, <1>3
<1>5. \A y \in T : x <= y  BY <1>4
<1> QED  BY <1>5

\* What one event of the log does to a view.
Turn(view, events, of, v, counted, n) ==
    IF of[events[n].agg] = v /\ n \in counted THEN Reduce(view, InShape(events[n]), n) ELSE view

\* The fold satisfies its equation.
LEMMA FoldDefined ==
  ASSUME NEW events, NEW of, NEW v, NEW counted, Len(events) \in Nat
  PROVE  LET f == Replayed(events, of, v, counted) IN
         /\ f[0] = << >>
         /\ \A n \in 1 .. Len(events) : f[n] = Turn(f[n - 1], events, of, v, counted, n)
<1> DEFINE S(view, n) == Turn(view, events, of, v, counted, n)
           E(f, k) == f = [n \in 0 .. k |-> IF n = 0 THEN << >> ELSE S(f[n - 1], n)]
           T == {k \in Nat : ~\E f : E(f, k)}
           N == Len(events)
           F == Replayed(events, of, v, counted)
<1>1. F = CHOOSE f : E(f, N)  BY DEF Replayed, Turn, InShape
<1> HIDE DEF S, F
<1>2. T = {}
  <2> SUFFICES ASSUME T # {}  PROVE FALSE
    OBVIOUS
  <2>1. T \subseteq Nat  OBVIOUS
  <2>2. PICK k \in T : \A y \in T : k <= y  BY <2>1, LeastElement
  <2>3. CASE k = 0
    <3> DEFINE g == [n \in 0 .. 0 |-> << >>]
    <3>1. E(g, 0)  OBVIOUS
    <3> QED  BY <2>2, <2>3, <3>1
  <2>4. CASE k # 0
    <3>1. k \in Nat /\ k - 1 \in Nat /\ ~(k <= k - 1)  BY <2>1, <2>4
    <3>2. k - 1 \notin T  BY <2>2, <3>1
    <3>3. PICK f : E(f, k - 1)  BY <3>1, <3>2
    <3>4. f = [i \in 0 .. (k - 1) |-> IF i = 0 THEN << >> ELSE S(f[i - 1], i)]  BY <3>3
    <3> DEFINE g == [n \in 0 .. k |-> IF n = k THEN S(f[k - 1], k) ELSE f[n]]
               h == [n \in 0 .. k |-> IF n = 0 THEN << >> ELSE S(g[n - 1], n)]
    <3>5. ASSUME NEW n \in 0 .. k  PROVE g[n] = h[n]
      <4>1. n # k => n \in 0 .. (k - 1)  BY <3>1
      <4>2. CASE n = k
        <5>1. k - 1 \in 0 .. k /\ k - 1 # k /\ k \in 0 .. k  BY <3>1
        <5>2. g[k - 1] = f[k - 1] /\ h[k] = S(g[k - 1], k)  BY <2>4, <5>1
        <5> QED  BY <4>2, <5>1, <5>2
      <4>3. CASE n # k /\ n # 0
        <5>1. n - 1 \in 0 .. k /\ n - 1 # k  BY <3>1, <4>3
        <5>2. g[n - 1] = f[n - 1] /\ g[n] = f[n]  BY <4>3, <5>1
        <5>3. f[n] = S(f[n - 1], n)  BY <3>4, <4>1, <4>3
        <5> QED  BY <4>3, <5>2, <5>3
      <4>4. CASE n # k /\ n = 0
        <5>1. g[n] = f[n] /\ f[n] = << >>  BY <3>4, <4>1, <4>4
        <5> QED  BY <4>4, <5>1
      <4> QED  BY <4>2, <4>3, <4>4
    <3>6. E(g, k)  BY <3>5, Zenon
    <3> QED  BY <2>2, <3>6
  <2> QED  BY <2>3, <2>4
<1>3. \E f : E(f, N)  BY <1>2
<1> HIDE DEF E
<1>4. E(CHOOSE f : E(f, N), N)  BY <1>3, Zenon
<1>5. E(F, N)  BY <1>1, <1>4
<1>6. F = [n \in 0 .. N |-> IF n = 0 THEN << >> ELSE S(F[n - 1], n)]  BY <1>5 DEF E
<1>7. F[0] = << >> /\ \A n \in 1 .. N : F[n] = S(F[n - 1], n)  BY <1>6
<1> QED  BY <1>7 DEF F, S

\* The fold of a longer log extends the fold of its prefix.
LEMMA FoldPrefix ==
  ASSUME NEW events, NEW longer, NEW of, NEW v, NEW counted, NEW more,
         Len(events) \in Nat, Len(longer) \in Nat, Len(events) <= Len(longer),
         \A n \in 1 .. Len(events) : longer[n] = events[n] /\ (n \in more <=> n \in counted)
  PROVE  \A n \in 0 .. Len(events) :
           Replayed(longer, of, v, more)[n] = Replayed(events, of, v, counted)[n]
<1> DEFINE f == Replayed(events, of, v, counted)
           g == Replayed(longer, of, v, more)
           T == {n \in 0 .. Len(events) : g[n] # f[n]}
<1>1. /\ f[0] = << >>
      /\ \A n \in 1 .. Len(events) : f[n] = Turn(f[n - 1], events, of, v, counted, n)
  BY FoldDefined
<1>2. /\ g[0] = << >>
      /\ \A n \in 1 .. Len(longer) : g[n] = Turn(g[n - 1], longer, of, v, more, n)
  BY FoldDefined
<1> HIDE DEF f, g
<1>3. SUFFICES ASSUME T # {}  PROVE FALSE
  BY DEF f, g
<1>4. T \subseteq Nat  OBVIOUS
<1>5. PICK k \in T : \A y \in T : k <= y  BY <1>3, <1>4, LeastElement
<1>6. k \in 0 .. Len(events) /\ g[k] # f[k]  OBVIOUS
<1>7. k # 0  BY <1>1, <1>2, <1>6
<1>8. k \in 1 .. Len(events) /\ k \in 1 .. Len(longer) /\ k - 1 \in 0 .. Len(events)
      /\ ~(k <= k - 1)
  BY <1>6, <1>7
<1>9. g[k - 1] = f[k - 1]  BY <1>5, <1>8
<1>10. longer[k] = events[k] /\ (k \in more <=> k \in counted)  BY <1>8
<1>11. Turn(g[k - 1], longer, of, v, more, k) = Turn(f[k - 1], events, of, v, counted, k)
  BY <1>9, <1>10 DEF Turn
<1> QED  BY <1>1, <1>2, <1>6, <1>8, <1>11

\* Counting no event leaves the view empty.
LEMMA FoldNothing ==
  ASSUME NEW events, NEW of, NEW v, NEW counted, Len(events) \in Nat,
         \A n \in 1 .. Len(events) : n \notin counted
  PROVE  \A n \in 0 .. Len(events) : Replayed(events, of, v, counted)[n] = << >>
<1> DEFINE f == Replayed(events, of, v, counted)
           T == {n \in 0 .. Len(events) : f[n] # << >>}
<1>1. /\ f[0] = << >>
      /\ \A n \in 1 .. Len(events) : f[n] = Turn(f[n - 1], events, of, v, counted, n)
  BY FoldDefined
<1> HIDE DEF f
<1>2. SUFFICES ASSUME T # {}  PROVE FALSE
  BY DEF f
<1>3. T \subseteq Nat  OBVIOUS
<1>4. PICK k \in T : \A y \in T : k <= y  BY <1>2, <1>3, LeastElement
<1>5. k \in 0 .. Len(events) /\ f[k] # << >>  OBVIOUS
<1>6. k # 0  BY <1>1, <1>5
<1>7. k \in 1 .. Len(events) /\ k - 1 \in 0 .. Len(events) /\ ~(k <= k - 1)  BY <1>5, <1>6
<1>8. f[k - 1] = << >>  BY <1>4, <1>7
<1> QED  BY <1>1, <1>5, <1>7, <1>8 DEF Turn

\* The steps of the chain take a payload from its stored shape to the current one.
LEMMA UpcastEndsInShape ==
  ASSUME NEW event \in Events, event.payload = StoredVersion(event)
  PROVE  upcastEvent(event, Chain) = InShape(event)
<1> DEFINE stored == StoredVersion(event)
           P(f) == f = [i \in 0 .. Chain |->
                          IF i < stored THEN event.payload ELSE Step(i, f[i - 1])]
           F == CHOOSE f : P(f)
<1>1. Chain \in Nat  BY ReadsAssumption
<1>2. stored \in 1 .. (Chain + 1) /\ event.payload = stored
  BY <1>1 DEF Events, StoredVersion, Absent
<1>3. CASE Chain = 0 \/ stored >= Chain + 1
  <2>1. stored = Chain + 1  BY <1>1, <1>2, <1>3
  <2>2. upcastEvent(event, Chain) = event
    BY <1>3 DEF upcastEvent, currentEventVersion
  <2>3. InShape(event) = event
    BY <1>2, <2>1 DEF InShape, currentEventVersion, Events
  <2> QED  BY <2>2, <2>3
<1>4. CASE ~(Chain = 0 \/ stored >= Chain + 1)
  <2>1. upcastEvent(event, Chain) = [event EXCEPT !.payload = F[Chain]]
    BY <1>4 DEF upcastEvent, currentEventVersion
  <2>2. P(F)
    <3> DEFINE g == [i \in 0 .. Chain |-> IF i < stored THEN stored ELSE i + 1]
               h == [i \in 0 .. Chain |-> IF i < stored THEN event.payload ELSE Step(i, g[i - 1])]
    <3>1. ASSUME NEW i \in 0 .. Chain  PROVE g[i] = h[i]
      <4>1. CASE i < stored  BY <1>2, <4>1
      <4>2. CASE ~(i < stored)
        <5>1. i - 1 \in 0 .. Chain /\ i \in Nat /\ stored \in Nat  BY <1>1, <1>2, <4>2
        <5>2. g[i - 1] = i  BY <4>2, <5>1
        <5>3. h[i] = Step(i, i)  BY <4>2, <5>2
        <5> QED  BY <4>2, <5>3 DEF Step
      <4> QED  BY <4>1, <4>2
    <3>2. P(g)  BY <3>1, Zenon
    <3> HIDE DEF P, g
    <3>3. \E f : P(f)  BY <3>2
    <3> QED  BY <3>3, Zenon
  <2>3. F = [i \in 0 .. Chain |-> IF i < stored THEN event.payload ELSE Step(i, F[i - 1])]
    BY <2>2
  <2> DEFINE T == {i \in stored .. Chain : F[i] # i + 1}
  <2> HIDE DEF F, stored
  <2>4. T = {}
    <3> SUFFICES ASSUME T # {}  PROVE FALSE
      OBVIOUS
    <3>1. T \subseteq Nat  BY <1>1, <1>2
    <3>2. PICK k \in T : \A y \in T : k <= y  BY <3>1, LeastElement
    <3>3. k \in stored .. Chain /\ F[k] # k + 1  OBVIOUS
    <3>4. k \in Nat /\ k \in 0 .. Chain /\ k - 1 \in 0 .. Chain /\ ~(k < stored) /\ ~(k <= k - 1)
      BY <1>1, <1>2, <3>3
    <3>5. F[k] = Step(k, F[k - 1])  BY <2>3, <3>4
    <3>6. F[k - 1] = k
      <4>1. CASE k = stored
        <5>1. k - 1 < stored  BY <3>4, <4>1
        <5> QED  BY <1>2, <2>3, <3>4, <4>1, <5>1
      <4>2. CASE k # stored
        <5>1. k - 1 \in stored .. Chain  BY <1>1, <1>2, <3>3, <4>2
        <5>2. k - 1 \notin T  BY <3>2, <3>4
        <5>3. F[k - 1] = (k - 1) + 1  BY <5>1, <5>2
        <5> QED  BY <3>4, <5>3
      <4> QED  BY <4>1, <4>2
    <3> QED  BY <3>3, <3>5, <3>6 DEF Step
  <2>5. Chain \in stored .. Chain  BY <1>1, <1>2, <1>4
  <2>6. F[Chain] = Chain + 1  BY <2>4, <2>5
  <2> QED  BY <2>1, <2>6 DEF InShape, currentEventVersion
<1> QED  BY <1>3, <1>4

-----------------------------------------------------------------------------
(* What the steps have in common.                                          *)

\* The equation of the fold over the log as it stands.
LEMMA CurrentTurns ==
  ASSUME LogInv, NEW v
  PROVE  /\ Current(v)[0] = << >>
         /\ \A n \in 1 .. Len(log) :
              Current(v)[n] = IF viewOf[log[n].agg] = v
                              THEN Reduce(Current(v)[n - 1], InShape(log[n]), n)
                              ELSE Current(v)[n - 1]
<1>1. Len(log) \in Nat /\ DOMAIN log = 1 .. Len(log)  BY DEF LogInv
<1> QED  BY <1>1, FoldDefined DEF Current, Turn

\* Steps that leave the log alone leave what the views should hold alone.
LEMMA LogUntouched ==
  ASSUME ReadsInv, UNCHANGED <<reader, viewOf, log, found>>
  PROVE  /\ LogInv' /\ Unreadable' = Unreadable
         /\ \A v : Current(v)' = Current(v) /\ CurrentStrong(v)' = CurrentStrong(v)
         /\ \A v : Replay(v, DOMAIN log)' = Current(v)[Len(log)]
BY DEF ReadsInv, LogInv, Unreadable, Current, CurrentStrong, Replay

\* A step of one dispatchCommand call that changes nothing else.
OnlyWriter(w) ==
    /\ writer' = [x \in Writers |-> writer'[x]]
    /\ \A x \in Writers : x # w => writer'[x] = writer[x]
    /\ UNCHANGED all_but_writer

LEMMA WriterOnly ==
  ASSUME ReadsInv, NEW w \in Writers, OnlyWriter(w)
  PROVE  /\ LogInv' /\ StoreInv' /\ RebuildInv' /\ BusInv'
         /\ WriterOK(w)' => WriterInv'
         /\ \A p \in Names : Restored(p)'
         /\ \A p \in Names : \A x \in Writers \ {w} : Walk(x, p)'
         /\ \A v : Current(v)' = Current(v) /\ CurrentStrong(v)' = CurrentStrong(v)
         /\ \A v : Replay(v, DOMAIN log)' = Current(v)[Len(log)]
<1> USE DEF all_but_writer, OnlyWriter
<1>1. /\ LogInv' /\ Unreadable' = Unreadable
      /\ \A v : Current(v)' = Current(v) /\ CurrentStrong(v)' = CurrentStrong(v)
      /\ \A v : Replay(v, DOMAIN log)' = Current(v)[Len(log)]
  BY LogUntouched
<1>2. StoreInv'  BY DEF ReadsInv, StoreInv, IsFcn
<1>3. RebuildInv'  BY DEF ReadsInv, RebuildInv, RebuildOK, IsFcn
<1>4. BusInv'  BY DEF ReadsInv, BusInv
<1>5. ASSUME NEW p \in Names  PROVE Restored(p)'
  <2>1. Restored(p)  BY DEF ReadsInv
  <2> QED  BY <1>1, <2>1 DEF Restored
<1>6. ASSUME NEW p \in Names, NEW x \in Writers \ {w}  PROVE Walk(x, p)'
  <2>1. Walk(x, p)  BY DEF ReadsInv
  <2>2. writer'[x] = writer[x]  OBVIOUS
  <2> QED  BY <1>1, <2>1, <2>2 DEF Walk, Walked, Publishing
<1>7. ASSUME NEW x \in Writers \ {w}  PROVE WriterOK(x)'
  <2>1. WriterOK(x) /\ writer'[x] = writer[x]  BY DEF ReadsInv, WriterInv
  <2> QED  BY <2>1 DEF WriterOK, InTransaction, Publishing
<1>8. WriterOK(w)' => WriterInv'  BY <1>7 DEF WriterInv, IsFcn
<1> QED  BY <1>1, <1>2, <1>3, <1>4, <1>5, <1>6, <1>8

-----------------------------------------------------------------------------
(* The start.                                                              *)

\* At the start the views hold what the counted part of the log says, or are uncovered.
LEMMA ReadsStart == ReadsInit => ReadsInv
<1> SUFFICES ASSUME ReadsInit  PROVE ReadsInv
  OBVIOUS
<1> USE ReadsAssumption
<1>1. log \in Seq(Events) /\ Len(log) \in Nat /\ found = Len(log)
      /\ \A n \in 1 .. Len(log) : log[n].payload = StoredVersion(log[n])
  <2>1. CASE log = << >>  BY <2>1 DEF ReadsInit
  <2>2. CASE log = History
    <3>1. DOMAIN History = 1 .. Len(History)  OBVIOUS
    <3> QED  BY <2>2, <3>1 DEF ReadsInit
  <2> QED  BY <2>1, <2>2 DEF ReadsInit
<1>2. LogInv  BY <1>1 DEF ReadsInit, LogInv
<1>3. StoreInv  BY DEF ReadsInit, StoreInv, IsFcn
<1>4. \A w \in Writers : writer[w].pc = "idle"  BY DEF ReadsInit, Idle
<1>5. WriterInv  BY <1>4 DEF ReadsInit, WriterInv, WriterOK, IsFcn, InTransaction, Publishing
<1>6. \A p \in Names : rebuild[p] = NotRebuilding /\ rebuild[p].pc = "no"
  BY DEF ReadsInit, NotRebuilding
<1>7. RebuildInv  BY <1>6 DEF ReadsInit, RebuildInv, RebuildOK, IsFcn
<1>8. bus \in Seq(Names) /\ DOMAIN bus = 1 .. Len(bus) /\ bus = Projections
  BY DEF ReadsInit
<1>9. \A p \in Names : \E i \in 1 .. Len(bus) : bus[i] = p
  BY <1>8 DEF Names, Range
<1>10. BusInv  BY <1>6, <1>8, <1>9 DEF BusInv
<1>11. \A v \in Views : strong[v] = CurrentStrong(v)[Len(log)]
  <2> TAKE v \in Views
  <2>1. \A n \in 1 .. Len(log) : n \notin (found + 1) .. Len(log)  BY <1>1
  <2>2. Replayed(log, viewOf, v, (found + 1) .. Len(log))[Len(log)] = << >>
    BY <1>1, <2>1, FoldNothing
  <2> QED  BY <2>2 DEF ReadsInit, CurrentStrong
<1>12. StrongInv  BY <1>2, <1>4, <1>11 DEF StrongInv, InTransaction, LogInv
<1>13. Alone  BY <1>4, <1>6 DEF Alone, Publishing
<1>14. ASSUME NEW p \in Names, NEW v \in Views, v \notin adrift[p]
       PROVE  eventual[p][v] = Replay(v, DOMAIN log)
  <2>1. log = << >> /\ eventual[p][v] = << >> /\ Len(log) = 0  BY <1>14 DEF ReadsInit
  <2>2. Current(v)[0] = << >>  BY <1>2, CurrentTurns
  <2> QED  BY <2>1, <2>2 DEF Current, Replay
<1>15. ViewsCurrent  BY <1>14 DEF ViewsCurrent
<1>16. \A p \in Names : Restored(p) /\ \A w \in Writers : Walk(w, p)
  BY <1>4, <1>6 DEF Restored, Walk, Publishing
<1> QED  BY <1>2, <1>3, <1>5, <1>7, <1>10, <1>12, <1>13, <1>15, <1>16 DEF ReadsInv

-----------------------------------------------------------------------------
(* Commands.                                                               *)

\* Until its commit a command is invisible to publications and rebuilds.
LEMMA BeforeCommit ==
  ASSUME ReadsInv, NEW w \in Writers, OnlyWriter(w),
         ~Publishing(w), ~Publishing(w)', WriterOK(w)', StrongInv'
  PROVE  ReadsInv'
<1>1. /\ LogInv' /\ StoreInv' /\ WriterInv' /\ RebuildInv' /\ BusInv'
      /\ \A p \in Names : Restored(p)'
      /\ \A p \in Names : \A x \in Writers \ {w} : Walk(x, p)'
      /\ \A v : Replay(v, DOMAIN log)' = Current(v)[Len(log)]
  BY WriterOnly
<1>2. \A x \in Writers : x # w => writer'[x] = writer[x]  BY DEF OnlyWriter
<1>3. \A x \in Writers : Publishing(x)' <=> Publishing(x)
  BY <1>2 DEF Publishing
<1>4. \A x \in Writers : Publishing(x) => writer'[x] = writer[x]  BY <1>2
<1>5. UNCHANGED all_but_writer  BY DEF OnlyWriter
<1>6. Alone'
  <2>1. Alone  BY DEF ReadsInv
  <2> QED  BY <1>3, <1>4, <1>5, <2>1 DEF Alone, all_but_writer
<1>7. ViewsCurrent'
  <2>1. ViewsCurrent  BY DEF ReadsInv
  <2>2. SUFFICES ASSUME NEW p \in Names, NEW v \in Views,
                        rebuild[p].pc = "no", v \notin adrift[p],
                        \A x \in Writers : Publishing(x) => viewOf[writer[x].agg] # v
                 PROVE  eventual[p][v] = Current(v)[Len(log)]
    BY <1>1, <1>3, <1>4, <1>5 DEF ViewsCurrent, all_but_writer
  <2> QED  BY <2>1, <2>2 DEF ViewsCurrent, Replay, Current
<1>8. \A p \in Names : Walk(w, p)'  BY DEF Walk
<1>9. \A p \in Names : \A x \in Writers : Walk(x, p)'  BY <1>1, <1>8
<1> QED  BY <1>1, <1>6, <1>7, <1>9 DEF ReadsInv

\* A command starts its transaction: no other on its aggregate is open.
LEMMA StepDispatch ==
  ASSUME ReadsInv, NEW w \in Writers, NEW a \in Aggregates, NEW kind \in Kinds,
         DispatchCommand(w, a, kind)
  PROVE  ReadsInv'
<1>1. IsFcn(writer, Writers) /\ StrongInv  BY DEF ReadsInv, WriterInv
<1>2. OnlyWriter(w)  BY <1>1 DEF DispatchCommand, OnlyWriter, IsFcn
<1>3. writer'[w] = [pc |-> "inserted", agg |-> a, kind |-> kind] /\ writer[w].pc = "idle"
  BY <1>1 DEF DispatchCommand, IsFcn
<1>4. ~Publishing(w) /\ ~Publishing(w)' /\ WriterOK(w)'
  BY <1>3 DEF Publishing, InTransaction, WriterOK
<1>5. StrongInv'
  <2>1. \A x \in Writers : InTransaction(x) => writer[x].agg # a  BY DEF DispatchCommand
  <2>2. \A x \in Writers : x # w => writer'[x] = writer[x] /\ (InTransaction(x)' <=> InTransaction(x))
    BY <1>2 DEF InTransaction, OnlyWriter
  <2>3. writer'[w].agg = a /\ writer'[w].pc # "loaded"  BY <1>3
  <2>4. \A x, y \in Writers :
          InTransaction(x)' /\ InTransaction(y)' /\ writer'[x].agg = writer'[y].agg => x = y
    BY <1>1, <2>1, <2>2, <2>3 DEF StrongInv
  <2>5. \A v : CurrentStrong(v)' = CurrentStrong(v)  BY <1>2, WriterOnly
  <2> QED
    BY <1>1, <1>2, <2>2, <2>3, <2>4, <2>5 DEF StrongInv, Feeds, OnlyWriter, all_but_writer
<1> QED  BY <1>2, <1>4, <1>5, BeforeCommit

\* The thunk loads the view that its commit will replace.
LEMMA StepStrongLoad ==
  ASSUME ReadsInv, NEW w \in Writers, StrongLoad(w)
  PROVE  ReadsInv'
<1>1. IsFcn(writer, Writers) /\ StrongInv /\ WriterOK(w)  BY DEF ReadsInv, WriterInv
<1>2. OnlyWriter(w)  BY <1>1 DEF StrongLoad, OnlyWriter, IsFcn
<1>3. /\ writer'[w] = [pc |-> "loaded", agg |-> writer[w].agg, kind |-> writer[w].kind,
                       view |-> strong[viewOf[writer[w].agg]]]
      /\ writer[w].pc = "inserted"
  BY <1>1 DEF StrongLoad, IsFcn
<1>4. ~Publishing(w) /\ ~Publishing(w)' /\ WriterOK(w)'
  BY <1>1, <1>3 DEF Publishing, InTransaction, WriterOK
<1>5. StrongInv'
  <2>1. \A x \in Writers : x # w => writer'[x] = writer[x]  BY <1>2 DEF OnlyWriter
  <2>2. \A x \in Writers : writer'[x].agg = writer[x].agg /\ (InTransaction(x)' <=> InTransaction(x))
    BY <1>3, <2>1 DEF InTransaction
  <2>3. writer'[w].view = strong[viewOf[writer[w].agg]]  BY <1>3
  <2>4. \A v : CurrentStrong(v)' = CurrentStrong(v)  BY <1>2, WriterOnly
  <2> QED
    BY <1>1, <1>2, <2>1, <2>2, <2>3, <2>4 DEF StrongInv, Feeds, OnlyWriter, all_but_writer
<1> QED  BY <1>2, <1>4, <1>5, BeforeCommit

\* A rolled back command leaves no trace.
LEMMA StepCommandFails ==
  ASSUME ReadsInv, NEW w \in Writers, CommandFails(w)
  PROVE  ReadsInv'
<1>1. IsFcn(writer, Writers) /\ StrongInv  BY DEF ReadsInv, WriterInv
<1>2. OnlyWriter(w)  BY <1>1 DEF CommandFails, OnlyWriter, IsFcn
<1>3. writer'[w].pc = "idle" /\ InTransaction(w)  BY <1>1 DEF CommandFails, IsFcn, Idle
<1>4. ~Publishing(w) /\ ~Publishing(w)' /\ WriterOK(w)'
  BY <1>3 DEF Publishing, InTransaction, WriterOK
<1>5. StrongInv'
  <2>1. \A x \in Writers : x # w => writer'[x] = writer[x]  BY <1>2 DEF OnlyWriter
  <2>2. \A x \in Writers : InTransaction(x)' => x # w /\ InTransaction(x)
    BY <1>3, <2>1 DEF InTransaction
  <2>3. \A v : CurrentStrong(v)' = CurrentStrong(v)  BY <1>2, WriterOnly
  <2> QED
    BY <1>1, <1>2, <1>3, <2>1, <2>2, <2>3 DEF StrongInv, Feeds, OnlyWriter, all_but_writer
<1> QED  BY <1>2, <1>4, <1>5, BeforeCommit

-----------------------------------------------------------------------------
(* Publications.                                                           *)

\* Steps outside the transactions.
LEMMA StrongKept ==
  ASSUME ReadsInv, UNCHANGED <<reader, viewOf, log, found, strong>>,
         \A x \in Writers : InTransaction(x)' => InTransaction(x) /\ writer'[x] = writer[x]
  PROVE  StrongInv'
<1>1. StrongInv  BY DEF ReadsInv
<1>2. \A v : CurrentStrong(v)' = CurrentStrong(v)  BY LogUntouched
<1>3. \A x \in Writers : writer'[x].pc = "loaded" => InTransaction(x)'  BY DEF InTransaction
<1> QED  BY <1>1, <1>2, <1>3 DEF StrongInv, Feeds

\* The handler at the publication's place on the bus loads its view.
LEMMA StepDeliver ==
  ASSUME ReadsInv, NEW w \in Writers, Deliver(w)
  PROVE  ReadsInv'
<1> DEFINE b == bus[writer[w].at]
<1>1. IsFcn(writer, Writers) /\ WriterOK(w)  BY DEF ReadsInv, WriterInv
<1>2. OnlyWriter(w)  BY <1>1 DEF Deliver, OnlyWriter, IsFcn
<1>3. /\ writer'[w] = [pc |-> "applying", agg |-> writer[w].agg, n |-> writer[w].n,
                       at |-> writer[w].at, by |-> b, view |-> eventual[b][viewOf[writer[w].agg]]]
      /\ writer[w].pc = "publishing" /\ writer[w].at <= Len(bus)
  BY <1>1 DEF Deliver, IsFcn
<1>4. /\ LogInv' /\ StoreInv' /\ RebuildInv' /\ BusInv'
      /\ WriterOK(w)' => WriterInv'
      /\ \A p \in Names : Restored(p)'
      /\ \A p \in Names : \A x \in Writers \ {w} : Walk(x, p)'
      /\ \A v : Current(v)' = Current(v)
      /\ \A v : Replay(v, DOMAIN log)' = Current(v)[Len(log)]
  BY <1>2, WriterOnly
<1>5. writer[w].at \in 1 .. Len(bus) /\ b \in Names
  BY <1>1, <1>3 DEF WriterOK, Publishing, ReadsInv, BusInv
<1>6. /\ writer'[w].pc = "applying" /\ writer'[w].agg = writer[w].agg
      /\ writer'[w].n = writer[w].n /\ writer'[w].at = writer[w].at
      /\ writer'[w].by = b /\ writer'[w].view = eventual[b][viewOf[writer[w].agg]]
  BY <1>3
<1>7. UNCHANGED all_but_writer /\ \A x \in Writers : x # w => writer'[x] = writer[x]
  BY <1>2 DEF OnlyWriter
<1> HIDE DEF b
<1>8. WriterOK(w)'
  BY <1>1, <1>3, <1>5, <1>6, <1>7 DEF WriterOK, Publishing, InTransaction, all_but_writer
<1>9. \A x \in Writers : writer'[x].agg = writer[x].agg /\ (Publishing(x)' <=> Publishing(x))
  BY <1>3, <1>6, <1>7 DEF Publishing
<1>10. StrongInv'
  <2>1. \A x \in Writers : InTransaction(x)' => InTransaction(x) /\ writer'[x] = writer[x]
    BY <1>6, <1>7 DEF InTransaction
  <2> QED  BY <1>7, <2>1, StrongKept DEF all_but_writer
<1>11. Alone'
  <2>1. Alone  BY DEF ReadsInv
  <2> QED  BY <1>7, <1>9, <2>1 DEF Alone, all_but_writer
<1>12. ViewsCurrent'
  <2>1. ViewsCurrent  BY DEF ReadsInv
  <2>2. SUFFICES ASSUME NEW p \in Names, NEW v \in Views,
                        rebuild[p].pc = "no", v \notin adrift[p],
                        \A x \in Writers : Publishing(x) => viewOf[writer[x].agg] # v
                 PROVE  eventual[p][v] = Current(v)[Len(log)]
    BY <1>4, <1>7, <1>9 DEF ViewsCurrent, all_but_writer
  <2> QED  BY <2>1, <2>2 DEF ViewsCurrent, Replay, Current
<1>13. ASSUME NEW p \in Names  PROVE Walk(w, p)'
  <2>1. Walk(w, p)  BY DEF ReadsInv
  <2>2. Publishing(w)  BY <1>3 DEF Publishing
  <2>3. UNCHANGED <<viewOf, log, eventual, bus, rebuild, adrift>>  BY <1>7 DEF all_but_writer
  <2>4. ASSUME NEW v \in Views, viewOf[writer[w].agg] = v, v \notin adrift[p]
        PROVE  Walked(w, p, v)'
    <3>1. Walked(w, p, v)  BY <2>1, <2>2, <2>4 DEF Walk
    <3>2. Current(v)' = Current(v)  BY <1>4
    <3>3. writer'[w].by = p => writer'[w].view = eventual[p][v]  BY <1>6, <2>4
    <3> QED  BY <1>5, <1>6, <2>3, <3>1, <3>2, <3>3 DEF Walked, b
  <2> QED  BY <1>6, <2>3, <2>4 DEF Walk
<1>14. \A p \in Names : \A x \in Writers : Walk(x, p)'  BY <1>4, <1>13
<1> QED  BY <1>4, <1>8, <1>10, <1>11, <1>12, <1>14 DEF ReadsInv

\* A publication at the end of the bus has reached every handler.
LEMMA StepPublished ==
  ASSUME ReadsInv, NEW w \in Writers, Published(w)
  PROVE  ReadsInv'
<1>1. IsFcn(writer, Writers) /\ WriterOK(w)  BY DEF ReadsInv, WriterInv
<1>2. OnlyWriter(w)  BY <1>1 DEF Published, OnlyWriter, IsFcn
<1>3. writer'[w].pc = "idle" /\ writer[w].pc = "publishing" /\ writer[w].at > Len(bus)
  BY <1>1 DEF Published, IsFcn, Idle
<1>4. /\ LogInv' /\ StoreInv' /\ RebuildInv' /\ BusInv'
      /\ WriterOK(w)' => WriterInv'
      /\ \A p \in Names : Restored(p)'
      /\ \A p \in Names : \A x \in Writers \ {w} : Walk(x, p)'
      /\ \A v : Replay(v, DOMAIN log)' = Current(v)[Len(log)]
  BY <1>2, WriterOnly
<1>5. UNCHANGED all_but_writer /\ \A x \in Writers : x # w => writer'[x] = writer[x]
  BY <1>2 DEF OnlyWriter
<1>6. WriterOK(w)'  BY <1>3 DEF WriterOK, Publishing, InTransaction
<1>7. \A x \in Writers : Publishing(x)' <=> x # w /\ Publishing(x)
  BY <1>3, <1>5 DEF Publishing
<1>8. StrongInv'
  <2>1. \A x \in Writers : InTransaction(x)' => InTransaction(x) /\ writer'[x] = writer[x]
    BY <1>3, <1>5 DEF InTransaction
  <2> QED  BY <1>5, <2>1, StrongKept DEF all_but_writer
<1>9. Alone'
  <2>1. Alone  BY DEF ReadsInv
  <2> QED  BY <1>5, <1>7, <2>1 DEF Alone, all_but_writer
<1>10. ViewsCurrent'
  <2>1. ViewsCurrent  BY DEF ReadsInv
  <2>2. SUFFICES ASSUME NEW p \in Names, NEW v \in Views,
                        rebuild[p].pc = "no", v \notin adrift[p],
                        \A x \in Writers : x # w /\ Publishing(x) => viewOf[writer[x].agg] # v
                 PROVE  eventual[p][v] = Current(v)[Len(log)]
    BY <1>4, <1>5, <1>7 DEF ViewsCurrent, all_but_writer
  <2>3. CASE viewOf[writer[w].agg] # v
    BY <2>1, <2>2, <2>3 DEF ViewsCurrent, Replay, Current
  <2>4. CASE viewOf[writer[w].agg] = v
    <3>1. Walk(w, p) /\ BusInv /\ Publishing(w)  BY <1>3 DEF ReadsInv, Publishing
    <3>2. PICK i \in 1 .. Len(bus) : bus[i] = p  BY <2>2, <3>1 DEF BusInv
    <3>3. i < writer[w].at
      BY <1>1, <1>3, <3>1 DEF WriterOK, BusInv
    <3> QED  BY <2>2, <2>4, <3>1, <3>2, <3>3 DEF Walk, Walked
  <2> QED  BY <2>3, <2>4
<1>11. \A p \in Names : Walk(w, p)'  BY <1>7 DEF Walk
<1>12. \A p \in Names : \A x \in Writers : Walk(x, p)'  BY <1>4, <1>11
<1> QED  BY <1>4, <1>6, <1>8, <1>9, <1>10, <1>12 DEF ReadsInv

\* A publication moves on: it stays on its event and on its view.
LEMMA MovesOn ==
  ASSUME ReadsInv, NEW w \in Writers, writer[w].pc = "applying",
         writer' = [writer EXCEPT ![w] = Onwards(w)],
         UNCHANGED <<reader, viewOf, log, strong, bus, rebuild, found>>
  PROVE  /\ WriterInv' /\ RebuildInv' /\ BusInv' /\ StrongInv'
         /\ Publishing(w) /\ WriterOK(w) /\ writer[w].by \in Names
         /\ viewOf[writer[w].agg] \in Views
         /\ \A x \in Writers : x # w => writer'[x] = writer[x]
         /\ \A x \in Writers : writer'[x].agg = writer[x].agg /\ (Publishing(x)' <=> Publishing(x))
         /\ writer'[w].pc = "publishing" /\ writer'[w].n = writer[w].n
         /\ writer'[w].at = writer[w].at + 1
<1>1. IsFcn(writer, Writers) /\ WriterOK(w)  BY DEF ReadsInv, WriterInv
<1>2. Publishing(w) /\ writer[w].by \in Names /\ writer[w].agg \in Aggregates
      /\ writer[w].at \in Nat \ {0}
  BY <1>1 DEF WriterOK, Publishing
<1>3. viewOf[writer[w].agg] \in Views  BY <1>2 DEF ReadsInv, LogInv
<1>4. \A x \in Writers : x # w => writer'[x] = writer[x]  BY <1>1 DEF IsFcn
<1>5. /\ writer'[w].pc = "publishing" /\ writer'[w].n = writer[w].n
      /\ writer'[w].agg = writer[w].agg /\ writer'[w].at = writer[w].at + 1
  BY <1>1 DEF IsFcn, Onwards
<1>6. \A x \in Writers : writer'[x].agg = writer[x].agg /\ (Publishing(x)' <=> Publishing(x))
  BY <1>2, <1>4, <1>5 DEF Publishing
<1>7. WriterInv'
  <2>1. WriterOK(w)'  BY <1>1, <1>2, <1>5 DEF WriterOK, Publishing, InTransaction
  <2>2. ASSUME NEW x \in Writers, x # w  PROVE WriterOK(x)'
    <3>1. WriterOK(x) /\ writer'[x] = writer[x]  BY <1>4, <2>2 DEF ReadsInv, WriterInv
    <3> QED  BY <3>1 DEF WriterOK, Publishing, InTransaction
  <2>3. writer' = [x \in Writers |-> writer'[x]]  BY <1>1 DEF IsFcn
  <2> QED  BY <2>1, <2>2, <2>3 DEF WriterInv, IsFcn
<1>8. StrongInv'
  <2>1. \A x \in Writers : InTransaction(x)' => InTransaction(x) /\ writer'[x] = writer[x]
    BY <1>4, <1>5 DEF InTransaction
  <2> QED  BY <2>1, StrongKept
<1>9. RebuildInv'  BY DEF ReadsInv, RebuildInv, RebuildOK, IsFcn
<1>10. BusInv'  BY DEF ReadsInv, BusInv
<1> QED  BY <1>1, <1>2, <1>3, <1>4, <1>5, <1>6, <1>7, <1>8, <1>9, <1>10

\* A handler that throws leaves its own view uncovered and no other.
LEMMA StepThrows ==
  ASSUME ReadsInv, NEW w \in Writers, ProjectionThrows(w)
  PROVE  ReadsInv'
<1>1. /\ writer[w].pc = "applying" /\ writer' = [writer EXCEPT ![w] = Onwards(w)]
      /\ UNCHANGED <<reader, viewOf, log, strong, eventual, bus, rebuild, found>>
  BY DEF ProjectionThrows
<1>2. /\ WriterInv' /\ RebuildInv' /\ BusInv' /\ StrongInv'
      /\ Publishing(w) /\ WriterOK(w) /\ writer[w].by \in Names
      /\ viewOf[writer[w].agg] \in Views
      /\ \A x \in Writers : x # w => writer'[x] = writer[x]
      /\ \A x \in Writers : writer'[x].agg = writer[x].agg /\ (Publishing(x)' <=> Publishing(x))
      /\ writer'[w].pc = "publishing" /\ writer'[w].n = writer[w].n
      /\ writer'[w].at = writer[w].at + 1
  BY <1>1, MovesOn
<1>3. /\ LogInv' /\ Unreadable' = Unreadable
      /\ \A v : Current(v)' = Current(v)
      /\ \A v : Replay(v, DOMAIN log)' = Current(v)[Len(log)]
  BY <1>1, LogUntouched
<1>4. adrift \in [Names -> SUBSET Views]  BY DEF ReadsInv, StoreInv
<1>5. /\ adrift' \in [Names -> SUBSET Views]
      /\ \A p \in Names : adrift[p] \subseteq adrift'[p]
      /\ viewOf[writer[w].agg] \in adrift'[writer[w].by]
  BY <1>2, <1>4 DEF ProjectionThrows
<1>6. StoreInv'  BY <1>1, <1>5 DEF ReadsInv, StoreInv, IsFcn
<1>7. Alone'
  <2>1. Alone  BY DEF ReadsInv
  <2> QED  BY <1>1, <1>2, <1>5, <2>1 DEF Alone
<1>8. ViewsCurrent'
  <2>1. ViewsCurrent  BY DEF ReadsInv
  <2>2. SUFFICES ASSUME NEW p \in Names, NEW v \in Views,
                        rebuild[p].pc = "no", v \notin adrift'[p],
                        \A x \in Writers : Publishing(x) => viewOf[writer[x].agg] # v
                 PROVE  eventual[p][v] = Current(v)[Len(log)]
    BY <1>1, <1>2, <1>3 DEF ViewsCurrent
  <2> QED  BY <1>5, <2>1, <2>2 DEF ViewsCurrent, Replay, Current
<1>9. ASSUME NEW p \in Names  PROVE Restored(p)'
  <2>1. Restored(p)  BY DEF ReadsInv
  <2> QED  BY <1>1, <1>3, <1>5, <2>1 DEF Restored
<1>10. ASSUME NEW p \in Names, NEW x \in Writers, NEW v \in Views,
              Publishing(x), viewOf[writer[x].agg] = v, v \notin adrift'[p]
       PROVE  Walked(x, p, v)'
  <2>1. Walk(x, p)  BY DEF ReadsInv
  <2>2. Walked(x, p, v) /\ Current(v)' = Current(v)  BY <1>3, <1>5, <1>10, <2>1 DEF Walk
  <2>3. CASE x # w
    <3>1. writer'[x] = writer[x]  BY <1>2, <2>3
    <3> QED  BY <1>1, <2>2, <3>1 DEF Walked
  <2>4. CASE x = w
    <3>1. writer[w].by # p /\ writer[w].by = bus[writer[w].at] /\ writer[w].at \in 1 .. Len(bus)
      BY <1>1, <1>5, <1>10, <2>2, <2>4 DEF Walked
    <3>2. \A i \in 1 .. Len(bus) : bus[i] = p => (i < writer'[w].at <=> i < writer[w].at)
      BY <1>2, <3>1 DEF ReadsInv, BusInv
    <3> QED  BY <1>1, <1>2, <2>2, <2>4, <3>2 DEF Walked
  <2> QED  BY <2>3, <2>4
<1>11. \A p \in Names : \A x \in Writers : Walk(x, p)'  BY <1>1, <1>2, <1>10 DEF Walk
<1> QED  BY <1>2, <1>3, <1>6, <1>7, <1>8, <1>9, <1>11 DEF ReadsInv

\* A handler that succeeds folds the event into the view it loaded.
LEMMA StepProject ==
  ASSUME ReadsInv, NEW w \in Writers, Project(w)
  PROVE  ReadsInv'
<1>1. /\ writer[w].pc = "applying" /\ writer' = [writer EXCEPT ![w] = Onwards(w)]
      /\ UNCHANGED <<reader, viewOf, log, strong, bus, rebuild, found, adrift>>
  BY DEF Project
<1>2. /\ WriterInv' /\ RebuildInv' /\ BusInv' /\ StrongInv'
      /\ Publishing(w) /\ WriterOK(w) /\ writer[w].by \in Names
      /\ viewOf[writer[w].agg] \in Views
      /\ \A x \in Writers : x # w => writer'[x] = writer[x]
      /\ \A x \in Writers : writer'[x].agg = writer[x].agg /\ (Publishing(x)' <=> Publishing(x))
      /\ writer'[w].pc = "publishing" /\ writer'[w].n = writer[w].n
      /\ writer'[w].at = writer[w].at + 1
  BY <1>1, MovesOn
<1>3. /\ LogInv' /\ Unreadable' = Unreadable
      /\ \A v : Current(v)' = Current(v)
      /\ \A v : Replay(v, DOMAIN log)' = Current(v)[Len(log)]
  BY <1>1, LogUntouched
<1>4. StoreInv /\ Alone /\ ViewsCurrent /\ BusInv  BY DEF ReadsInv
<1>5. /\ IsFcn(eventual', Names) /\ \A p \in Names : IsFcn(eventual'[p], Views)
      /\ \A p \in Names : \A v \in Views :
           eventual'[p][v] = IF p = writer[w].by /\ v = viewOf[writer[w].agg]
                             THEN Reduce(writer[w].view, log[writer[w].n], writer[w].n)
                             ELSE eventual[p][v]
  BY <1>2, <1>4 DEF Project, StoreInv, IsFcn
<1>6. StoreInv'  BY <1>1, <1>4, <1>5 DEF StoreInv, IsFcn
<1>7. Alone'  BY <1>1, <1>2, <1>4 DEF Alone
<1>8. ViewsCurrent'
  <2>1. SUFFICES ASSUME NEW p \in Names, NEW v \in Views,
                        rebuild[p].pc = "no", v \notin adrift[p],
                        \A x \in Writers : Publishing(x) => viewOf[writer[x].agg] # v
                 PROVE  eventual'[p][v] = Current(v)[Len(log)]
    BY <1>1, <1>2, <1>3 DEF ViewsCurrent
  <2>2. eventual'[p][v] = eventual[p][v]  BY <1>2, <1>5, <2>1
  <2> QED  BY <1>4, <2>1, <2>2 DEF ViewsCurrent, Replay, Current
<1>9. ASSUME NEW p \in Names  PROVE Restored(p)'
  <2>1. Restored(p) /\ Walk(w, p)  BY DEF ReadsInv
  <2>2. ASSUME NEW v \in Views, rebuild[p].pc \in {"replaying", "folding"},
               rebuild[p].quiet \/ v \notin adrift[p]
        PROVE  eventual'[p][v] = eventual[p][v]
    <3>1. viewOf[writer[w].agg] # v
      BY <1>2, <1>4, <2>1, <2>2 DEF Alone, Walk, Walked
    <3> QED  BY <1>5, <3>1
  <2> QED  BY <1>1, <1>3, <2>1, <2>2 DEF Restored
<1>10. ASSUME NEW p \in Names, NEW x \in Writers, NEW v \in Views,
              Publishing(x), viewOf[writer[x].agg] = v, v \notin adrift[p]
       PROVE  Walked(x, p, v)'
  <2>1. Walk(x, p)  BY DEF ReadsInv
  <2>2. Walked(x, p, v) /\ Current(v)' = Current(v)  BY <1>3, <1>10, <2>1 DEF Walk
  <2>3. CASE x # w
    <3>1. writer'[x] = writer[x]  BY <1>2, <2>3
    <3>2. viewOf[writer[w].agg] # v  BY <1>2, <1>4, <1>10, <2>3 DEF Alone
    <3>3. eventual'[p][v] = eventual[p][v]  BY <1>5, <3>2
    <3> QED  BY <1>1, <2>2, <3>1, <3>3 DEF Walked
  <2>4. CASE x = w /\ writer[w].by # p
    <3>1. writer[w].by = bus[writer[w].at] /\ writer[w].at \in 1 .. Len(bus)
      BY <1>1, <2>2, <2>4 DEF Walked
    <3>2. \A i \in 1 .. Len(bus) : bus[i] = p => (i < writer'[w].at <=> i < writer[w].at)
      BY <1>2, <2>4, <3>1 DEF ReadsInv, BusInv
    <3>3. eventual'[p][v] = eventual[p][v]  BY <1>5, <2>4
    <3> QED  BY <1>1, <1>2, <2>2, <2>4, <3>2, <3>3 DEF Walked
  <2>5. CASE x = w /\ writer[w].by = p
    <3>1. /\ p = bus[writer[w].at] /\ writer[w].at \in 1 .. Len(bus)
          /\ writer[w].view = eventual[p][v]
      BY <1>1, <2>2, <2>5 DEF Walked
    <3>2. writer[w].view = Current(v)[writer[w].n - 1]
      BY <2>2, <2>5, <3>1 DEF Walked
    <3>3. /\ writer[w].n \in 1 .. Len(log) /\ viewOf[log[writer[w].n].agg] = v
          /\ InShape(log[writer[w].n]) = log[writer[w].n]
      BY <1>2, <1>10, <2>5 DEF WriterOK, ReadsInv, LogInv
    <3>4. \A n \in 1 .. Len(log) :
            Current(v)[n] = IF viewOf[log[n].agg] = v
                            THEN Reduce(Current(v)[n - 1], InShape(log[n]), n)
                            ELSE Current(v)[n - 1]
      BY CurrentTurns DEF ReadsInv
    <3>5. Current(v)[writer[w].n] = Reduce(writer[w].view, log[writer[w].n], writer[w].n)
      BY <3>2, <3>3, <3>4
    <3>6. eventual'[p][v] = Current(v)[writer[w].n]  BY <1>5, <1>10, <2>5, <3>5
    <3>7. \A i \in 1 .. Len(bus) : bus[i] = p => i < writer'[w].at
      BY <1>2, <1>4, <3>1 DEF BusInv
    <3> QED  BY <1>1, <1>2, <2>2, <2>5, <3>6, <3>7 DEF Walked
  <2> QED  BY <2>3, <2>4, <2>5
<1>11. \A p \in Names : \A x \in Writers : Walk(x, p)'  BY <1>1, <1>2, <1>10 DEF Walk
<1> QED  BY <1>2, <1>3, <1>6, <1>7, <1>8, <1>9, <1>11 DEF ReadsInv

-----------------------------------------------------------------------------
(* The commit.                                                             *)

\* What a commit adds to the log, and to what the views should hold.
LEMMA CommitLog ==
  ASSUME ReadsInv, NEW w \in Writers, Commit(w), NEW a, a = writer[w].agg,
         NEW event, event = NewEvent(a, writer[w].kind)
  PROVE  /\ LogInv' /\ a \in Aggregates /\ viewOf[a] \in Views
         /\ Len(log') = Len(log) + 1 /\ Len(log) \in Nat
         /\ log'[Len(log) + 1] = event /\ event.agg = a
         /\ \A m \in 1 .. Len(log) : log'[m] = log[m]
         /\ \A v : \A m \in 0 .. Len(log) :
              /\ Current(v)'[m] = Current(v)[m]
              /\ CurrentStrong(v)'[m] = CurrentStrong(v)[m]
         /\ \A v : viewOf[a] = v =>
              /\ Current(v)'[Len(log) + 1] = Reduce(Current(v)[Len(log)], event, Len(log) + 1)
              /\ CurrentStrong(v)'[Len(log) + 1] =
                    Reduce(CurrentStrong(v)[Len(log)], event, Len(log) + 1)
         /\ \A v : viewOf[a] # v =>
              /\ Current(v)'[Len(log) + 1] = Current(v)[Len(log)]
              /\ CurrentStrong(v)'[Len(log) + 1] = CurrentStrong(v)[Len(log)]
<1>1. LogInv /\ WriterOK(w) /\ writer[w].pc = "loaded"  BY DEF ReadsInv, WriterInv, Commit
<1>2. a \in Aggregates /\ writer[w].kind \in Kinds  BY <1>1 DEF WriterOK, InTransaction
<1>3. viewOf[a] \in Views /\ log \in Seq(Events) /\ Len(log) \in Nat  BY <1>1, <1>2 DEF LogInv
<1>4. /\ event \in Events /\ event.agg = a /\ event.payload = StoredVersion(event)
      /\ InShape(event) = event
  BY <1>2, ReadsAssumption
  DEF NewEvent, Events, StoredVersion, Absent, InShape, currentEventVersion
<1>5. log' = Append(log, event) /\ UNCHANGED <<viewOf, found>>  BY DEF Commit
<1>6. /\ log' \in Seq(Events) /\ Len(log') = Len(log) + 1
      /\ \A m \in 1 .. Len(log) : log'[m] = log[m]
      /\ log'[Len(log) + 1] = event
  BY <1>3, <1>4, <1>5, AppendProperties
<1>7. DOMAIN log = 1 .. Len(log) /\ DOMAIN log' = 1 .. (Len(log) + 1)  BY <1>3, <1>6
<1>8. LogInv'
  <2>1. \A n \in 1 .. Len(log') : n \in 1 .. Len(log) \/ n = Len(log) + 1  BY <1>3, <1>6
  <2>2. found \in Nat /\ found <= Len(log')  BY <1>1, <1>3, <1>6 DEF LogInv
  <2>3. \A n \in 1 .. Len(log') : log'[n].payload = StoredVersion(log'[n])
    BY <1>1, <1>4, <1>6, <2>1 DEF LogInv
  <2>4. \A n \in 1 .. Len(log') : found < n => InShape(log'[n]) = log'[n]
    BY <1>1, <1>4, <1>6, <2>1 DEF LogInv
  <2> QED  BY <1>1, <1>5, <1>6, <2>2, <2>3, <2>4 DEF LogInv
<1>9. ASSUME NEW v, NEW old, NEW new, Len(log) + 1 \in new,
             \A n \in 1 .. Len(log) : n \in new <=> n \in old
      PROVE  LET f == Replayed(log, viewOf, v, old)
                 g == Replayed(log', viewOf, v, new)
             IN  /\ \A m \in 0 .. Len(log) : g[m] = f[m]
                 /\ viewOf[a] = v =>
                      g[Len(log) + 1] = Reduce(f[Len(log)], event, Len(log) + 1)
                 /\ viewOf[a] # v => g[Len(log) + 1] = f[Len(log)]
  <2> DEFINE f == Replayed(log, viewOf, v, old)
             g == Replayed(log', viewOf, v, new)
  <2>1. \A m \in 0 .. Len(log) : g[m] = f[m]
    <3>1. \A n \in 1 .. Len(log) : log'[n] = log[n] /\ (n \in new <=> n \in old)  BY <1>6, <1>9
    <3>2. Len(log') \in Nat /\ Len(log) <= Len(log')  BY <1>3, <1>6
    <3> QED  BY <1>3, <3>1, <3>2, FoldPrefix
  <2>2. \A n \in 1 .. Len(log') : g[n] = Turn(g[n - 1], log', viewOf, v, new, n)
    <3>1. Len(log') \in Nat  BY <1>3, <1>6
    <3> QED  BY <3>1, FoldDefined
  <2> HIDE DEF f, g
  <2>3. Len(log) + 1 \in 1 .. Len(log') /\ (Len(log) + 1) - 1 = Len(log)
        /\ Len(log) \in 0 .. Len(log)
    BY <1>3, <1>6
  <2>4. g[Len(log) + 1] = Turn(f[Len(log)], log', viewOf, v, new, Len(log) + 1)
    BY <2>1, <2>2, <2>3
  <2>5. /\ viewOf[a] = v => g[Len(log) + 1] = Reduce(f[Len(log)], event, Len(log) + 1)
        /\ viewOf[a] # v => g[Len(log) + 1] = f[Len(log)]
    BY <1>4, <1>6, <1>9, <2>4 DEF Turn
  <2> QED  BY <2>1, <2>5 DEF f, g
<1>10. ASSUME NEW v
       PROVE  /\ \A m \in 0 .. Len(log) : Current(v)'[m] = Current(v)[m]
              /\ viewOf[a] = v =>
                   Current(v)'[Len(log) + 1] = Reduce(Current(v)[Len(log)], event, Len(log) + 1)
              /\ viewOf[a] # v => Current(v)'[Len(log) + 1] = Current(v)[Len(log)]
  <2> DEFINE old == DOMAIN log
             new == DOMAIN log'
  <2>1. Len(log) + 1 \in new /\ \A n \in 1 .. Len(log) : n \in new <=> n \in old  BY <1>3, <1>7
  <2>2. Current(v) = Replayed(log, viewOf, v, old) /\ Current(v)' = Replayed(log', viewOf, v, new)
    BY <1>5 DEF Current
  <2> HIDE DEF old, new
  <2> QED  BY <1>9, <2>1, <2>2
<1>11. ASSUME NEW v
       PROVE  /\ \A m \in 0 .. Len(log) : CurrentStrong(v)'[m] = CurrentStrong(v)[m]
              /\ viewOf[a] = v => CurrentStrong(v)'[Len(log) + 1] =
                                    Reduce(CurrentStrong(v)[Len(log)], event, Len(log) + 1)
              /\ viewOf[a] # v => CurrentStrong(v)'[Len(log) + 1] = CurrentStrong(v)[Len(log)]
  <2> DEFINE old == (found + 1) .. Len(log)
             new == (found + 1) .. Len(log')
  <2>1. Len(log) + 1 \in new /\ \A n \in 1 .. Len(log) : n \in new <=> n \in old
    BY <1>1, <1>3, <1>6 DEF LogInv
  <2>2. /\ CurrentStrong(v) = Replayed(log, viewOf, v, old)
        /\ CurrentStrong(v)' = Replayed(log', viewOf, v, new)
    BY <1>5 DEF CurrentStrong
  <2> HIDE DEF old, new
  <2> QED  BY <1>9, <2>1, <2>2
<1> QED  BY <1>2, <1>3, <1>4, <1>6, <1>8, <1>10, <1>11

\* A commit disturbs the rebuilds under way: none is quiet any more.
LEMMA CommitDisturbs ==
  ASSUME ReadsInv, NEW w \in Writers, Commit(w)
  PROVE  /\ RebuildInv'
         /\ \A p \in Names :
              /\ rebuild'[p].pc = rebuild[p].pc
              /\ rebuild[p].pc # "no" => ~rebuild'[p].quiet
              /\ rebuild[p].pc \in {"replaying", "folding"} =>
                   rebuild'[p].n = rebuild[p].n /\ rebuild[p].n \in 1 .. Len(log) + 1
              /\ rebuild[p].pc = "folding" =>
                   rebuild'[p].event = rebuild[p].event /\ rebuild'[p].view = rebuild[p].view
<1>1. PICK a : a = writer[w].agg  OBVIOUS
<1>2. PICK event : event = NewEvent(a, writer[w].kind)  OBVIOUS
<1>3. /\ Len(log') = Len(log) + 1 /\ Len(log) \in Nat
      /\ \A m \in 1 .. Len(log) : log'[m] = log[m]
  BY <1>1, <1>2, CommitLog
<1>4. rebuild' = [p \in Names |-> IF rebuild[p].pc # "no"
                                  THEN [rebuild[p] EXCEPT !.quiet = FALSE] ELSE rebuild[p]]
  BY DEF Commit, Rebuilding
<1>5. ASSUME NEW p \in Names
      PROVE  /\ RebuildOK(p)'
             /\ rebuild'[p].pc = rebuild[p].pc
             /\ rebuild[p].pc # "no" => ~rebuild'[p].quiet
             /\ rebuild[p].pc \in {"replaying", "folding"} =>
                  rebuild'[p].n = rebuild[p].n /\ rebuild[p].n \in 1 .. Len(log) + 1
             /\ rebuild[p].pc = "folding" =>
                  rebuild'[p].event = rebuild[p].event /\ rebuild'[p].view = rebuild[p].view
  <2>1. RebuildOK(p)  BY DEF ReadsInv, RebuildInv
  <2>2. CASE rebuild[p] = NotRebuilding
    <3>1. rebuild'[p] = rebuild[p]  BY <1>4, <2>2 DEF NotRebuilding
    <3> QED  BY <2>2, <3>1 DEF RebuildOK, NotRebuilding
  <2>3. CASE rebuild[p] = [pc |-> "detached", quiet |-> rebuild[p].quiet]
    <3>1. rebuild'[p] = [pc |-> "detached", quiet |-> FALSE] /\ rebuild[p].pc = "detached"
      <4>1. PICK q : rebuild[p] = [pc |-> "detached", quiet |-> q]  BY <2>3
      <4>2. rebuild[p].pc = "detached"  BY <4>1
      <4>3. rebuild'[p] = [rebuild[p] EXCEPT !.quiet = FALSE]  BY <1>4, <4>2
      <4> QED  BY <4>1, <4>2, <4>3
    <3> QED  BY <3>1 DEF RebuildOK
  <2>4. CASE /\ rebuild[p] = [pc |-> "replaying", quiet |-> rebuild[p].quiet, n |-> rebuild[p].n]
             /\ rebuild[p].n \in 1 .. Len(log) + 1
    <3>1. /\ rebuild'[p] = [pc |-> "replaying", quiet |-> FALSE, n |-> rebuild[p].n]
          /\ rebuild[p].pc = "replaying"
      <4>1. PICK q, n : rebuild[p] = [pc |-> "replaying", quiet |-> q, n |-> n]  BY <2>4
      <4>2. rebuild[p].pc = "replaying"  BY <4>1
      <4>3. rebuild'[p] = [rebuild[p] EXCEPT !.quiet = FALSE]  BY <1>4, <4>2
      <4> QED  BY <4>1, <4>2, <4>3
    <3>2. rebuild[p].n \in 1 .. Len(log') + 1  BY <1>3, <2>4
    <3> QED  BY <2>4, <3>1, <3>2 DEF RebuildOK
  <2>5. CASE /\ rebuild[p] = [pc |-> "folding", quiet |-> rebuild[p].quiet, n |-> rebuild[p].n,
                              event |-> rebuild[p].event, view |-> rebuild[p].view]
             /\ rebuild[p].n \in 1 .. Len(log) /\ rebuild[p].event = InShape(log[rebuild[p].n])
    <3>1. /\ rebuild'[p] = [pc |-> "folding", quiet |-> FALSE, n |-> rebuild[p].n,
                            event |-> rebuild[p].event, view |-> rebuild[p].view]
          /\ rebuild[p].pc = "folding"
      <4>1. PICK q, n, e, v : rebuild[p] = [pc |-> "folding", quiet |-> q, n |-> n,
                                            event |-> e, view |-> v]
        BY <2>5
      <4>2. rebuild[p].pc = "folding"  BY <4>1
      <4>3. rebuild'[p] = [rebuild[p] EXCEPT !.quiet = FALSE]  BY <1>4, <4>2
      <4> QED  BY <4>1, <4>2, <4>3
    <3>2. rebuild[p].n \in 1 .. Len(log') /\ log'[rebuild[p].n] = log[rebuild[p].n]
          /\ rebuild[p].n \in 1 .. Len(log) + 1
      BY <1>3, <2>5
    <3> QED  BY <2>5, <3>1, <3>2 DEF RebuildOK, InShape
  <2> QED  BY <2>1, <2>2, <2>3, <2>4, <2>5 DEF RebuildOK
<1>6. rebuild' = [p \in Names |-> rebuild'[p]]  BY <1>4
<1>7. RebuildInv'  BY <1>5, <1>6 DEF RebuildInv, IsFcn
<1> QED  BY <1>5, <1>7

\* A commit: its event is durable, the strong view holds it, and its publication begins.
LEMMA StepCommit ==
  ASSUME ReadsInv, NEW w \in Writers, Commit(w)
  PROVE  ReadsInv'
<1>1. PICK a : a = writer[w].agg  OBVIOUS
<1>2. PICK event : event = NewEvent(a, writer[w].kind)  OBVIOUS
<1>3. PICK u : u = viewOf[a]  OBVIOUS
<1>4. /\ LogInv' /\ a \in Aggregates /\ u \in Views
      /\ Len(log') = Len(log) + 1 /\ Len(log) \in Nat
      /\ log'[Len(log) + 1] = event /\ event.agg = a
      /\ \A m \in 1 .. Len(log) : log'[m] = log[m]
      /\ \A v : \A m \in 0 .. Len(log) :
           /\ Current(v)'[m] = Current(v)[m]
           /\ CurrentStrong(v)'[m] = CurrentStrong(v)[m]
      /\ \A v : u = v =>
           CurrentStrong(v)'[Len(log) + 1] =
                 Reduce(CurrentStrong(v)[Len(log)], event, Len(log) + 1)
      /\ \A v : u # v =>
           /\ Current(v)'[Len(log) + 1] = Current(v)[Len(log)]
           /\ CurrentStrong(v)'[Len(log) + 1] = CurrentStrong(v)[Len(log)]
  BY <1>1, <1>2, <1>3, CommitLog
<1>5. /\ RebuildInv'
      /\ \A p \in Names :
           /\ rebuild'[p].pc = rebuild[p].pc
           /\ rebuild[p].pc # "no" => ~rebuild'[p].quiet
           /\ rebuild[p].pc \in {"replaying", "folding"} =>
                rebuild'[p].n = rebuild[p].n /\ rebuild[p].n \in 1 .. Len(log) + 1
           /\ rebuild[p].pc = "folding" =>
                rebuild'[p].event = rebuild[p].event /\ rebuild'[p].view = rebuild[p].view
  BY CommitDisturbs
<1>6. StoreInv /\ WriterInv /\ BusInv /\ StrongInv /\ Alone /\ ViewsCurrent  BY DEF ReadsInv
<1>7. writer[w].pc = "loaded" /\ UNCHANGED <<reader, viewOf, eventual, bus, troubles, found>>
  BY DEF Commit
<1>8. Unreadable' = Unreadable  BY <1>7 DEF Unreadable
<1>9. /\ writer' = [x \in Writers |-> writer'[x]]
      /\ \A x \in Writers : x # w => writer'[x] = writer[x]
      /\ writer'[w] = [pc |-> "publishing", agg |-> a, n |-> Len(log) + 1, at |-> 1]
  BY <1>1, <1>6 DEF Commit, WriterInv, IsFcn
<1>10. /\ writer'[w].pc = "publishing" /\ writer'[w].agg = a
       /\ writer'[w].n = Len(log) + 1 /\ writer'[w].at = 1
  BY <1>9
<1>11. \A x \in Writers : Publishing(x)' <=> x = w \/ Publishing(x)
  BY <1>9, <1>10 DEF Publishing
<1>12. /\ adrift' \in [Names -> SUBSET Views]
       /\ \A p \in Names : adrift[p] \subseteq adrift'[p]
       /\ \A p \in Names : rebuild[p].pc # "no" => u \in adrift'[p]
       /\ \A p \in Names : \A x \in Writers :
            Publishing(x) /\ viewOf[writer[x].agg] = u => u \in adrift'[p]
  <2>1. adrift \in [Names -> SUBSET Views]  BY <1>6 DEF StoreInv
  <2> QED  BY <1>1, <1>3, <1>4, <2>1 DEF Commit, Rebuilding
<1>13. ~Publishing(w)  BY <1>7 DEF Publishing
<1>14. StoreInv'
  <2>1. strong' = [v \in Views |-> strong'[v]]  BY <1>6 DEF Commit, StoreInv, IsFcn
  <2> QED  BY <1>6, <1>7, <1>12, <2>1 DEF StoreInv, IsFcn
<1>15. WriterInv'
  <2>1. WriterOK(w)'
    <3>1. Len(log) + 1 \in 1 .. Len(log') /\ found < Len(log) + 1
      BY <1>4 DEF ReadsInv, LogInv
    <3> QED  BY <1>4, <1>7, <1>10, <3>1 DEF WriterOK, InTransaction, Publishing
  <2>2. ASSUME NEW x \in Writers, x # w  PROVE WriterOK(x)'
    <3>1. WriterOK(x) /\ writer'[x] = writer[x]  BY <1>6, <1>9, <2>2 DEF WriterInv
    <3>2. 1 .. Len(log) \subseteq 1 .. Len(log')  BY <1>4
    <3> QED  BY <1>4, <1>7, <3>1, <3>2 DEF WriterOK, InTransaction, Publishing
  <2> QED  BY <1>9, <2>1, <2>2 DEF WriterInv, IsFcn
<1>16. BusInv'  BY <1>5, <1>6, <1>7 DEF BusInv
<1>17. StrongInv'
  <2>1. \A x \in Writers : InTransaction(x)' => x # w /\ InTransaction(x) /\ writer'[x] = writer[x]
    BY <1>9, <1>10 DEF InTransaction
  <2>2. InTransaction(w)  BY <1>7 DEF InTransaction
  <2>3. strong'[u] = Reduce(writer[w].view, event, Len(log) + 1)
        /\ \A v \in Views : v # u => strong'[v] = strong[v]
    BY <1>1, <1>2, <1>3, <1>4, <1>6 DEF Commit, StoreInv, IsFcn
  <2>4. \A x, y \in Writers :
          InTransaction(x)' /\ InTransaction(y)' /\ writer'[x].agg = writer'[y].agg => x = y
    BY <1>6, <2>1 DEF StrongInv
  <2>5. \A b \in Aggregates : b # a /\ Feeds(b, viewOf[b]) => viewOf[b] # u
    BY <1>3, <1>4 DEF Feeds
  <2>6. \A x \in Writers : writer'[x].pc = "loaded" => InTransaction(x)'  BY DEF InTransaction
  <2>7. ASSUME NEW x \in Writers, writer'[x].pc = "loaded", Feeds(writer'[x].agg, viewOf[writer'[x].agg])
        PROVE  writer'[x].view = strong'[viewOf[writer'[x].agg]]
    <3>1. x # w /\ InTransaction(x) /\ writer'[x] = writer[x]  BY <2>1, <2>6, <2>7
    <3>2. writer[x].agg # a /\ writer[x].agg \in Aggregates
      BY <1>1, <1>6, <2>2, <3>1 DEF StrongInv, WriterInv, WriterOK
    <3>3. viewOf[writer[x].agg] # u /\ viewOf[writer[x].agg] \in Views
      BY <2>5, <2>7, <3>1, <3>2 DEF ReadsInv, LogInv
    <3>4. writer[x].view = strong[viewOf[writer[x].agg]]  BY <1>6, <2>7, <3>1 DEF StrongInv
    <3> QED  BY <2>3, <3>1, <3>3, <3>4
  <2>8. ASSUME NEW b \in Aggregates, NEW v, v = viewOf[b], Feeds(b, v)
        PROVE  strong'[v] = CurrentStrong(v)'[Len(log')]
    <3>1. strong[v] = CurrentStrong(v)[Len(log)] /\ v \in Views
      BY <1>6, <2>8 DEF StrongInv, ReadsInv, LogInv
    <3>2. CASE b # a
      <4>1. v # u  BY <2>5, <2>8, <3>2
      <4> QED  BY <1>4, <2>3, <3>1, <4>1
    <3>3. CASE b = a
      <4>1. v = u /\ writer[w].view = strong[v]
        BY <1>1, <1>3, <1>6, <1>7, <2>8, <3>3 DEF StrongInv
      <4> QED  BY <1>4, <2>3, <3>1, <4>1
    <3> QED  BY <3>2, <3>3
  <2> QED  BY <1>7, <2>4, <2>7, <2>8 DEF StrongInv, Feeds
<1>18. Alone'
  <2>1. \A x, y \in Writers :
          Publishing(x)' /\ Publishing(y)' /\ x # y
          /\ viewOf[writer'[x].agg] = viewOf[writer'[y].agg] =>
             \A p \in Names : viewOf[writer'[x].agg] \in adrift'[p]
    <3> SUFFICES ASSUME NEW x \in Writers, NEW y \in Writers, NEW p \in Names,
                        Publishing(x)', Publishing(y)', x # y,
                        viewOf[writer'[x].agg] = viewOf[writer'[y].agg]
                 PROVE  viewOf[writer'[x].agg] \in adrift'[p]
      OBVIOUS
    <3>1. CASE x = w
      <4>1. Publishing(y) /\ writer'[y] = writer[y]  BY <1>9, <1>11, <3>1
      <4> QED  BY <1>3, <1>10, <1>12, <3>1, <4>1
    <3>2. CASE y = w
      <4>1. Publishing(x) /\ writer'[x] = writer[x]  BY <1>9, <1>11, <3>2
      <4> QED  BY <1>3, <1>10, <1>12, <3>2, <4>1
    <3>3. CASE x # w /\ y # w
      <4>1. /\ Publishing(x) /\ writer'[x] = writer[x]
            /\ Publishing(y) /\ writer'[y] = writer[y]
        BY <1>9, <1>11, <3>3
      <4> QED  BY <1>6, <1>12, <4>1 DEF Alone
    <3> QED  BY <3>1, <3>2, <3>3
  <2> QED  BY <1>5, <1>7, <2>1 DEF Alone
<1>19. ViewsCurrent'
  <2>1. \A v : Replay(v, DOMAIN log)' = Current(v)'[Len(log) + 1]
    BY <1>4 DEF Replay, Current
  <2>2. SUFFICES ASSUME NEW p \in Names, NEW v \in Views,
                        rebuild[p].pc = "no", v \notin adrift'[p],
                        \A x \in Writers : Publishing(x)' => viewOf[writer'[x].agg] # v
                 PROVE  eventual[p][v] = Current(v)'[Len(log) + 1]
    BY <1>5, <1>7, <2>1 DEF ViewsCurrent
  <2>3. u # v  BY <1>3, <1>10, <1>11, <2>2
  <2>4. \A x \in Writers : Publishing(x) => viewOf[writer[x].agg] # v
    BY <1>9, <1>11, <1>13, <2>2
  <2>5. eventual[p][v] = Current(v)[Len(log)]
    BY <1>6, <1>12, <2>2, <2>4 DEF ViewsCurrent, Replay, Current
  <2> QED  BY <1>4, <2>3, <2>5
<1>20. ASSUME NEW p \in Names  PROVE Restored(p)'
  <2>1. Restored(p)  BY DEF ReadsInv
  <2>2. ASSUME NEW v \in Views \ Unreadable, rebuild[p].pc \in {"replaying", "folding"},
               v \notin adrift'[p]
        PROVE  /\ eventual[p][v] = Current(v)'[rebuild[p].n - 1]
               /\ rebuild[p].pc = "folding" /\ viewOf[rebuild[p].event.agg] = v =>
                    rebuild[p].view = eventual[p][v]
    <3>1. rebuild[p].n - 1 \in 0 .. Len(log)  BY <1>4, <1>5, <2>2
    <3>2. Current(v)'[rebuild[p].n - 1] = Current(v)[rebuild[p].n - 1]  BY <1>4, <3>1
    <3> QED  BY <1>12, <2>1, <2>2, <3>2 DEF Restored
  <2>3. rebuild[p].pc \in {"replaying", "folding"} => ~rebuild'[p].quiet  BY <1>5
  <2> QED  BY <1>5, <1>7, <1>8, <1>12, <2>1, <2>2, <2>3 DEF Restored
<1>21. ASSUME NEW p \in Names, NEW x \in Writers, NEW v \in Views,
              Publishing(x)', viewOf[writer'[x].agg] = v, v \notin adrift'[p]
       PROVE  Walked(x, p, v)'
  <2>1. CASE x = w
    <3>1. v = u /\ rebuild[p].pc = "no"  BY <1>3, <1>10, <1>12, <1>21, <2>1
    <3>2. \A y \in Writers : Publishing(y) => viewOf[writer[y].agg] # v  BY <1>12, <1>21, <3>1
    <3>3. eventual[p][v] = Current(v)[Len(log)]
      BY <1>6, <1>12, <1>21, <3>1, <3>2 DEF ViewsCurrent, Replay, Current
    <3>4. eventual[p][v] = Current(v)'[(Len(log) + 1) - 1]
      <4>1. (Len(log) + 1) - 1 = Len(log) /\ Len(log) \in 0 .. Len(log)  BY <1>4
      <4> QED  BY <1>4, <3>3, <4>1
    <3>5. \A i \in 1 .. Len(bus) : ~(i < 1)  BY <1>6 DEF BusInv
    <3> QED  BY <1>4, <1>5, <1>7, <1>10, <2>1, <3>1, <3>4, <3>5 DEF Walked
  <2>2. CASE x # w
    <3>1. Publishing(x) /\ writer'[x] = writer[x]  BY <1>9, <1>11, <1>21, <2>2
    <3>2. v # u /\ v \notin adrift[p]  BY <1>12, <1>21, <3>1
    <3>3. Walk(x, p)  BY DEF ReadsInv
    <3>4. Walked(x, p, v)  BY <1>7, <1>21, <3>1, <3>2, <3>3 DEF Walk
    <3>5. writer[x].n \in 0 .. Len(log) /\ writer[x].n - 1 \in 0 .. Len(log)
      BY <1>4, <1>6, <3>1 DEF WriterInv, WriterOK
    <3>6. /\ Current(v)'[Len(log')] = Current(v)[Len(log)]
          /\ Current(v)'[writer[x].n] = Current(v)[writer[x].n]
          /\ Current(v)'[writer[x].n - 1] = Current(v)[writer[x].n - 1]
      BY <1>4, <3>2, <3>5
    <3> QED  BY <1>5, <1>7, <3>1, <3>4, <3>6 DEF Walked
  <2> QED  BY <2>1, <2>2
<1>22. \A p \in Names : \A x \in Writers : Walk(x, p)'  BY <1>7, <1>21 DEF Walk
<1> QED  BY <1>4, <1>5, <1>14, <1>15, <1>16, <1>17, <1>18, <1>19, <1>20, <1>22 DEF ReadsInv

-----------------------------------------------------------------------------
(* Rebuilds.                                                               *)

\* A rebuild does not touch the commands.
LEMMA RebuildUntouched ==
  ASSUME ReadsInv, UNCHANGED <<reader, viewOf, log, strong, writer, found>>
  PROVE  /\ LogInv' /\ WriterInv' /\ StrongInv' /\ Unreadable' = Unreadable
         /\ \A v : Current(v)' = Current(v)
         /\ \A v : Replay(v, DOMAIN log)' = Current(v)[Len(log)]
         /\ \A x \in Writers : Publishing(x)' <=> Publishing(x)
<1>1. /\ LogInv' /\ Unreadable' = Unreadable
      /\ \A v : Current(v)' = Current(v)
      /\ \A v : Replay(v, DOMAIN log)' = Current(v)[Len(log)]
  BY LogUntouched
<1>2. StrongInv'
  <2>1. \A x \in Writers : InTransaction(x)' => InTransaction(x) /\ writer'[x] = writer[x]
    BY DEF InTransaction
  <2> QED  BY <2>1, StrongKept
<1>3. WriterInv'
  BY DEF ReadsInv, WriterInv, WriterOK, IsFcn, InTransaction, Publishing
<1>4. \A x \in Writers : Publishing(x)' <=> Publishing(x)  BY DEF Publishing
<1> QED  BY <1>1, <1>2, <1>3, <1>4

\* A step of a detached projection concerns its own views only, and no
\* publication on a covered view goes there.
LEMMA ReplayStep ==
  ASSUME ReadsInv, NEW p \in Names, rebuild[p].pc # "no", rebuild'[p].pc # "no",
         UNCHANGED <<reader, viewOf, log, strong, bus, writer, found>>,
         rebuild' = [q \in Names |-> rebuild'[q]],
         \A q \in Names : q # p =>
            rebuild'[q] = rebuild[q] /\ eventual'[q] = eventual[q] /\ adrift'[q] = adrift[q],
         rebuild'[p].quiet = rebuild[p].quiet, adrift[p] \subseteq adrift'[p],
         StoreInv', RebuildOK(p)', Restored(p)'
  PROVE  ReadsInv'
<1>1. /\ LogInv' /\ WriterInv' /\ StrongInv' /\ Unreadable' = Unreadable
      /\ \A v : Current(v)' = Current(v)
      /\ \A v : Replay(v, DOMAIN log)' = Current(v)[Len(log)]
      /\ \A x \in Writers : Publishing(x)' <=> Publishing(x)
  BY RebuildUntouched
<1>2. \A q \in Names : adrift[q] \subseteq adrift'[q] /\ (rebuild'[q].pc = "no" <=> rebuild[q].pc = "no")
  OBVIOUS
<1>3. RebuildInv'
  <2>1. ASSUME NEW q \in Names, q # p  PROVE RebuildOK(q)'
    <3>1. RebuildOK(q) /\ rebuild'[q] = rebuild[q]  BY <2>1 DEF ReadsInv, RebuildInv
    <3> QED  BY <3>1 DEF RebuildOK
  <2> QED  BY <2>1 DEF RebuildInv, IsFcn
<1>4. BusInv'  BY <1>2 DEF ReadsInv, BusInv
<1>5. Alone'
  <2>1. Alone  BY DEF ReadsInv
  <2>2. \A q \in Names : rebuild'[q].quiet = rebuild[q].quiet  OBVIOUS
  <2>3. \A x, y \in Writers :
          Publishing(x)' /\ Publishing(y)' /\ x # y
          /\ viewOf'[writer'[x].agg] = viewOf'[writer'[y].agg] =>
             \A q \in Names : viewOf'[writer'[x].agg] \in adrift'[q]
    BY <1>1, <1>2, <2>1 DEF Alone
  <2> QED  BY <1>1, <1>2, <2>1, <2>2, <2>3 DEF Alone
<1>6. ViewsCurrent'
  <2>1. ViewsCurrent  BY DEF ReadsInv
  <2>2. SUFFICES ASSUME NEW q \in Names, NEW v \in Views,
                        rebuild'[q].pc = "no", v \notin adrift'[q],
                        \A x \in Writers : Publishing(x) => viewOf[writer[x].agg] # v
                 PROVE  eventual'[q][v] = Current(v)[Len(log)]
    BY <1>1 DEF ViewsCurrent
  <2>3. q # p  BY <2>2
  <2> QED  BY <2>1, <2>2, <2>3 DEF ViewsCurrent, Replay, Current
<1>7. ASSUME NEW q \in Names, q # p  PROVE Restored(q)'
  <2>1. Restored(q)  BY DEF ReadsInv
  <2> QED  BY <1>1, <1>7, <2>1 DEF Restored
<1>8. ASSUME NEW q \in Names, NEW x \in Writers  PROVE Walk(x, q)'
  <2>1. Walk(x, q)  BY DEF ReadsInv
  <2>2. ASSUME NEW v \in Views, Publishing(x), viewOf[writer[x].agg] = v, v \notin adrift'[q]
        PROVE  Walked(x, q, v)'
    <3>1. Walked(x, q, v)  BY <1>2, <2>1, <2>2 DEF Walk
    <3>2. q # p  BY <3>1 DEF Walked
    <3>3. Current(v)' = Current(v)  BY <1>1
    <3> QED  BY <3>1, <3>2, <3>3 DEF Walked
  <2> QED  BY <1>1, <2>2 DEF Walk
<1> QED  BY <1>1, <1>3, <1>4, <1>5, <1>6, <1>7, <1>8 DEF ReadsInv

\* The store is emptied: the fold over nothing.
LEMMA StepTruncate ==
  ASSUME ReadsInv, NEW p \in Names, Truncate(p)
  PROVE  ReadsInv'
<1>1. StoreInv /\ IsFcn(rebuild, Names)  BY DEF ReadsInv, RebuildInv
<1>2. /\ rebuild[p].pc = "detached"
      /\ UNCHANGED <<reader, viewOf, log, strong, bus, writer, found>>
  BY DEF Truncate
<1>3. /\ rebuild' = [q \in Names |-> rebuild'[q]]
      /\ \A q \in Names : q # p => rebuild'[q] = rebuild[q]
      /\ rebuild'[p] = [pc |-> "replaying", quiet |-> rebuild[p].quiet, n |-> 1]
  BY <1>1 DEF Truncate, IsFcn
<1>4. /\ rebuild'[p].pc = "replaying" /\ rebuild'[p].quiet = rebuild[p].quiet
      /\ rebuild'[p].n = 1
  BY <1>3
<1>5. /\ eventual' = [q \in Names |-> eventual'[q]]
      /\ \A q \in Names : q # p => eventual'[q] = eventual[q]
      /\ eventual'[p] = [v \in Views |-> << >>]
  BY <1>1 DEF Truncate, StoreInv, IsFcn
<1>6. adrift \in [Names -> SUBSET Views] /\ Unreadable \subseteq Views
  BY <1>1 DEF StoreInv, Unreadable
<1>7. /\ adrift' \in [Names -> SUBSET Views]
      /\ \A q \in Names : q # p => adrift'[q] = adrift[q]
      /\ adrift'[p] = adrift[p] \cup Unreadable
  BY <1>6 DEF Truncate
<1>8. StoreInv'
  <2>1. ASSUME NEW q \in Names  PROVE eventual'[q] = [v \in Views |-> eventual'[q][v]]
    BY <1>1, <1>5 DEF StoreInv, IsFcn
  <2> QED  BY <1>1, <1>2, <1>5, <1>7, <2>1 DEF StoreInv, IsFcn
<1>9. RebuildOK(p)'
  <2>1. 1 \in 1 .. Len(log) + 1  BY DEF ReadsInv, LogInv
  <2> QED  BY <1>2, <1>3, <2>1 DEF RebuildOK
<1>10. Restored(p)'
  <2>1. Unreadable' = Unreadable /\ \A v : Current(v)' = Current(v)
    BY <1>2, RebuildUntouched
  <2>2. \A v \in Views : eventual'[p][v] = Current(v)[rebuild'[p].n - 1]
    <3>1. \A v \in Views : Current(v)[0] = << >>  BY CurrentTurns DEF ReadsInv
    <3> QED  BY <1>4, <1>5, <3>1
  <2> QED  BY <1>2, <1>4, <1>7, <2>1, <2>2 DEF Restored
<1>11. rebuild[p].pc # "no" /\ rebuild'[p].pc # "no" /\ adrift[p] \subseteq adrift'[p]
  BY <1>2, <1>4, <1>7
<1> QED  BY <1>2, <1>3, <1>4, <1>5, <1>7, <1>8, <1>9, <1>10, <1>11, ReplayStep

\* What the replay sees of a logged event is its current shape.
LEMMA ReplayedEvent ==
  ASSUME ReadsInv, NEW n \in 1 .. Len(log)
  PROVE  /\ upcastEvents(<<log[n]>>, Chain)[1] = InShape(log[n])
         /\ log[n].agg \in Aggregates /\ viewOf[log[n].agg] \in Views
         /\ InShape(log[n]).agg = log[n].agg /\ InShape(log[n]).kind = log[n].kind
<1>1. log[n] \in Events /\ log[n].payload = StoredVersion(log[n])  BY DEF ReadsInv, LogInv
<1>2. upcastEvent(log[n], Chain) = InShape(log[n])  BY <1>1, UpcastEndsInShape
<1>3. upcastEvents(<<log[n]>>, Chain)[1] = upcastEvent(log[n], Chain)  BY DEF upcastEvents
<1>4. log[n].agg \in Aggregates /\ InShape(log[n]).agg = log[n].agg
      /\ InShape(log[n]).kind = log[n].kind
  BY <1>1 DEF Events, InShape
<1>5. viewOf[log[n].agg] \in Views  BY <1>4 DEF ReadsInv, LogInv
<1> QED  BY <1>2, <1>3, <1>4, <1>5

\* One turn of the replay: an event the reader does not cover feeds only views
\* it cannot restore, one the projection does not handle leaves its view alone.
LEMMA StepReplayLoad ==
  ASSUME ReadsInv, NEW p \in Names, ReplayLoad(p)
  PROVE  ReadsInv'
<1>1. PICK n : n = rebuild[p].n  OBVIOUS
<1>2. PICK event : event = upcastEvents(<<log[n]>>, Chain)[1]  OBVIOUS
<1>3. /\ IsFcn(rebuild, Names) /\ RebuildOK(p) /\ StoreInv /\ LogInv /\ Restored(p)
      /\ rebuild[p].pc = "replaying" /\ n <= Len(log)
      /\ UNCHANGED <<reader, viewOf, log, strong, eventual, bus, writer, troubles, found, adrift>>
  BY <1>1 DEF ReadsInv, RebuildInv, ReplayLoad
<1>4. PICK q : rebuild[p] = [pc |-> "replaying", quiet |-> q, n |-> n] /\ n \in 1 .. Len(log) + 1
  <2>1. /\ rebuild[p] = [pc |-> "replaying", quiet |-> rebuild[p].quiet, n |-> rebuild[p].n]
        /\ rebuild[p].n \in 1 .. Len(log) + 1
    BY <1>3 DEF RebuildOK, NotRebuilding
  <2>2. rebuild[p] = [pc |-> "replaying", quiet |-> rebuild[p].quiet, n |-> n]  BY <1>1, <2>1
  <2> QED  BY <1>1, <2>1, <2>2
<1>5. n \in 1 .. Len(log) /\ Len(log) \in Nat  BY <1>3, <1>4 DEF LogInv
<1>6. /\ event = InShape(log[n]) /\ log[n].agg \in Aggregates /\ viewOf[log[n].agg] \in Views
      /\ event.agg = log[n].agg /\ event.kind = log[n].kind
  BY <1>2, <1>5, ReplayedEvent
<1>7. /\ rebuild' = [r \in Names |-> rebuild'[r]]
      /\ \A r \in Names : r # p => rebuild'[r] = rebuild[r]
      /\ event.agg \notin reader \/ event.kind = "other" =>
            rebuild'[p] = [rebuild[p] EXCEPT !.n = n + 1]
      /\ ~(event.agg \notin reader \/ event.kind = "other") =>
            rebuild'[p] = [pc |-> "folding", quiet |-> rebuild[p].quiet, n |-> n,
                           event |-> event, view |-> eventual[p][viewOf[event.agg]]]
  BY <1>1, <1>2, <1>3 DEF ReplayLoad, IsFcn
<1>8. /\ Unreadable' = Unreadable /\ \A v : Current(v)' = Current(v)
  BY <1>3, RebuildUntouched
<1>9. StoreInv'  BY <1>3 DEF StoreInv, IsFcn
<1>10. ASSUME NEW v \in Views
       PROVE  Current(v)[n] = IF viewOf[log[n].agg] = v
                              THEN Reduce(Current(v)[n - 1], event, n) ELSE Current(v)[n - 1]
  BY <1>3, <1>5, <1>6, CurrentTurns
<1>11. CASE event.agg \notin reader \/ event.kind = "other"
  <2>1. rebuild'[p] = [pc |-> "replaying", quiet |-> q, n |-> n + 1]
    BY <1>4, <1>7, <1>11
  <2>2. rebuild'[p].pc = "replaying" /\ rebuild'[p].quiet = rebuild[p].quiet
        /\ rebuild'[p].n = n + 1
    BY <1>4, <2>1
  <2>3. RebuildOK(p)'
    <3>1. n + 1 \in 1 .. Len(log) + 1  BY <1>5
    <3> QED  BY <1>3, <2>1, <3>1 DEF RebuildOK
  <2>4. Restored(p)'
    <3>1. ASSUME NEW v \in Views \ Unreadable  PROVE Current(v)[n] = Current(v)[n - 1]
      <4>1. CASE event.agg \notin reader
        <5>1. viewOf[log[n].agg] # v  BY <1>6, <3>1, <4>1 DEF Unreadable
        <5> QED  BY <1>10, <5>1
      <4>2. CASE event.kind = "other"
        <5>1. Reduce(Current(v)[n - 1], event, n) = Current(v)[n - 1]  BY <4>2 DEF Reduce
        <5> QED  BY <1>10, <5>1
      <4> QED  BY <1>11, <4>1, <4>2
    <3>2. (n + 1) - 1 = n  BY <1>5
    <3> QED  BY <1>1, <1>3, <1>8, <2>2, <3>1, <3>2 DEF Restored
  <2> QED  BY <1>3, <1>7, <1>9, <2>2, <2>3, <2>4, ReplayStep
<1>12. CASE ~(event.agg \notin reader \/ event.kind = "other")
  <2>1. rebuild'[p] = [pc |-> "folding", quiet |-> rebuild[p].quiet, n |-> n,
                       event |-> event, view |-> eventual[p][viewOf[event.agg]]]
    BY <1>7, <1>12
  <2>2. /\ rebuild'[p].pc = "folding" /\ rebuild'[p].quiet = rebuild[p].quiet
        /\ rebuild'[p].n = n /\ rebuild'[p].event = event
        /\ rebuild'[p].view = eventual[p][viewOf[event.agg]]
    BY <2>1
  <2>3. RebuildOK(p)'  BY <1>3, <1>5, <1>6, <2>1, <2>2 DEF RebuildOK, InShape
  <2>4. Restored(p)'  BY <1>1, <1>3, <1>8, <2>2 DEF Restored
  <2> QED  BY <1>3, <1>7, <1>9, <2>2, <2>3, <2>4, ReplayStep
<1> QED  BY <1>11, <1>12

\* The event is folded into the view it belongs to; the others did not need it.
LEMMA StepReplaySave ==
  ASSUME ReadsInv, NEW p \in Names, ReplaySave(p)
  PROVE  ReadsInv'
<1>1. PICK n : n = rebuild[p].n  OBVIOUS
<1>2. PICK event : event = rebuild[p].event  OBVIOUS
<1>3. /\ IsFcn(rebuild, Names) /\ RebuildOK(p) /\ StoreInv /\ LogInv /\ Restored(p)
      /\ rebuild[p].pc = "folding"
      /\ UNCHANGED <<reader, viewOf, log, strong, bus, writer, troubles, found, adrift>>
  BY DEF ReadsInv, RebuildInv, ReplaySave
<1>4. n \in 1 .. Len(log) /\ event = InShape(log[n]) /\ Len(log) \in Nat
  BY <1>1, <1>2, <1>3 DEF RebuildOK, NotRebuilding, LogInv
<1>5. log[n].agg \in Aggregates /\ viewOf[log[n].agg] \in Views /\ event.agg = log[n].agg
  BY <1>4, ReplayedEvent
<1>6. PICK u : u = viewOf[log[n].agg]  OBVIOUS
<1>7. /\ rebuild' = [r \in Names |-> rebuild'[r]]
      /\ \A r \in Names : r # p => rebuild'[r] = rebuild[r]
      /\ rebuild'[p] = [pc |-> "replaying", quiet |-> rebuild[p].quiet, n |-> n + 1]
  BY <1>1, <1>3 DEF ReplaySave, IsFcn
<1>8. /\ eventual' = [r \in Names |-> eventual'[r]]
      /\ \A r \in Names : r # p => eventual'[r] = eventual[r]
      /\ eventual'[p] = [v \in Views |-> eventual'[p][v]]
      /\ \A v \in Views : v # u => eventual'[p][v] = eventual[p][v]
      /\ eventual'[p][u] = Reduce(rebuild[p].view, event, n)
  BY <1>1, <1>2, <1>3, <1>5, <1>6 DEF ReplaySave, StoreInv, IsFcn
<1>9. StoreInv'
  <2>1. ASSUME NEW r \in Names  PROVE eventual'[r] = [v \in Views |-> eventual'[r][v]]
    BY <1>3, <1>8 DEF StoreInv, IsFcn
  <2> QED  BY <1>3, <1>8, <2>1 DEF StoreInv, IsFcn
<1>10. /\ rebuild'[p].pc = "replaying" /\ rebuild'[p].quiet = rebuild[p].quiet
       /\ rebuild'[p].n = n + 1
  BY <1>7
<1>11. RebuildOK(p)'
  <2>1. n + 1 \in 1 .. Len(log) + 1  BY <1>4
  <2> QED  BY <1>3, <1>7, <1>10, <2>1 DEF RebuildOK
<1>12. Restored(p)'
  <2>1. Unreadable' = Unreadable /\ \A v : Current(v)' = Current(v)
    BY <1>3, RebuildUntouched
  <2>2. ASSUME NEW v \in Views \ Unreadable, rebuild[p].quiet \/ v \notin adrift[p]
        PROVE  eventual'[p][v] = Current(v)[n]
    <3>1. Current(v)[n] = IF u = v THEN Reduce(Current(v)[n - 1], event, n)
                          ELSE Current(v)[n - 1]
      BY <1>3, <1>4, <1>6, CurrentTurns
    <3>2. eventual[p][v] = Current(v)[n - 1] /\ (u = v => rebuild[p].view = eventual[p][v])
      BY <1>1, <1>2, <1>3, <1>5, <1>6, <2>2 DEF Restored
    <3> QED  BY <1>8, <3>1, <3>2
  <2>3. (n + 1) - 1 = n  BY <1>4
  <2> QED  BY <1>3, <1>10, <2>1, <2>2, <2>3 DEF Restored
<1> QED  BY <1>3, <1>7, <1>8, <1>9, <1>10, <1>11, <1>12, ReplayStep

\* off takes the one place of a handler out of the array.
LEMMA OffTakesOut ==
  ASSUME BusInv, NEW p \in Names, rebuild[p].pc = "no"
  PROVE  \E k \in 1 .. Len(bus) :
           /\ bus[k] = p
           /\ off(p) \in Seq(Names) /\ Len(off(p)) = Len(bus) - 1
           /\ \A i \in 1 .. (Len(bus) - 1) : off(p)[i] = IF i < k THEN bus[i] ELSE bus[i + 1]
<1>1. bus \in Seq(Names) /\ Len(bus) \in Nat /\ DOMAIN bus = 1 .. Len(bus)
      /\ \A i \in 1 .. Len(bus) : bus[i] \in Names
  BY DEF BusInv
<1>2. PICK k \in 1 .. Len(bus) : bus[k] = p  BY DEF BusInv
<1>3. \A i \in 1 .. Len(bus) : bus[i] = p => i = k  BY <1>2 DEF BusInv
<1> DEFINE C == CHOOSE i \in DOMAIN bus : bus[i] = p /\ \A j \in 1 .. (i - 1) : bus[j] # p
<1>4. k \in DOMAIN bus /\ bus[k] = p /\ \A j \in 1 .. (k - 1) : bus[j] # p
  <2>1. \A j \in 1 .. (k - 1) : j \in 1 .. Len(bus) /\ j # k  BY <1>1, <1>2
  <2> QED  BY <1>1, <1>2, <1>3, <2>1
<1>5. C \in DOMAIN bus /\ bus[C] = p  BY <1>4
<1> HIDE DEF C
<1>6. C = k  BY <1>1, <1>3, <1>5
<1>7. p \in Range(bus)  BY <1>4 DEF Range
<1>8. off(p) = SubSeq(bus, 1, k - 1) \o SubSeq(bus, k + 1, Len(bus))
  BY <1>6, <1>7 DEF off, RemoveAt, C
<1> DEFINE s == SubSeq(bus, 1, k - 1)
           t == SubSeq(bus, k + 1, Len(bus))
<1>9. s \in Seq(Names) /\ Len(s) = k - 1 /\ \A i \in 1 .. (k - 1) : s[i] = bus[i]
  <2>1. 1 \in Int /\ k - 1 \in Int /\ \A i \in 1 .. (k - 1) : bus[i] \in Names  BY <1>1, <1>2
  <2>2. /\ s \in Seq(Names) /\ Len(s) = IF 1 <= k - 1 THEN (k - 1) - 1 + 1 ELSE 0
        /\ \A i \in 1 .. ((k - 1) - 1 + 1) : s[i] = bus[1 + i - 1]
    BY <2>1, SubSeqProperties
  <2> HIDE DEF s
  <2>3. (k - 1) - 1 + 1 = k - 1 /\ k >= 1 /\ k \in Int  BY <1>1, <1>2
  <2>4. \A i \in 1 .. (k - 1) : 1 + i - 1 = i  BY <2>3
  <2>5. Len(s) = k - 1
    <3>1. CASE 1 <= k - 1  BY <2>2, <2>3, <3>1
    <3>2. CASE ~(1 <= k - 1)  BY <2>2, <2>3, <3>2
    <3> QED  BY <3>1, <3>2
  <2>6. \A i \in 1 .. (k - 1) : s[i] = bus[i]  BY <2>2, <2>3, <2>4
  <2> QED  BY <2>2, <2>5, <2>6
<1>10. t \in Seq(Names) /\ Len(t) = Len(bus) - k
       /\ \A i \in 1 .. (Len(bus) - k) : t[i] = bus[k + i]
  <2>1. k + 1 \in Int /\ Len(bus) \in Int /\ \A i \in (k + 1) .. Len(bus) : bus[i] \in Names
    BY <1>1, <1>2
  <2>2. /\ t \in Seq(Names) /\ Len(t) = IF k + 1 <= Len(bus) THEN Len(bus) - (k + 1) + 1 ELSE 0
        /\ \A i \in 1 .. (Len(bus) - (k + 1) + 1) : t[i] = bus[(k + 1) + i - 1]
    BY <2>1, SubSeqProperties
  <2> HIDE DEF t
  <2>3. Len(bus) - (k + 1) + 1 = Len(bus) - k /\ k <= Len(bus) /\ k \in Int /\ Len(bus) \in Int
    BY <1>1, <1>2
  <2>4. \A i \in 1 .. (Len(bus) - k) : (k + 1) + i - 1 = k + i  BY <2>3
  <2>5. Len(t) = Len(bus) - k
    <3>1. CASE k + 1 <= Len(bus)  BY <2>2, <2>3, <3>1
    <3>2. CASE ~(k + 1 <= Len(bus))
      <4>1. Len(t) = 0  BY <2>2, <3>2
      <4>2. \A a, b \in Int : a <= b /\ ~(a + 1 <= b) => b - a = 0  OBVIOUS
      <4>3. Len(bus) - k = 0  BY <2>3, <3>2, <4>2
      <4> QED  BY <4>1, <4>3
    <3> QED  BY <3>1, <3>2
  <2>6. \A i \in 1 .. (Len(bus) - k) : t[i] = bus[k + i]  BY <2>2, <2>3, <2>4
  <2> QED  BY <2>2, <2>5, <2>6
<1> HIDE DEF s, t
<1>11. /\ s \o t \in Seq(Names) /\ Len(s \o t) = Len(s) + Len(t)
       /\ \A i \in 1 .. Len(s) + Len(t) : (s \o t)[i] = IF i <= Len(s) THEN s[i] ELSE t[i - Len(s)]
  BY <1>9, <1>10, ConcatProperties
<1>12. off(p) = s \o t  BY <1>8 DEF s, t
<1>13. Len(s) + Len(t) = Len(bus) - 1  BY <1>1, <1>2, <1>9, <1>10
<1>14. ASSUME NEW i \in 1 .. (Len(bus) - 1)
       PROVE  off(p)[i] = IF i < k THEN bus[i] ELSE bus[i + 1]
  <2>1. off(p)[i] = IF i <= Len(s) THEN s[i] ELSE t[i - Len(s)]  BY <1>11, <1>12, <1>13
  <2>2. CASE i < k
    <3>1. i <= Len(s) /\ i \in 1 .. (k - 1)  BY <1>1, <1>2, <1>9, <2>2
    <3> QED  BY <1>9, <2>1, <2>2, <3>1
  <2>3. CASE ~(i < k)
    <3>1. ~(i <= Len(s)) /\ i - Len(s) \in 1 .. (Len(bus) - k) /\ k + (i - Len(s)) = i + 1
      BY <1>1, <1>2, <1>9, <2>3
    <3> QED  BY <1>10, <2>1, <2>3, <3>1
  <2> QED  BY <2>2, <2>3
<1>15. off(p) \in Seq(Names) /\ Len(off(p)) = Len(bus) - 1  BY <1>11, <1>12, <1>13
<1> HIDE DEF s, t
<1>16. \A i \in 1 .. (Len(bus) - 1) : off(p)[i] = IF i < k THEN bus[i] ELSE bus[i + 1]
  BY <1>14
<1> QED  BY <1>2, <1>15, <1>16, Zenon

\* A rebuild starts: the handler leaves the bus, and the publications under way
\* are no longer covered, since their places on the bus may have shifted.
LEMMA StepRebuild ==
  ASSUME ReadsInv, NEW p \in Names, RebuildProjection(p)
  PROVE  ReadsInv'
<1>1. /\ StoreInv /\ BusInv /\ Alone /\ ViewsCurrent /\ IsFcn(rebuild, Names)
      /\ rebuild[p].pc = "no" /\ bus' = off(p)
      /\ UNCHANGED <<reader, viewOf, log, strong, eventual, writer, found>>
  BY DEF ReadsInv, RebuildInv, RebuildProjection
<1>2. /\ LogInv' /\ WriterInv' /\ StrongInv' /\ Unreadable' = Unreadable
      /\ \A v : Current(v)' = Current(v)
      /\ \A v : Replay(v, DOMAIN log)' = Current(v)[Len(log)]
      /\ \A x \in Writers : Publishing(x)' <=> Publishing(x)
  BY <1>1, RebuildUntouched
<1>3. PICK quiet : quiet = ({w \in Writers : Publishing(w)} = {})  OBVIOUS
<1>4. /\ rebuild' = [q \in Names |-> rebuild'[q]]
      /\ \A q \in Names : q # p => rebuild'[q] = rebuild[q]
      /\ rebuild'[p] = [pc |-> "detached", quiet |-> quiet]
  BY <1>1, <1>3 DEF RebuildProjection, IsFcn
<1>5. rebuild'[p].pc = "detached" /\ rebuild'[p].quiet = quiet  BY <1>4
<1>6. \A w \in Writers : Publishing(w) => viewOf[writer[w].agg] \in Views
  BY DEF ReadsInv, WriterInv, WriterOK, LogInv
<1>7. /\ adrift' \in [Names -> SUBSET Views]
      /\ \A q \in Names : adrift[q] \subseteq adrift'[q]
      /\ \A q \in Names : \A w \in Writers : Publishing(w) => viewOf[writer[w].agg] \in adrift'[q]
  <2>1. adrift \in [Names -> SUBSET Views]  BY <1>1 DEF StoreInv
  <2> QED  BY <1>6, <2>1 DEF RebuildProjection
<1>8. StoreInv'  BY <1>1, <1>7 DEF StoreInv, IsFcn
<1>9. RebuildInv'
  <2>1. RebuildOK(p)'  BY <1>4, <1>5 DEF RebuildOK
  <2>2. ASSUME NEW q \in Names, q # p  PROVE RebuildOK(q)'
    <3>1. RebuildOK(q) /\ rebuild'[q] = rebuild[q]  BY <1>4, <2>2 DEF ReadsInv, RebuildInv
    <3> QED  BY <1>1, <3>1 DEF RebuildOK
  <2> QED  BY <1>4, <2>1, <2>2 DEF RebuildInv, IsFcn
<1>10. BusInv'
  <2>1. PICK k \in 1 .. Len(bus) :
           /\ bus[k] = p
           /\ bus' \in Seq(Names) /\ Len(bus') = Len(bus) - 1
           /\ \A i \in 1 .. (Len(bus) - 1) : bus'[i] = IF i < k THEN bus[i] ELSE bus[i + 1]
    BY <1>1, OffTakesOut
  <2>2. /\ Len(bus) \in Nat
        /\ \A i, j \in 1 .. Len(bus) : bus[i] = bus[j] => i = j
        /\ \A q \in Names : rebuild[q].pc = "no" <=> \E i \in 1 .. Len(bus) : bus[i] = q
    BY <1>1 DEF BusInv
  <2>3. \A i \in 1 .. Len(bus') : i \in 1 .. Len(bus) /\ i + 1 \in 1 .. Len(bus)
    BY <2>1, <2>2
  <2>4. ASSUME NEW i \in 1 .. Len(bus'), NEW j \in 1 .. Len(bus'), bus'[i] = bus'[j]
        PROVE  i = j
    <3>1. /\ bus'[i] = IF i < k THEN bus[i] ELSE bus[i + 1]
          /\ bus'[j] = IF j < k THEN bus[j] ELSE bus[j + 1]
      BY <2>1
    <3>2. CASE i < k /\ j < k  BY <2>2, <2>3, <2>4, <3>1, <3>2
    <3>3. CASE i < k /\ ~(j < k)
      <4>1. i = j + 1  BY <2>2, <2>3, <2>4, <3>1, <3>3
      <4> QED  BY <2>1, <2>2, <3>3, <4>1
    <3>4. CASE ~(i < k) /\ j < k
      <4>1. i + 1 = j  BY <2>2, <2>3, <2>4, <3>1, <3>4
      <4> QED  BY <2>1, <2>2, <3>4, <4>1
    <3>5. CASE ~(i < k) /\ ~(j < k)
      <4>1. i + 1 = j + 1  BY <2>2, <2>3, <2>4, <3>1, <3>5
      <4> QED  BY <2>1, <2>2, <4>1
    <3> QED  BY <3>2, <3>3, <3>4, <3>5
  <2>5. \A i \in 1 .. Len(bus') : bus'[i] # p
    <3> TAKE i \in 1 .. Len(bus')
    <3>1. bus'[i] = IF i < k THEN bus[i] ELSE bus[i + 1]  BY <2>1
    <3>3. i < k => i # k  BY <2>1, <2>2
    <3>4. ~(i < k) => i + 1 # k  BY <2>1, <2>2
    <3> QED  BY <2>1, <2>2, <2>3, <3>1, <3>3, <3>4
  <2>6. ASSUME NEW q \in Names, q # p
        PROVE  (\E i \in 1 .. Len(bus') : bus'[i] = q) <=> (\E i \in 1 .. Len(bus) : bus[i] = q)
    <3>1. ASSUME NEW i \in 1 .. Len(bus'), bus'[i] = q
          PROVE  \E j \in 1 .. Len(bus) : bus[j] = q
      <4>1. bus'[i] = IF i < k THEN bus[i] ELSE bus[i + 1]  BY <2>1
      <4> QED  BY <2>3, <3>1, <4>1
    <3>2. ASSUME NEW j \in 1 .. Len(bus), bus[j] = q
          PROVE  \E i \in 1 .. Len(bus') : bus'[i] = q
      <4>1. CASE j < k
        <5>1. j \in 1 .. Len(bus') /\ j \in 1 .. (Len(bus) - 1)  BY <2>1, <2>2, <4>1
        <5>2. bus'[j] = q  BY <2>1, <3>2, <4>1, <5>1
        <5> QED  BY <5>1, <5>2
      <4>2. CASE ~(j < k)
        <5>1. j # k  BY <2>1, <2>6, <3>2
        <5>2. j - 1 \in 1 .. Len(bus') /\ j - 1 \in 1 .. (Len(bus) - 1) /\ ~(j - 1 < k)
              /\ (j - 1) + 1 = j
          BY <2>1, <2>2, <4>2, <5>1
        <5>3. bus'[j - 1] = q  BY <2>1, <3>2, <5>2
        <5> QED  BY <5>2, <5>3
      <4> QED  BY <4>1, <4>2
    <3> QED  BY <3>1, <3>2
  <2>7. ASSUME NEW q \in Names
        PROVE  rebuild'[q].pc = "no" <=> \E i \in 1 .. Len(bus') : bus'[i] = q
    <3>1. CASE q = p  BY <1>5, <2>5, <3>1
    <3>2. CASE q # p  BY <1>4, <2>2, <2>6, <3>2
    <3> QED  BY <3>1, <3>2
  <2> QED  BY <2>1, <2>4, <2>7 DEF BusInv
<1>11. Alone'
  <2>1. \A x, y \in Writers :
          Publishing(x)' /\ Publishing(y)' /\ x # y
          /\ viewOf'[writer'[x].agg] = viewOf'[writer'[y].agg] =>
             \A q \in Names : viewOf'[writer'[x].agg] \in adrift'[q]
    BY <1>1, <1>2, <1>7
  <2>2. ASSUME NEW q \in Names, rebuild'[q].pc # "no", rebuild'[q].quiet, NEW w \in Writers
        PROVE  ~Publishing(w)
    <3>1. CASE q = p  BY <1>3, <1>5, <2>2, <3>1
    <3>2. CASE q # p  BY <1>1, <1>4, <2>2, <3>2 DEF Alone
    <3> QED  BY <3>1, <3>2
  <2> QED  BY <1>2, <2>1, <2>2 DEF Alone
<1>12. ViewsCurrent'
  <2>1. SUFFICES ASSUME NEW q \in Names, NEW v \in Views,
                        rebuild'[q].pc = "no", v \notin adrift'[q],
                        \A x \in Writers : Publishing(x) => viewOf[writer[x].agg] # v
                 PROVE  eventual[q][v] = Current(v)[Len(log)]
    BY <1>1, <1>2 DEF ViewsCurrent
  <2>2. rebuild[q].pc = "no" /\ v \notin adrift[q]  BY <1>1, <1>4, <1>7, <2>1
  <2> QED  BY <1>1, <2>1, <2>2 DEF ViewsCurrent, Replay, Current
<1>13. ASSUME NEW q \in Names  PROVE Restored(q)'
  <2>1. Restored(q)  BY DEF ReadsInv
  <2>2. CASE q = p  BY <1>5, <2>2 DEF Restored
  <2>3. CASE q # p
    <3>1. rebuild'[q] = rebuild[q]  BY <1>4, <2>3
    <3> QED  BY <1>1, <1>2, <1>7, <2>1, <3>1 DEF Restored
  <2> QED  BY <2>2, <2>3
<1>14. \A q \in Names : \A x \in Writers : Walk(x, q)'  BY <1>1, <1>2, <1>7 DEF Walk
<1> QED  BY <1>2, <1>8, <1>9, <1>10, <1>11, <1>12, <1>13, <1>14 DEF ReadsInv

\* A handler is re-attached at the end of the bus, behind every publication's
\* place: the views it answers for must be current.
LEMMA Reattached ==
  ASSUME ReadsInv, NEW p \in Names, rebuild[p].pc # "no", bus' = on(p),
         rebuild' = [rebuild EXCEPT ![p] = NotRebuilding],
         UNCHANGED <<reader, viewOf, log, strong, eventual, writer, found>>,
         adrift' \in [Names -> SUBSET Views],
         \A q \in Names : q # p => adrift'[q] = adrift[q],
         \A v \in Views : v \notin adrift'[p] =>
            /\ eventual[p][v] = Current(v)[Len(log)]
            /\ \A x \in Writers : Publishing(x) => viewOf[writer[x].agg] # v
  PROVE  ReadsInv'
<1>1. StoreInv /\ BusInv /\ Alone /\ ViewsCurrent /\ IsFcn(rebuild, Names)
  BY DEF ReadsInv, RebuildInv
<1>2. /\ LogInv' /\ WriterInv' /\ StrongInv' /\ Unreadable' = Unreadable
      /\ \A v : Current(v)' = Current(v)
      /\ \A v : Replay(v, DOMAIN log)' = Current(v)[Len(log)]
      /\ \A x \in Writers : Publishing(x)' <=> Publishing(x)
  BY RebuildUntouched
<1>3. /\ rebuild' = [q \in Names |-> rebuild'[q]]
      /\ \A q \in Names : q # p => rebuild'[q] = rebuild[q]
      /\ rebuild'[p] = NotRebuilding
  BY <1>1 DEF IsFcn
<1>4. rebuild'[p].pc = "no"  BY <1>3 DEF NotRebuilding
<1>5. /\ bus' \in Seq(Names) /\ Len(bus') = Len(bus) + 1 /\ Len(bus) \in Nat
      /\ \A i \in 1 .. Len(bus) : bus'[i] = bus[i]
      /\ bus'[Len(bus) + 1] = p
  <2>1. bus \in Seq(Names)  BY <1>1 DEF BusInv
  <2> QED  BY <2>1, AppendProperties DEF on
<1>6. \A i \in 1 .. Len(bus') : i \in 1 .. Len(bus) \/ i = Len(bus) + 1  BY <1>5
<1>7. StoreInv'  BY <1>1 DEF StoreInv, IsFcn
<1>8. RebuildInv'
  <2>1. RebuildOK(p)'  BY <1>3 DEF RebuildOK, NotRebuilding
  <2>2. ASSUME NEW q \in Names, q # p  PROVE RebuildOK(q)'
    <3>1. RebuildOK(q) /\ rebuild'[q] = rebuild[q]  BY <1>3, <2>2 DEF ReadsInv, RebuildInv
    <3> QED  BY <3>1 DEF RebuildOK
  <2> QED  BY <1>3, <2>1, <2>2 DEF RebuildInv, IsFcn
<1>9. BusInv'
  <2>1. \A i \in 1 .. Len(bus) : bus[i] # p  BY <1>1 DEF BusInv
  <2>2. \A i, j \in 1 .. Len(bus') : bus'[i] = bus'[j] => i = j
    BY <1>1, <1>5, <1>6, <2>1 DEF BusInv
  <2>3. ASSUME NEW q \in Names
        PROVE  rebuild'[q].pc = "no" <=> \E i \in 1 .. Len(bus') : bus'[i] = q
    <3>1. CASE q = p
      <4>1. Len(bus) + 1 \in 1 .. Len(bus')  BY <1>5
      <4> QED  BY <1>4, <1>5, <3>1, <4>1
    <3>2. CASE q # p
      <4>1. rebuild'[q].pc = "no" <=> \E i \in 1 .. Len(bus) : bus[i] = q
        BY <1>1, <1>3, <3>2 DEF BusInv
      <4>2. 1 .. Len(bus) \subseteq 1 .. Len(bus')  BY <1>5
      <4> QED  BY <1>5, <1>6, <3>2, <4>1, <4>2
    <3> QED  BY <3>1, <3>2
  <2> QED  BY <1>5, <2>2, <2>3 DEF BusInv
<1>10. Alone'
  <2>1. ASSUME NEW x \in Writers, NEW y \in Writers, NEW q \in Names,
               Publishing(x), Publishing(y), x # y,
               viewOf[writer[x].agg] = viewOf[writer[y].agg]
        PROVE  viewOf[writer[x].agg] \in adrift'[q]
    <3>1. viewOf[writer[x].agg] \in adrift[q]  BY <1>1, <2>1 DEF Alone
    <3>2. viewOf[writer[x].agg] \in Views  BY <2>1 DEF ReadsInv, WriterInv, WriterOK, LogInv
    <3> QED  BY <2>1, <3>1, <3>2
  <2>2. ASSUME NEW q \in Names, rebuild'[q].pc # "no", rebuild'[q].quiet, NEW w \in Writers
        PROVE  ~Publishing(w)
    <3>1. q # p  BY <1>4, <2>2
    <3> QED  BY <1>1, <1>3, <2>2, <3>1 DEF Alone
  <2> QED  BY <1>2, <2>1, <2>2 DEF Alone
<1>11. ViewsCurrent'
  <2>1. SUFFICES ASSUME NEW q \in Names, NEW v \in Views,
                        rebuild'[q].pc = "no", v \notin adrift'[q],
                        \A x \in Writers : Publishing(x) => viewOf[writer[x].agg] # v
                 PROVE  eventual[q][v] = Current(v)[Len(log)]
    BY <1>2 DEF ViewsCurrent
  <2>2. CASE q = p  BY <2>1, <2>2
  <2>3. CASE q # p
    <3>1. rebuild[q].pc = "no" /\ v \notin adrift[q]  BY <1>3, <2>1, <2>3
    <3> QED  BY <1>1, <2>1, <3>1 DEF ViewsCurrent, Replay, Current
  <2> QED  BY <2>2, <2>3
<1>12. ASSUME NEW q \in Names  PROVE Restored(q)'
  <2>1. Restored(q)  BY DEF ReadsInv
  <2>2. CASE q = p  BY <1>4, <2>2 DEF Restored
  <2>3. CASE q # p
    <3>1. rebuild'[q] = rebuild[q] /\ adrift'[q] = adrift[q]  BY <1>3, <2>3
    <3> QED  BY <1>2, <2>1, <3>1 DEF Restored
  <2> QED  BY <2>2, <2>3
<1>13. ASSUME NEW q \in Names, NEW x \in Writers, NEW v \in Views,
              Publishing(x), viewOf[writer[x].agg] = v, v \notin adrift'[q]
       PROVE  Walked(x, q, v)'
  <2>1. Walk(x, q)  BY DEF ReadsInv
  <2>2. q # p  BY <1>13
  <2>3. v \notin adrift[q] /\ rebuild'[q] = rebuild[q]  BY <1>3, <1>13, <2>2
  <2>4. Walked(x, q, v) /\ Current(v)' = Current(v)  BY <1>2, <1>13, <2>1, <2>3 DEF Walk
  <2>5. \A i \in 1 .. Len(bus') : bus'[i] = q => i \in 1 .. Len(bus) /\ bus[i] = q
    BY <1>5, <1>6, <2>2
  <2>6. 1 .. Len(bus) \subseteq 1 .. Len(bus')  BY <1>5
  <2> QED  BY <1>5, <2>3, <2>4, <2>5, <2>6 DEF Walked
<1>14. \A q \in Names : \A x \in Writers : Walk(x, q)'  BY <1>2, <1>13 DEF Walk
<1> QED  BY <1>2, <1>7, <1>8, <1>9, <1>10, <1>11, <1>12, <1>14 DEF ReadsInv

\* A rebuild that has read the whole log has restored what it covers.
LEMMA StepRebuildDone ==
  ASSUME ReadsInv, NEW p \in Names, RebuildDone(p)
  PROVE  ReadsInv'
<1>1. /\ StoreInv /\ Alone /\ RebuildOK(p) /\ Restored(p) /\ LogInv
      /\ rebuild[p].pc = "replaying" /\ rebuild[p].n > Len(log)
      /\ rebuild[p].pc # "no" /\ bus' = on(p)
      /\ rebuild' = [rebuild EXCEPT ![p] = NotRebuilding]
      /\ UNCHANGED <<reader, viewOf, log, strong, eventual, writer, found>>
  BY DEF ReadsInv, RebuildInv, RebuildDone
<1>2. adrift \in [Names -> SUBSET Views] /\ Unreadable \subseteq Views
  BY <1>1 DEF StoreInv, Unreadable
<1>3. /\ adrift' \in [Names -> SUBSET Views]
      /\ \A q \in Names : q # p => adrift'[q] = adrift[q]
      /\ rebuild[p].quiet => adrift'[p] = Unreadable
      /\ ~rebuild[p].quiet => adrift'[p] = adrift[p]
  BY <1>2 DEF RebuildDone
<1>4. rebuild[p].n \in 1 .. Len(log) + 1  BY <1>1 DEF RebuildOK, NotRebuilding
<1>5. rebuild[p].n - 1 = Len(log)  BY <1>1, <1>4 DEF LogInv
<1>6. ASSUME NEW v \in Views, v \notin adrift'[p]
      PROVE  /\ eventual[p][v] = Current(v)[Len(log)]
             /\ \A x \in Writers : Publishing(x) => viewOf[writer[x].agg] # v
  <2>1. CASE rebuild[p].quiet
    <3>1. v \notin Unreadable  BY <1>3, <1>6, <2>1
    <3> QED  BY <1>1, <1>5, <2>1, <3>1 DEF Restored, Alone
  <2>2. CASE ~rebuild[p].quiet
    <3>1. v \notin adrift[p] /\ v \notin Unreadable  BY <1>1, <1>3, <1>6, <2>2 DEF Restored
    <3>2. \A x \in Writers : Walk(x, p)  BY DEF ReadsInv
    <3>3. \A x \in Writers : Publishing(x) => viewOf[writer[x].agg] # v
      BY <1>1, <3>1, <3>2 DEF Walk, Walked
    <3> QED  BY <1>1, <1>5, <3>1, <3>3 DEF Restored
  <2> QED  BY <2>1, <2>2
<1> QED  BY <1>1, <1>3, <1>6, Reattached

\* A rebuild that fails leaves its views uncovered and its handler on the bus.
LEMMA StepRebuildFails ==
  ASSUME ReadsInv, NEW p \in Names, RebuildFails(p)
  PROVE  ReadsInv'
<1>1. /\ StoreInv /\ rebuild[p].pc # "no" /\ bus' = on(p)
      /\ rebuild' = [rebuild EXCEPT ![p] = NotRebuilding]
      /\ UNCHANGED <<reader, viewOf, log, strong, eventual, writer, found>>
  BY DEF ReadsInv, RebuildFails, Rebuilding
<1>2. adrift \in [Names -> SUBSET Views]  BY <1>1 DEF StoreInv
<1>3. /\ adrift' \in [Names -> SUBSET Views]
      /\ \A q \in Names : q # p => adrift'[q] = adrift[q]
      /\ adrift'[p] = Views
  BY <1>2 DEF RebuildFails
<1>4. \A v \in Views : v \in adrift'[p]  BY <1>3
<1> QED  BY <1>1, <1>3, <1>4, Reattached

-----------------------------------------------------------------------------
(* The theorems.                                                           *)

\* A step that changes nothing.
LEMMA ReadsStutter == ReadsInv /\ UNCHANGED vars => ReadsInv'
<1> SUFFICES ASSUME ReadsInv, UNCHANGED vars  PROVE ReadsInv'
  OBVIOUS
<1>1. UNCHANGED <<reader, viewOf, log, strong, eventual, bus, writer, rebuild, troubles, found,
                  adrift>>
  BY DEF vars
<1>2. /\ LogInv' /\ WriterInv' /\ StrongInv' /\ Unreadable' = Unreadable
      /\ \A v : Current(v)' = Current(v)
      /\ \A v : Replay(v, DOMAIN log)' = Current(v)[Len(log)]
      /\ \A x \in Writers : Publishing(x)' <=> Publishing(x)
  BY <1>1, RebuildUntouched
<1>3. StoreInv'  BY <1>1 DEF ReadsInv, StoreInv, IsFcn
<1>4. RebuildInv'  BY <1>1 DEF ReadsInv, RebuildInv, RebuildOK, IsFcn
<1>5. BusInv'  BY <1>1 DEF ReadsInv, BusInv
<1>6. Alone'  BY <1>1, <1>2 DEF ReadsInv, Alone
<1>7. ViewsCurrent'
  <2>1. ViewsCurrent  BY DEF ReadsInv
  <2> QED  BY <1>1, <1>2, <2>1 DEF ViewsCurrent, Replay, Current
<1>8. ASSUME NEW p \in Names  PROVE Restored(p)'
  <2>1. Restored(p)  BY DEF ReadsInv
  <2> QED  BY <1>1, <1>2, <2>1 DEF Restored
<1>9. ASSUME NEW p \in Names, NEW x \in Writers  PROVE Walk(x, p)'
  <2>1. Walk(x, p)  BY DEF ReadsInv
  <2> QED  BY <1>1, <1>2, <2>1 DEF Walk, Walked
<1> QED  BY <1>2, <1>3, <1>4, <1>5, <1>6, <1>7, <1>8, <1>9 DEF ReadsInv

\* The invariant holds in every state the read side reaches.
LEMMA ReadsInvariant == ReadsSpec => []ReadsInv
<1>1. ReadsInit => ReadsInv  BY ReadsStart
<1>2. ReadsInv /\ [ReadsNext]_vars => ReadsInv'
  <2> SUFFICES ASSUME ReadsInv, [ReadsNext]_vars  PROVE ReadsInv'
    OBVIOUS
  <2>1. ASSUME NEW w \in Writers, Command(w)  PROVE ReadsInv'
    <3>1. CASE \E a \in Aggregates, k \in Kinds : DispatchCommand(w, a, k)
      BY <3>1, StepDispatch
    <3>2. CASE StrongLoad(w)  BY <3>2, StepStrongLoad
    <3>3. CASE Commit(w)  BY <3>3, StepCommit
    <3>4. CASE CommandFails(w)  BY <3>4, StepCommandFails
    <3>5. CASE Deliver(w)  BY <3>5, StepDeliver
    <3>6. CASE Project(w)  BY <3>6, StepProject
    <3>7. CASE ProjectionThrows(w)  BY <3>7, StepThrows
    <3>8. CASE Published(w)  BY <3>8, StepPublished
    <3> QED
      BY <2>1, <3>1, <3>2, <3>3, <3>4, <3>5, <3>6, <3>7, <3>8 DEF Command
  <2>2. ASSUME NEW p \in Names, Rebuild(p)  PROVE ReadsInv'
    <3>1. CASE RebuildProjection(p)  BY <3>1, StepRebuild
    <3>2. CASE Truncate(p)  BY <3>2, StepTruncate
    <3>3. CASE ReplayLoad(p)  BY <3>3, StepReplayLoad
    <3>4. CASE ReplaySave(p)  BY <3>4, StepReplaySave
    <3>5. CASE RebuildDone(p)  BY <3>5, StepRebuildDone
    <3>6. CASE RebuildFails(p)  BY <3>6, StepRebuildFails
    <3> QED  BY <2>2, <3>1, <3>2, <3>3, <3>4, <3>5, <3>6 DEF Rebuild
  <2>3. CASE UNCHANGED vars  BY <2>3, ReadsStutter
  <2> QED  BY <2>1, <2>2, <2>3 DEF ReadsNext
<1> QED  BY <1>1, <1>2, PTL DEF ReadsSpec

\* EventEmitterEventBus.on and off around rebuildProjectionImpl: between
\* rebuilds, failed ones included, every projection is subscribed exactly once.
THEOREM ReadsSubscribedOnce == ReadsSpec => []SubscribedOnce
<1>1. ReadsInv => SubscribedOnce
  <2> SUFFICES ASSUME ReadsInv, NEW p \in Names
               PROVE  Cardinality({i \in DOMAIN bus : bus[i] = p}) =
                        IF rebuild[p].pc = "no" THEN 1 ELSE 0
    BY DEF SubscribedOnce
  <2>1. BusInv /\ DOMAIN bus = 1 .. Len(bus)  BY DEF ReadsInv, BusInv
  <2>2. CASE rebuild[p].pc = "no"
    <3>1. PICK k \in 1 .. Len(bus) : bus[k] = p  BY <2>1, <2>2 DEF BusInv
    <3>2. {i \in DOMAIN bus : bus[i] = p} = {k}  BY <2>1, <3>1 DEF BusInv
    <3> QED  BY <2>2, <3>2, FS_Singleton
  <2>3. CASE rebuild[p].pc # "no"
    <3>1. {i \in DOMAIN bus : bus[i] = p} = {}  BY <2>1, <2>3 DEF BusInv
    <3> QED  BY <2>3, <3>1, FS_EmptySet
  <2> QED  BY <2>2, <2>3
<1> QED  BY <1>1, ReadsInvariant, PTL

\* onEventsProduced: the strong view of an aggregate with a view of its own
\* always equals the fold of its committed events.
THEOREM ReadsStrongViewsCurrent == ReadsSpec => []StrongViewsCurrent
<1>1. ReadsInv => StrongViewsCurrent
  <2> SUFFICES ASSUME ReadsInv, NEW v \in Views,
                      Cardinality({a \in Aggregates : viewOf[a] = v}) = 1
               PROVE  strong[v] = Replay(v, (found + 1) .. Len(log))
    BY DEF StrongViewsCurrent
  <2> DEFINE A == {a \in Aggregates : viewOf[a] = v}
  <2>1. IsFiniteSet(A)
    <3>1. IsFiniteSet(Aggregates) /\ A \in SUBSET Aggregates  BY ReadsAssumption
    <3> HIDE DEF A
    <3> QED  BY <3>1, FS_Subset
  <2>2. \E a : A = {a}
    <3> HIDE DEF A
    <3>1. Cardinality(A) = 1  BY DEF A
    <3> QED  BY <2>1, <3>1, FS_Singleton
  <2>3. PICK a : A = {a}  BY <2>2
  <2>4. a \in Aggregates /\ viewOf[a] = v /\ Feeds(a, v)  BY <2>3 DEF Feeds
  <2>5. strong[v] = CurrentStrong(v)[Len(log)]  BY <2>4 DEF ReadsInv, StrongInv
  <2> QED  BY <2>5 DEF CurrentStrong, Replay
<1> QED  BY <1>1, ReadsInvariant, PTL

\* Eventual projections and rebuildProjection: whenever no publication and no
\* rebuild is under way, every covered view is the fold of the whole log, in
\* the current shape of its events.
THEOREM ReadsViewsCurrent == ReadsSpec => []ViewsCurrent
<1>1. ReadsInv => ViewsCurrent  BY DEF ReadsInv
<1> QED  BY <1>1, ReadsInvariant, PTL
=============================================================================
