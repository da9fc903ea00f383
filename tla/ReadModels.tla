---------------------------- MODULE ReadModels -----------------------------
(***************************************************************************)
(* The read side of a running domain: commands commit events and publish   *)
(* them on the in-process bus, strong projections update their views in    *)
(* the command's transaction, eventual projections when the event reaches  *)
(* them, and rebuildProjection replays the event log into a view store.    *)
(*                                                                         *)
(* A view is the sequence of the events its reducer has folded into it     *)
(* since it was last deleted, each with the payload version the reducer    *)
(* saw: lost, repeated, reordered and un-upcast events all show.           *)
(***************************************************************************)
EXTENDS Upcasting, FiniteSets, SequencesExt

CONSTANTS
    Aggregates,
    Readers,        \* which aggregates' events the resolved EventReader may cover
    Projections,    \* eventual projections, in subscription order: a sequence
    Views,          \* view ids
    Extractors,     \* what handler.id may be: functions from aggregates to views
    History,        \* events an earlier version of the program may have left in the log
    Writers,        \* concurrent dispatchCommand calls
    Chain,          \* upcaster steps of the one event type
    MaxEvents,      \* bound on the events this program commits
    MaxTroubles     \* bound on rebuilds and handler errors together

\* What a projection distinguishes: setting a view, deleting it.
Kinds == {"set", "delete"}

Names == Range(Projections)

\* Metadata and payload of a stored event.
Events == [agg : Aggregates, kind : Kinds \cup {"other"},
           version : 0 .. Chain + 1, payload : 1 .. Chain + 1]

\* A projection subscribes once, and an earlier program wrote payloads of its own version.
ASSUME ReadsAssumption ==
    /\ IsFiniteSet(Aggregates) /\ Chain \in Nat
    /\ Extractors \subseteq [Aggregates -> Views]
    /\ Projections \in Seq(Names)
    /\ \A i, j \in DOMAIN Projections : Projections[i] = Projections[j] => i = j
    /\ History \in Seq(Events)
    /\ \A n \in DOMAIN History : History[n].payload = StoredVersion(History[n])

VARIABLES
    reader,     \* the aggregates whose events the EventReader yields
    viewOf,     \* aggregate -> the view its events belong to (handler.id)
    log,        \* committed events, in commit order
    strong,     \* view -> folded events: a strong projection
    eventual,   \* projection -> view -> folded events
    bus,        \* handlers of the event name, in registration order
    writer,     \* what each dispatchCommand call is doing
    rebuild,    \* projection -> what its rebuildProjection call is doing
    troubles,   \* rebuilds and errors so far
    found,      \* history: the length of the log at the start
    adrift      \* history: projection -> views the documented preconditions do not cover

vars == <<reader, viewOf, log, strong, eventual, bus, writer, rebuild, troubles, found, adrift>>
all_but_writer == <<reader, viewOf, log, strong, eventual, bus, rebuild, troubles, found, adrift>>

Idle == [pc |-> "idle"]
NotRebuilding == [pc |-> "no"]

\* An event is written with the current version of its type.
NewEvent(a, kind) == [agg |-> a, kind |-> kind, version |-> currentEventVersion(Chain),
                      payload |-> currentEventVersion(Chain)]

ReadsInit ==
    /\ reader \in Readers
    /\ viewOf \in Extractors
    /\ log \in {<<>>, History}
    /\ found = Len(log)
    /\ strong = [v \in Views |-> <<>>]
    /\ eventual = [p \in Names |-> [v \in Views |-> <<>>]]
    /\ bus = Projections
    /\ writer = [w \in Writers |-> Idle]
    /\ rebuild = [p \in Names |-> NotRebuilding]
    /\ troubles = 0
    /\ adrift = [p \in Names |-> IF log = <<>> THEN {} ELSE Views]

\* handler.reduce: DeleteView drops the view; an event the projection has no handler for
\* leaves it alone; everything else is folded in.
Reduce(view, event, n) ==
    CASE event.kind = "set"    -> Append(view, <<n, event.payload>>)
      [] event.kind = "delete" -> <<>>
      [] event.kind = "other"  -> view

-----------------------------------------------------------------------------
\* Commands

InTransaction(w) == writer[w].pc \in {"inserted", "loaded"}
Publishing(w) == writer[w].pc \in {"publishing", "applying"}
Rebuilding == {p \in Names : rebuild[p].pc # "no"}

\* The transaction holds the new row of its aggregate until it ends, so a second one on
\* the same aggregate waits or conflicts.
DispatchCommand(w, a, kind) ==
    /\ writer[w].pc = "idle"
    /\ Len(log) + Cardinality({x \in Writers : InTransaction(x)}) < found + MaxEvents
    /\ \A x \in Writers : InTransaction(x) => writer[x].agg # a
    /\ writer' = [writer EXCEPT ![w] = [pc |-> "inserted", agg |-> a, kind |-> kind]]
    /\ UNCHANGED all_but_writer

\* The thunk onEventsProduced enlists: load inside the transaction ...
\* Mutant: the view is saved at once, outside the transaction.
StrongSaveOutside(w) ==
    LET a == writer[w].agg
        view == Reduce(strong[viewOf[a]], NewEvent(a, writer[w].kind), Len(log) + 1)
    IN
    /\ writer[w].pc = "inserted"
    /\ strong' = [strong EXCEPT ![viewOf[a]] = view]
    /\ writer' = [writer EXCEPT ![w] = [pc |-> "loaded", agg |-> @.agg, kind |-> @.kind,
                                        view |-> strong[viewOf[a]]]]
    /\ UNCHANGED <<reader, viewOf, log, eventual, bus, rebuild, troubles, found, adrift>>

StrongLoad(w) ==
    /\ writer[w].pc = "inserted"
    /\ writer' = [writer EXCEPT ![w] =
                    [pc |-> "loaded", agg |-> @.agg, kind |-> @.kind,
                     view |-> strong[viewOf[@.agg]]]]
    /\ UNCHANGED all_but_writer

\* ... then reduce and save, in the commit that makes the event durable.
Commit(w) ==
    LET a == writer[w].agg
        v == viewOf[a]
        event == NewEvent(a, writer[w].kind)
        n == Len(log) + 1
        overtaken == \E x \in Writers : Publishing(x) /\ viewOf[writer[x].agg] = v
    IN
    /\ writer[w].pc = "loaded"
    /\ log' = Append(log, event)
    /\ strong' = [strong EXCEPT ![v] = Reduce(writer[w].view, event, n)]
    /\ writer' = [writer EXCEPT ![w] = [pc |-> "publishing", agg |-> a, n |-> n, at |-> 1]]
    /\ rebuild' = [p \in Names |-> IF p \in Rebuilding
                                   THEN [rebuild[p] EXCEPT !.quiet = FALSE] ELSE rebuild[p]]
    /\ adrift' = [p \in Names |-> IF overtaken \/ p \in Rebuilding
                                  THEN adrift[p] \cup {v} ELSE adrift[p]]
    /\ UNCHANGED <<reader, viewOf, eventual, bus, troubles, found>>

\* A conflict, a failing reducer or a closed database: the transaction is rolled back.
CommandFails(w) ==
    /\ InTransaction(w)
    /\ writer' = [writer EXCEPT ![w] = Idle]
    /\ UNCHANGED all_but_writer

-----------------------------------------------------------------------------
\* EventEmitterEventBus.dispatch: for ... of over the very array that on() and off()
\* change, across awaits.

\* The handler of an eventual projection: load ...
Deliver(w) ==
    /\ writer[w].pc = "publishing"
    /\ writer[w].at <= Len(bus)
    /\ LET p == bus[writer[w].at]
       IN  writer' = [writer EXCEPT ![w] =
                        [pc |-> "applying", agg |-> @.agg, n |-> @.n, at |-> @.at, by |-> p,
                         view |-> eventual[p][viewOf[@.agg]]]]
    /\ UNCHANGED all_but_writer

Onwards(w) == [pc |-> "publishing", agg |-> writer[w].agg, n |-> writer[w].n,
               at |-> writer[w].at + 1]

\* ... then reduce, and save or delete.
Project(w) ==
    /\ writer[w].pc = "applying"
    /\ eventual' = [eventual EXCEPT ![writer[w].by][viewOf[writer[w].agg]] =
                        Reduce(writer[w].view, log[writer[w].n], writer[w].n)]
    /\ writer' = [writer EXCEPT ![w] = Onwards(w)]
    /\ UNCHANGED <<reader, viewOf, log, strong, bus, rebuild, troubles, found, adrift>>

\* A handler that throws is logged and passed over; its projection stays behind.
ProjectionThrows(w) ==
    /\ writer[w].pc = "applying"
    /\ troubles < MaxTroubles
    /\ troubles' = troubles + 1
    /\ writer' = [writer EXCEPT ![w] = Onwards(w)]
    /\ adrift' = [adrift EXCEPT ![writer[w].by] = @ \cup {viewOf[writer[w].agg]}]
    /\ UNCHANGED <<reader, viewOf, log, strong, eventual, bus, rebuild, found>>

Published(w) ==
    /\ writer[w].pc = "publishing"
    /\ writer[w].at > Len(bus)
    /\ writer' = [writer EXCEPT ![w] = Idle]
    /\ UNCHANGED all_but_writer

-----------------------------------------------------------------------------
\* rebuildProjection. The documents ask the caller to halt writes, and not to rebuild one
\* projection twice at a time; nothing in the code enforces the first.

\* off: indexOf and splice.
off(p) ==
    LET i == CHOOSE i \in DOMAIN bus : bus[i] = p /\ \A j \in 1 .. (i - 1) : bus[j] # p
    IN  IF p \in Range(bus) THEN RemoveAt(bus, i) ELSE bus

on(p) == Append(bus, p)

\* Views that events outside the reader's log feed: a rebuild empties them for good.
Unreadable == {v \in Views : \E a \in Aggregates : viewOf[a] = v /\ a \notin reader}

\* Early return: no event reader. Then detach, before the first await.
RebuildProjection(p) ==
    /\ reader # {}
    /\ rebuild[p].pc = "no"
    /\ troubles < MaxTroubles
    /\ LET inFlight == {w \in Writers : Publishing(w)}
       IN  /\ rebuild' = [rebuild EXCEPT ![p] = [pc |-> "detached", quiet |-> inFlight = {}]]
           /\ adrift' = [q \in Names |->
                            adrift[q] \cup {viewOf[writer[w].agg] : w \in inFlight}]
    /\ bus' = off(p)
    /\ troubles' = troubles + 1
    /\ UNCHANGED <<reader, viewOf, log, strong, eventual, writer, found>>

Truncate(p) ==
    /\ rebuild[p].pc = "detached"
    /\ eventual' = [eventual EXCEPT ![p] = [v \in Views |-> <<>>]]
    /\ adrift' = [adrift EXCEPT ![p] = @ \cup Unreadable]
    /\ rebuild' = [rebuild EXCEPT ![p] = [pc |-> "replaying", quiet |-> @.quiet, n |-> 1]]
    /\ UNCHANGED <<reader, viewOf, log, strong, bus, writer, troubles, found>>

\* One turn of the for-await loop: upcast, skip what is not handled, load ...
ReplayLoad(p) ==
    LET n == rebuild[p].n
        event == upcastEvents(<<log[n]>>, Chain)[1]
    IN
    /\ rebuild[p].pc = "replaying"
    /\ n <= Len(log)
    /\ rebuild' = [rebuild EXCEPT ![p] =
                     IF event.agg \notin reader \/ event.kind = "other"
                     THEN [@ EXCEPT !.n = n + 1]
                     ELSE [pc |-> "folding", quiet |-> @.quiet, n |-> n, event |-> event,
                           view |-> eventual[p][viewOf[event.agg]]]]
    /\ UNCHANGED <<reader, viewOf, log, strong, eventual, bus, writer, troubles, found, adrift>>

\* ... then reduce, and save or delete.
ReplaySave(p) ==
    LET r == rebuild[p] IN
    /\ r.pc = "folding"
    /\ eventual' = [eventual EXCEPT ![p][viewOf[r.event.agg]] = Reduce(r.view, r.event, r.n)]
    /\ rebuild' = [rebuild EXCEPT ![p] = [pc |-> "replaying", quiet |-> r.quiet, n |-> r.n + 1]]
    /\ UNCHANGED <<reader, viewOf, log, strong, bus, writer, troubles, found, adrift>>

\* The log is read to its end; the finally block re-attaches the handler. A rebuild that
\* no write disturbed leaves only the views its reader cannot restore uncovered.
RebuildDone(p) ==
    /\ rebuild[p].pc = "replaying"
    /\ rebuild[p].n > Len(log)
    /\ bus' = on(p)
    /\ rebuild' = [rebuild EXCEPT ![p] = NotRebuilding]
    /\ adrift' = [adrift EXCEPT ![p] = IF rebuild[p].quiet THEN Unreadable ELSE @]
    /\ UNCHANGED <<reader, viewOf, log, strong, eventual, writer, troubles, found>>

\* truncate, the reader, the id extractor or a reducer throws: the views stay as far as
\* the replay got, and the handler is re-attached all the same.
\* Mutant: a failed rebuild leaves the projection detached, as if it had never run.
RebuildFailsDetached(p) ==
    /\ p \in Rebuilding
    /\ troubles < MaxTroubles
    /\ troubles' = troubles + 1
    /\ rebuild' = [rebuild EXCEPT ![p] = NotRebuilding]
    /\ adrift' = [adrift EXCEPT ![p] = Views]
    /\ UNCHANGED <<reader, viewOf, log, strong, eventual, bus, writer, found>>

RebuildFails(p) ==
    /\ p \in Rebuilding
    /\ troubles < MaxTroubles
    /\ troubles' = troubles + 1
    /\ bus' = on(p)
    /\ rebuild' = [rebuild EXCEPT ![p] = NotRebuilding]
    /\ adrift' = [adrift EXCEPT ![p] = Views]
    /\ UNCHANGED <<reader, viewOf, log, strong, eventual, writer, found>>

-----------------------------------------------------------------------------
Command(w) ==
    \/ \E a \in Aggregates, k \in Kinds : DispatchCommand(w, a, k)
    \/ StrongLoad(w) \/ Commit(w) \/ CommandFails(w)
    \/ Deliver(w) \/ Project(w) \/ ProjectionThrows(w) \/ Published(w)

Rebuild(p) ==
    \/ RebuildProjection(p) \/ Truncate(p) \/ ReplayLoad(p) \/ ReplaySave(p)
    \/ RebuildDone(p) \/ RebuildFails(p)

ReadsNext ==
    \/ \E w \in Writers : Command(w)
    \/ \E p \in Names : Rebuild(p)

ReadsSpec == ReadsInit /\ [][ReadsNext]_vars

-----------------------------------------------------------------------------
\* Properties

Folded == Seq((1 .. found + MaxEvents) \X (1 .. Chain + 1))

\* Every variable keeps to its type.
ReadTypeOK ==
    /\ log \in Seq(Events)
    /\ strong \in [Views -> Folded]
    /\ eventual \in [Names -> [Views -> Folded]]
    /\ Range(bus) \subseteq Names
    /\ adrift \in [Names -> SUBSET Views]

\* What a view must hold after the first n events of a log: those of its aggregates, in
\* log order, in the current shape.
Replayed(events, of, v, counted) ==
    LET fold[n \in 0 .. Len(events)] ==
            IF n = 0 THEN <<>>
            ELSE IF of[events[n].agg] = v /\ n \in counted
                 THEN Reduce(fold[n - 1],
                             [events[n] EXCEPT !.payload = currentEventVersion(Chain)], n)
                 ELSE fold[n - 1]
    IN  fold

\* The strong projection was deployed with this program and starts behind the history.
Replay(v, counted) == Replayed(log, viewOf, v, counted)[Len(log)]

\* onEventsProduced: a strong view that one aggregate feeds is at every moment what the
\* committed events say, whatever commands are in flight, fail or are retried.
StrongViewsCurrent ==
    \A v \in Views :
        Cardinality({a \in Aggregates : viewOf[a] = v}) = 1 =>
            strong[v] = Replay(v, (found + 1) .. Len(log))

\* Eventual views: when no publication and no rebuild is under way, the view of every
\* projection is the replay of the log, provided the commands on it did not overlap and
\* no handler threw; and a rebuild that no write overlapped brings it back there from
\* whatever state, legacy events in their current shape included. A rebuild of one
\* projection leaves the other's views alone.
ViewsCurrent ==
    \A p \in Names, v \in Views :
        ( /\ rebuild[p].pc = "no"
          /\ v \notin adrift[p]
          /\ \A w \in Writers : Publishing(w) => viewOf[writer[w].agg] # v
        ) => eventual[p][v] = Replay(v, DOMAIN log)

\* rebuildProjectionImpl's finally: between rebuilds, failed ones included, the bus holds
\* every projection's handler exactly once.
SubscribedOnce ==
    \A p \in Names :
        Cardinality({i \in DOMAIN bus : bus[i] = p}) = IF rebuild[p].pc = "no" THEN 1 ELSE 0
=============================================================================
