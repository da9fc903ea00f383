----------------------------- MODULE OutboxRelay -----------------------------
(***************************************************************************)
(* Delivery of committed events through the transactional outbox: commands *)
(* that publish their own events after the commit, the OutboxRelay of each *)
(* node that publishes what is still unpublished, Domain.shutdown, crashes *)
(* and restarts.                                                           *)
(*                                                                         *)
(* The nodes share one outbox table.  Within a node, processOnce() may be  *)
(* called by the polling timer, by processOutboxOnce() and by drain(); the *)
(* `processing` flag keeps these calls apart.  Each await of the code is a *)
(* point where any other step may happen.                                  *)
(*                                                                         *)
(* An entry stands for one event; entries are numbers, in the order of     *)
(* their createdAt, which is the order loadUnpublished returns them in.    *)
(***************************************************************************)
EXTENDS Naturals, FiniteSets

CONSTANTS
  Nodes,         \* processes that run the domain
  Commands,      \* dispatchCommand calls
  Entries,       \* outbox entries
  Home,          \* the node a command runs on
  EventsOf,      \* the entries of a command's events
  BatchSize,     \* relayOptions.batchSize
  Poison,        \* entries whose event the bus always rejects
  InProcessBus,  \* TRUE: EventEmitterEventBus; FALSE: a broker's event bus
  Faults,        \* what may fail: "bus", "mark", "load", "deadline", "crash"
  MaxStops       \* bound: shutdowns and crashes

ASSUME RelayAssumption ==
  /\ Entries \subseteq Nat
  /\ Home \in [Commands -> Nodes]
  /\ EventsOf \in [Commands -> SUBSET Entries]
  /\ \A c, d \in Commands : c # d => EventsOf[c] \cap EventsOf[d] = {}
  /\ BatchSize \in Nat \ {0}
  /\ Poison \subseteq Entries
  /\ InProcessBus \in BOOLEAN
  /\ InProcessBus => Poison = {} /\ "bus" \notin Faults
  /\ MaxStops \in Nat

Callers == {"poll", "manual", "drain"}
Polls == Nodes \X Callers

VARIABLES
  status,      \* each entry of the outbox table
  delivered,   \* history: entries whose event a bus took, with its handlers attached
  phase,       \* each node's life
  timer,       \* is the relay of the node polling?
  processing,  \* the relay's flag
  rpc,         \* where each processOnce() call is
  batch,       \* the entries it loaded and has not handled
  worked,      \* has it dispatched any?
  cpc,         \* where each command is
  todo,        \* the events it has not published yet
  stops        \* shutdowns and crashes so far

relayVars == <<timer, processing, rpc, batch, worked>>
commandVars == <<cpc, todo>>
nodeVars == <<phase, stops>>
outboxVars == <<status, delivered, relayVars, commandVars, nodeVars>>

OutboxTypeOK ==
  /\ status \in [Entries -> {"none", "pending", "published", "deleted"}]
  /\ delivered \subseteq Entries
  /\ phase \in [Nodes -> {"up", "stopping", "draining", "closed", "down"}]
  /\ timer \in [Nodes -> BOOLEAN]
  /\ processing \in [Nodes -> BOOLEAN]
  /\ rpc \in [Polls -> {"idle", "call", "load", "dispatch", "mark", "returned"}]
  /\ batch \in [Polls -> SUBSET Entries]
  /\ worked \in [Polls -> BOOLEAN]
  /\ cpc \in [Commands -> {"idle", "running", "publish", "mark", "done"}]
  /\ todo \in [Commands -> SUBSET Entries]
  /\ stops \in 0..MaxStops

OutboxInit ==
  /\ status = [e \in Entries |-> "none"]
  /\ delivered = {}
  /\ phase = [n \in Nodes |-> "up"]
  /\ timer = [n \in Nodes |-> FALSE]
  /\ processing = [n \in Nodes |-> FALSE]
  /\ rpc = [p \in Polls |-> "idle"]
  /\ batch = [p \in Polls |-> {}]
  /\ worked = [p \in Polls |-> FALSE]
  /\ cpc = [c \in Commands |-> "idle"]
  /\ todo = [c \in Commands |-> {}]
  /\ stops = 0

-----------------------------------------------------------------------------
(* The event bus and the outbox store.                                     *)

BusOpen(n) == phase[n] \in {"up", "stopping", "draining"}

\* dispatch(e) on node n resolves.  A closed in-process bus has no handlers left
\* and resolves; a closed broker bus throws.
DispatchResolves(n, e) ==
  /\ IF BusOpen(n) THEN e \notin Poison ELSE InProcessBus
  /\ delivered' = IF BusOpen(n) THEN delivered \cup {e} ELSE delivered

DispatchRejects(n, e) ==
  \/ e \in Poison
  \/ "bus" \in Faults
  \/ ~BusOpen(n) /\ ~InProcessBus

\* markPublished and markPublishedByEventIds: only entries not yet published.
Marked(S) ==
  status' = [e \in Entries |-> IF e \in S /\ status[e] = "pending"
                               THEN "published" ELSE status[e]]

Unpublished == {e \in Entries : status[e] = "pending"}

\* Mutant: the loop runs over the positions in the batch, not over its entries.
OldestPositions == 0..(Cardinality(Unpublished) - 1)

\* loadUnpublished: the oldest entries, at most BatchSize.
OldestUnpublished ==
  {e \in Unpublished : Cardinality({f \in Unpublished : f < e}) < BatchSize}

\* Entries and events are handled oldest first.
IsNext(e, S) == e \in S /\ \A f \in S : e <= f

-----------------------------------------------------------------------------
(* A command: commit, publish its events, mark their entries.              *)

\* _acquireOperation: refused once shutdown has begun.
BeginCommand(c) ==
  /\ cpc[c] = "idle"
  /\ phase[Home[c]] = "up"
  /\ cpc' = [cpc EXCEPT ![c] = "running"]
  /\ UNCHANGED <<status, delivered, relayVars, todo, nodeVars>>

\* The unit of work commits the events with their outbox entries.
Commit(c) ==
  /\ cpc[c] = "running"
  /\ status' = [e \in Entries |-> IF e \in EventsOf[c] THEN "pending" ELSE status[e]]
  /\ cpc' = [cpc EXCEPT ![c] = "publish"]
  /\ todo' = [todo EXCEPT ![c] = EventsOf[c]]
  /\ UNCHANGED <<delivered, relayVars, nodeVars>>

PublishEvent(c, e) ==
  /\ cpc[c] = "publish"
  /\ IsNext(e, todo[c])
  /\ DispatchResolves(Home[c], e)
  /\ todo' = [todo EXCEPT ![c] = @ \ {e}]
  /\ UNCHANGED <<status, relayVars, cpc, nodeVars>>

\* dispatch rejects: the command rejects, its entries stay for the relay.
PublishRejected(c, e) ==
  /\ cpc[c] = "publish"
  /\ IsNext(e, todo[c])
  /\ DispatchRejects(Home[c], e)
  /\ cpc' = [cpc EXCEPT ![c] = "done"]
  /\ UNCHANGED <<status, delivered, relayVars, todo, nodeVars>>

PublishedAll(c) ==
  /\ cpc[c] = "publish"
  /\ todo[c] = {}
  /\ cpc' = [cpc EXCEPT ![c] = "mark"]
  /\ UNCHANGED <<status, delivered, relayVars, todo, nodeVars>>

\* Mutant: the entries are marked before their events are published.
MarkOwnTooEarly(c) ==
  /\ cpc[c] \in {"publish", "mark"}
  /\ Marked(EventsOf[c])
  /\ cpc' = [cpc EXCEPT ![c] = "done"]
  /\ UNCHANGED <<delivered, relayVars, todo, nodeVars>>

\* onEventsDispatched.
MarkOwn(c) ==
  /\ cpc[c] = "mark"
  /\ Marked(EventsOf[c])
  /\ cpc' = [cpc EXCEPT ![c] = "done"]
  /\ UNCHANGED <<delivered, relayVars, todo, nodeVars>>

\* Marking is best effort.
MarkOwnFails(c) ==
  /\ "mark" \in Faults
  /\ cpc[c] = "mark"
  /\ cpc' = [cpc EXCEPT ![c] = "done"]
  /\ UNCHANGED <<status, delivered, relayVars, todo, nodeVars>>

-----------------------------------------------------------------------------
(* The relay.                                                              *)

\* start() is a no-op when the timer runs; a shutdown does not refuse it.
StartRelay(n) ==
  /\ phase[n] # "down"
  /\ ~timer[n]
  /\ timer' = [timer EXCEPT ![n] = TRUE]
  /\ UNCHANGED <<status, delivered, processing, rpc, batch, worked, commandVars, nodeVars>>

\* stop() does not end a processOnce() that is running.
StopRelay(n) ==
  /\ phase[n] # "down"
  /\ timer[n]
  /\ timer' = [timer EXCEPT ![n] = FALSE]
  /\ UNCHANGED <<status, delivered, processing, rpc, batch, worked, commandVars, nodeVars>>

\* Mutant: the flag is set only after the entries are loaded.
EnterLate(p) ==
  /\ rpc' = [rpc EXCEPT ![p] = "load"]
  /\ UNCHANGED <<status, delivered, timer, processing, batch, worked, commandVars, nodeVars>>

\* processOnce(): the flag is tested and set before the first await.
Enter(p) ==
  /\ processing' = [processing EXCEPT ![p[1]] = TRUE]
  /\ rpc' = [rpc EXCEPT ![p] = "load"]
  /\ UNCHANGED <<status, delivered, timer, batch, worked, commandVars, nodeVars>>

\* The timer fires; when a call is running this one returns 0 at once.
Tick(n) ==
  /\ timer[n] /\ rpc[<<n, "poll">>] = "idle"
  /\ ~processing[n]
  /\ Enter(<<n, "poll">>)

ProcessOutboxOnce(n) ==
  /\ phase[n] # "down" /\ rpc[<<n, "manual">>] = "idle"
  /\ ~processing[n]
  /\ Enter(<<n, "manual">>)

\* Mutant: the flag is reset only when the batch was not empty.
ReturnsKeepsFlag(p, any) ==
  /\ processing' = [processing EXCEPT ![p[1]] = ~any]
  /\ rpc' = [rpc EXCEPT ![p] = IF p[2] # "drain" THEN "idle"
                               ELSE IF any THEN "call" ELSE "returned"]

\* processOnce() returns, `any` telling whether its count is positive; drain()
\* then calls it again.  The flag is reset in `finally`.
Returns(p, any) ==
  /\ processing' = [processing EXCEPT ![p[1]] = FALSE]
  /\ rpc' = [rpc EXCEPT ![p] = IF p[2] # "drain" THEN "idle"
                               ELSE IF any THEN "call" ELSE "returned"]

\* drain()'s call: a count of 0, also from a busy relay, ends its loop.
DrainCalls(n) ==
  LET p == <<n, "drain">> IN
  /\ rpc[p] = "call"
  /\ \/ ~processing[n] /\ Enter(p)
     \/ /\ processing[n]
        /\ rpc' = [rpc EXCEPT ![p] = "returned"]
        /\ UNCHANGED <<status, delivered, timer, processing, batch, worked, commandVars, nodeVars>>

LoadBatch(p) ==
  /\ rpc[p] = "load"
  /\ batch' = [batch EXCEPT ![p] = OldestUnpublished]
  /\ worked' = [worked EXCEPT ![p] = FALSE]
  /\ \/ Unpublished = {} /\ Returns(p, FALSE)
     \/ /\ Unpublished # {}
        /\ rpc' = [rpc EXCEPT ![p] = "dispatch"]
        /\ UNCHANGED processing
  /\ UNCHANGED <<status, delivered, timer, commandVars, nodeVars>>

LoadFails(p) ==
  /\ "load" \in Faults
  /\ rpc[p] = "load"
  /\ Returns(p, FALSE)
  /\ UNCHANGED <<status, delivered, timer, batch, worked, commandVars, nodeVars>>

RelayDispatch(p, e) ==
  /\ rpc[p] = "dispatch"
  /\ IsNext(e, batch[p])
  /\ DispatchResolves(p[1], e)
  /\ rpc' = [rpc EXCEPT ![p] = "mark"]
  /\ UNCHANGED <<status, timer, processing, batch, worked, commandVars, nodeVars>>

\* The entry stays unpublished and the loop goes on with the next one.
RelayDispatchFails(p, e) ==
  /\ rpc[p] = "dispatch"
  /\ IsNext(e, batch[p])
  /\ DispatchRejects(p[1], e)
  /\ batch' = [batch EXCEPT ![p] = @ \ {e}]
  /\ UNCHANGED <<status, delivered, timer, processing, rpc, worked, commandVars, nodeVars>>

RelayMark(p, e) ==
  /\ rpc[p] = "mark"
  /\ IsNext(e, batch[p])
  /\ Marked({e})
  /\ batch' = [batch EXCEPT ![p] = @ \ {e}]
  /\ worked' = [worked EXCEPT ![p] = TRUE]
  /\ rpc' = [rpc EXCEPT ![p] = "dispatch"]
  /\ UNCHANGED <<delivered, timer, processing, commandVars, nodeVars>>

RelayMarkFails(p, e) ==
  /\ "mark" \in Faults
  /\ rpc[p] = "mark"
  /\ IsNext(e, batch[p])
  /\ batch' = [batch EXCEPT ![p] = @ \ {e}]
  /\ rpc' = [rpc EXCEPT ![p] = "dispatch"]
  /\ UNCHANGED <<status, delivered, timer, processing, worked, commandVars, nodeVars>>

BatchDone(p) ==
  /\ rpc[p] = "dispatch"
  /\ batch[p] = {}
  /\ Returns(p, worked[p])
  /\ UNCHANGED <<status, delivered, timer, batch, worked, commandVars, nodeVars>>

\* deletePublished(), called by the application.
DeletePublished ==
  /\ \E e \in Entries : status[e] = "published"
  /\ status' = [e \in Entries |-> IF status[e] = "published" THEN "deleted" ELSE status[e]]
  /\ UNCHANGED <<delivered, relayVars, commandVars, nodeVars>>

-----------------------------------------------------------------------------
(* Shutdown, crash and restart of a node.                                  *)

Shutdown(n) ==
  /\ phase[n] = "up" /\ stops < MaxStops
  /\ phase' = [phase EXCEPT ![n] = "stopping"]
  /\ stops' = stops + 1
  /\ UNCHANGED <<status, delivered, relayVars, commandVars>>

Busy(n) == \E c \in Commands : Home[c] = n /\ cpc[c] \in {"running", "publish", "mark"}

\* Phase 1 ends when no operation is active or at the deadline; drain() stops the
\* timer and makes its first call.
BeginDrain(n) ==
  /\ phase[n] = "stopping"
  /\ ~Busy(n) \/ "deadline" \in Faults
  /\ phase' = [phase EXCEPT ![n] = "draining"]
  /\ timer' = [timer EXCEPT ![n] = FALSE]
  /\ rpc' = [rpc EXCEPT ![<<n, "drain">>] = "call"]
  /\ UNCHANGED <<status, delivered, processing, batch, worked, commandVars, stops>>

\* Phase 2 ends when drain() resolves or at the deadline; the bus is closed.
CloseBus(n) ==
  /\ phase[n] = "draining"
  /\ rpc[<<n, "drain">>] = "returned" \/ "deadline" \in Faults
  /\ phase' = [phase EXCEPT ![n] = "closed"]
  /\ UNCHANGED <<status, delivered, relayVars, commandVars, stops>>

\* The process ends, and with it all that runs in it.
Exit(n) ==
  /\ phase' = [phase EXCEPT ![n] = "down"]
  /\ timer' = [timer EXCEPT ![n] = FALSE]
  /\ processing' = [processing EXCEPT ![n] = FALSE]
  /\ rpc' = [p \in Polls |-> IF p[1] = n THEN "idle" ELSE rpc[p]]
  /\ batch' = [p \in Polls |-> IF p[1] = n THEN {} ELSE batch[p]]
  /\ worked' = [p \in Polls |-> IF p[1] = n THEN FALSE ELSE worked[p]]
  /\ cpc' = [c \in Commands |->
               IF Home[c] = n /\ cpc[c] # "idle" THEN "done" ELSE cpc[c]]
  /\ UNCHANGED <<status, delivered, todo>>

ProcessExits(n) == phase[n] = "closed" /\ Exit(n) /\ UNCHANGED stops

Crash(n) ==
  /\ "crash" \in Faults /\ phase[n] # "down" /\ stops < MaxStops
  /\ Exit(n)
  /\ stops' = stops + 1

Restart(n) ==
  /\ phase[n] = "down"
  /\ phase' = [phase EXCEPT ![n] = "up"]
  /\ UNCHANGED <<status, delivered, relayVars, commandVars, stops>>

-----------------------------------------------------------------------------
CommandStep(c) ==
  \/ Commit(c) \/ PublishedAll(c) \/ MarkOwn(c) \/ MarkOwnFails(c)
  \/ \E e \in Entries : PublishEvent(c, e) \/ PublishRejected(c, e)

PollStep(p) ==
  \/ LoadBatch(p) \/ LoadFails(p) \/ BatchDone(p)
  \/ \E e \in Entries : \/ RelayDispatch(p, e) \/ RelayDispatchFails(p, e)
                        \/ RelayMark(p, e) \/ RelayMarkFails(p, e)

LifeStep(n) ==
  \/ BeginDrain(n) \/ CloseBus(n) \/ ProcessExits(n) \/ Restart(n)

OutboxNext ==
  \/ \E c \in Commands : BeginCommand(c) \/ CommandStep(c)
  \/ \E p \in Polls : PollStep(p)
  \/ \E n \in Nodes : \/ StartRelay(n) \/ StopRelay(n) \/ Tick(n) \/ ProcessOutboxOnce(n)
                      \/ DrainCalls(n) \/ Shutdown(n) \/ Crash(n) \/ LifeStep(n)
  \/ DeletePublished

OutboxSpec == OutboxInit /\ [][OutboxNext]_outboxVars

-----------------------------------------------------------------------------
(* Fairness: running code goes on, nodes come back, a stopped relay is     *)
(* started again and its timer fires; and what can succeed again and again *)
(* - a load, the dispatch of an event that is not poison, a mark -         *)
(* succeeds at last.  Nobody is obliged to dispatch a command, to shut     *)
(* down or to clean up.                                                    *)

OutboxFairness ==
  /\ \A c \in Commands : WF_outboxVars(CommandStep(c))
  /\ \A p \in Polls : WF_outboxVars(PollStep(p))
  /\ \A n \in Nodes : /\ WF_outboxVars(LifeStep(n)) /\ WF_outboxVars(DrainCalls(n))
                      /\ WF_outboxVars(StartRelay(n)) /\ SF_outboxVars(Tick(n))
  /\ SF_outboxVars(\E p \in Polls : LoadBatch(p))
  /\ SF_outboxVars(\E p \in Polls, e \in Entries : RelayDispatch(p, e))
  /\ SF_outboxVars(\E p \in Polls, e \in Entries : RelayMark(p, e))

FairOutboxSpec == OutboxSpec /\ OutboxFairness

-----------------------------------------------------------------------------
(* Properties.                                                             *)

\* An entry leaves the relay's view only when its event was handed to a bus with
\* its handlers attached, whoever marked it and whatever crashed or shut down in
\* between: no committed event is lost (OutboxRelay: "at-least-once delivery").
MarkedWasDelivered ==
  \A e \in Entries : status[e] \in {"published", "deleted"} => e \in delivered

\* Two processOnce() calls of one relay never work at the same time, so no event
\* is sent twice by the relay itself ("concurrent processOnce calls are serialized").
SingleFlight ==
  \A n \in Nodes : \A x, y \in Callers :
    (/\ rpc[<<n, x>>] \in {"load", "dispatch", "mark"}
     /\ rpc[<<n, y>>] \in {"load", "dispatch", "mark"}) => x = y

\* A committed event that the bus is willing to take is delivered and its entry
\* settles, in spite of crashes, shutdowns, failed polls and failed marks.
EveryEntryDelivered ==
  \A e \in Entries \ Poison :
    status[e] = "pending" ~> (e \in delivered /\ status[e] # "pending")
=============================================================================
