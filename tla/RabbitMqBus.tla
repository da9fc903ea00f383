---------------------------- MODULE RabbitMqBus ----------------------------
(***************************************************************************)
(* RabbitMqEventBus: connection set-up with retries, the reconnection loop *)
(* that the close events of a connection or of its channel start, manual   *)
(* acknowledgement on the channel a delivery came from, deliveries of one  *)
(* aggregate chained one behind the other, in-memory retry counts and the  *)
(* dead-letter queue.                                                      *)
(*                                                                         *)
(* Connections are numbered in the order in which they are opened; each    *)
(* has one channel.  The queue keeps publish order, and a message that is  *)
(* requeued takes its old place.                                           *)
(***************************************************************************)
EXTENDS MessageLedger, Sequences

CONSTANTS MaxConnections, MaxAttempts, Prefetch

Connections == 1..MaxConnections

ASSUME RabbitAssumption ==
  MaxConnections \in Nat /\ MaxAttempts \in Nat \ {0} /\ Prefetch \in Nat \ {0}

VARIABLES
  rReady,         \* messages in the queue that no consumer holds
  rUnacked,       \* rUnacked[i]: messages held by the consumer of connection i
  rBound,         \* the durable queue exists and is bound to the exchange
  rSocket,        \* state of each connection: "half" has lost its channel
  rConsuming,     \* connections whose channel consumes the queue
  rArmed,         \* connections whose close events start a reconnection
  rConnection, rChannel,   \* _connection and _channel; 0 is null
  rConnected, rClosed, rReconnecting, rHandlers,  \* flags; a handler is registered
  rPc, rDial, rAttempt,    \* the connect or reconnect call in progress
  rLate,          \* the channel on which a late on() sets up its consumer
  rClosing,       \* close() waits for its channel
  rChain,         \* _aggregateChains: deliveries <<message, connection>>
  rRun,           \* what the head of each chain is doing
  rCounts         \* _deliveryCounts

rBroker == <<rReady, rUnacked, rBound>>
rLink == <<rSocket, rConsuming, rArmed, rConnection, rChannel>>
rFlags == <<rConnected, rClosed, rReconnecting, rHandlers>>
rCall == <<rPc, rDial, rAttempt, rLate, rClosing>>
rWork == <<rChain, rRun, rCounts>>
rabbitVars == <<rBroker, rLink, rFlags, rCall, rWork>>

RabbitInit ==
  /\ rReady = {} /\ rUnacked = [i \in Connections |-> {}] /\ rBound = FALSE
  /\ rSocket = [i \in Connections |-> "unused"]
  /\ rConsuming = {} /\ rArmed = {} /\ rConnection = 0 /\ rChannel = 0
  /\ rConnected = FALSE /\ rClosed = FALSE /\ rReconnecting = FALSE
  /\ rHandlers \in BOOLEAN
  /\ rPc = "connecting" /\ rDial = 0 /\ rAttempt = 0 /\ rLate = 0
  /\ rClosing = FALSE
  /\ rChain = [a \in Aggregates |-> << >>]
  /\ rRun = [a \in Aggregates |-> "idle"]
  /\ rCounts = [m \in Messages |-> 0]

RabbitTypeOK ==
  /\ rReady \subseteq Messages /\ rUnacked \in [Connections -> SUBSET Messages]
  /\ rSocket \in [Connections -> {"unused", "open", "half", "closed"}]
  /\ rConsuming \subseteq Connections /\ rArmed \subseteq Connections
  /\ {rConnection, rChannel, rDial, rLate} \subseteq 0..MaxConnections
  /\ {rBound, rConnected, rClosed, rReconnecting, rHandlers, rClosing} \subseteq BOOLEAN
  /\ rPc \in {"connecting", "setup", "idle", "failed", "reconnect", "redialing", "resetup"}
  /\ rAttempt \in 0..MaxAttempts
  /\ rChain \in [Aggregates -> Seq(Messages \X Connections)]
  /\ rRun \in [Aggregates -> {"idle", "handlers", "nothing"}]
  /\ rCounts \in [Messages -> 0..MaxRetries]

-----------------------------------------------------------------------------
(* What the broker and amqplib do when links go down. *)

\* The connection that the next dial opens.
Fresh(i) ==
  /\ rSocket[i] = "unused"
  /\ \A j \in Connections : rSocket[j] = "unused" => i <= j

Alive(i) == i # 0 /\ rSocket[i] = "open"

\* Everything the channels of the connections in S hold is requeued.
Requeue(S) ==
  /\ rReady' = rReady \cup UNION {rUnacked[i] : i \in S}
  /\ rUnacked' = [i \in Connections |-> IF i \in S THEN {} ELSE rUnacked[i]]
  /\ rConsuming' = rConsuming \ S
  /\ UNCHANGED rBound

\* The close listeners: _handleUnexpectedClose, whichever connection it was.
UnexpectedClose(i) ==
  IF i \in rArmed /\ ~rClosed /\ ~rReconnecting
  THEN rReconnecting' = TRUE /\ rConnected' = FALSE /\ rPc' = "reconnect"
  ELSE UNCHANGED <<rReconnecting, rConnected, rPc>>

\* A connection is lost, or the broker closes only its channel.
RabbitLinkDown(i, state) ==
  /\ Fault
  /\ rSocket[i] = "open" \/ (rSocket[i] = "half" /\ state = "closed")
  /\ rSocket' = [rSocket EXCEPT ![i] = state]
  /\ Requeue({i})
  /\ UnexpectedClose(i)
  /\ UNCHANGED <<outcome, rArmed, rConnection, rChannel,
                 rClosed, rHandlers, rDial, rAttempt, rLate, rClosing, rWork>>

-----------------------------------------------------------------------------
(* connect(). *)

\* amqplib.connect resolves.
RabbitOpen ==
  /\ rPc = "connecting"
  /\ \E i \in Connections :
       /\ Fresh(i)
       /\ rSocket' = [rSocket EXCEPT ![i] = "open"]
       /\ rConnection' = i /\ rDial' = i
  /\ rPc' = "setup"
  /\ UNCHANGED <<ledger, rBroker, rConsuming, rArmed, rChannel, rFlags, rAttempt,
                 rLate, rClosing, rWork>>

\* _setupConsumer on a channel, for the handler that is registered, if any.
SetupConsumer(i) ==
  /\ rBound' = (rBound \/ rHandlers)
  /\ rConsuming' = IF rHandlers THEN rConsuming \cup {i} ELSE rConsuming

\* Channel, prefetch, exchange and consumers are set up; only then are the
\* close listeners registered.
RabbitConnected ==
  /\ rPc = "setup" /\ Alive(rDial)
  /\ SetupConsumer(rDial)
  /\ rChannel' = rDial /\ rArmed' = rArmed \cup {rDial}
  /\ rConnected' = TRUE /\ rPc' = "idle"
  /\ UNCHANGED <<ledger, rReady, rUnacked, rSocket, rConnection, rClosed, rReconnecting,
                 rHandlers, rDial, rAttempt, rLate, rClosing, rWork>>

\* An attempt fails: what it opened is closed, and after the back-off the
\* next one starts, unless it was the last or the exchange has another type.
RabbitConnectFails ==
  /\ rPc \in {"connecting", "setup"}
  /\ IF rPc = "setup" /\ ~Alive(rDial) THEN UNCHANGED faults ELSE Fault
  /\ rSocket' = IF rPc = "setup" THEN [rSocket EXCEPT ![rDial] = "closed"] ELSE rSocket
  /\ rConnection' = 0 /\ rChannel' = 0
  /\ rAttempt' = rAttempt + 1
  /\ rPc' \in (IF rAttempt' < MaxAttempts THEN {"connecting"} ELSE {"failed"})
              \cup (IF rPc = "setup" THEN {"failed"} ELSE {})
  /\ UNCHANGED <<outcome, rBroker, rConsuming, rArmed, rFlags,
                 rDial, rLate, rClosing, rWork>>

-----------------------------------------------------------------------------
(* _reconnectPersistently. *)

\* The loop's test of _closed, before it dials.
RabbitRedial ==
  /\ rPc = "reconnect"
  /\ IF rClosed THEN rPc' = "idle" /\ rReconnecting' = FALSE
     ELSE rPc' = "redialing" /\ UNCHANGED rReconnecting
  /\ UNCHANGED <<ledger, rBroker, rLink, rConnected, rClosed, rHandlers, rDial, rAttempt,
                 rLate, rClosing, rWork>>

\* amqplib.connect resolves; _closed is not tested again.
RabbitReopen ==
  /\ rPc = "redialing"
  /\ \E i \in Connections :
       /\ Fresh(i)
       /\ rSocket' = [rSocket EXCEPT ![i] = "open"]
       /\ rConnection' = i /\ rDial' = i /\ rArmed' = rArmed \cup {i}
  /\ rPc' = "resetup"
  /\ UNCHANGED <<ledger, rBroker, rConsuming, rChannel, rFlags, rAttempt, rLate,
                 rClosing, rWork>>

RabbitReconnected ==
  /\ rPc = "resetup" /\ Alive(rDial)
  /\ SetupConsumer(rDial)
  /\ rChannel' = rDial
  /\ rConnected' = TRUE /\ rReconnecting' = FALSE /\ rPc' = "idle"
  /\ UNCHANGED <<ledger, rReady, rUnacked, rSocket, rArmed, rConnection, rClosed,
                 rHandlers, rDial, rAttempt, rLate, rClosing, rWork>>

\* Mutant: the loop gives up after a failed attempt, like connect().
RabbitReconnectGivesUp ==
  /\ rPc \in {"redialing", "resetup"}
  /\ IF rPc = "resetup" /\ ~Alive(rDial) THEN UNCHANGED faults ELSE Fault
  /\ rPc' = "idle" /\ rReconnecting' = FALSE
  /\ UNCHANGED <<outcome, rBroker, rLink, rConnected, rClosed, rHandlers, rDial, rAttempt, rLate,
                 rClosing, rWork>>

\* An attempt fails.  Its connection is not closed, and may already consume
\* when it is the consumer of a later event name that could not be set up.
RabbitReconnectFails ==
  /\ rPc \in {"redialing", "resetup"}
  /\ IF rPc = "resetup" /\ ~Alive(rDial) THEN UNCHANGED faults ELSE Fault
  /\ IF rPc = "resetup"
     THEN /\ rChannel' \in {rChannel, rDial}
          /\ rConsuming' \in {rConsuming} \cup
               (IF Alive(rDial) /\ rHandlers /\ rBound THEN {rConsuming \cup {rDial}} ELSE {})
     ELSE UNCHANGED <<rChannel, rConsuming>>
  /\ rPc' = IF rClosed THEN "idle" ELSE "reconnect"
  /\ rReconnecting' = ~rClosed
  /\ UNCHANGED <<outcome, rBroker, rSocket, rArmed, rConnection,
                 rConnected, rClosed, rHandlers, rDial, rAttempt, rLate, rClosing, rWork>>

-----------------------------------------------------------------------------
(* on(), dispatch() and close(). *)

\* The first handler for the event name.  On a connected bus its consumer is
\* set up in the background, on the channel of the moment.
RabbitOn ==
  /\ ~rClosed /\ ~rHandlers
  /\ rHandlers' = TRUE
  /\ rLate' = IF rConnected THEN rChannel ELSE 0
  /\ UNCHANGED <<ledger, rBroker, rLink, rConnected, rClosed, rReconnecting, rPc, rDial,
                 rAttempt, rClosing, rWork>>

\* The background set-up succeeds, or fails because the channel is gone: the
\* next reconnection will set the consumer up.
RabbitLateConsumer ==
  /\ rLate # 0
  /\ rLate' = 0
  /\ IF Alive(rLate) THEN rBound' = TRUE /\ rConsuming' = rConsuming \cup {rLate}
     ELSE UNCHANGED <<rBound, rConsuming>>
  /\ UNCHANGED <<ledger, rReady, rUnacked, rSocket, rArmed, rConnection, rChannel, rFlags,
                 rPc, rDial, rAttempt, rClosing, rWork>>

\* publish() and waitForConfirms() on the current channel.  An exchange drops
\* what no queue is bound for.
RabbitDispatch ==
  /\ rConnected /\ Alive(rChannel) /\ rBound
  /\ NextMessage \in Messages
  /\ accepted' = accepted \cup {NextMessage}
  /\ rReady' = rReady \cup {NextMessage}
  /\ UNCHANGED <<handled, parked, discarded, failures, faults, rUnacked, rBound, rLink, rFlags, rCall,
                 rWork>>

\* close() up to its first await: the flags, the handlers, and channel.close()
\* on the current channel, whose deliveries can no longer be acknowledged.
RabbitClose ==
  /\ ~rClosed
  /\ rClosed' = TRUE /\ rConnected' = FALSE /\ rHandlers' = FALSE
  /\ Requeue({rChannel} \cap Connections)
  /\ rSocket' = IF Alive(rChannel) THEN [rSocket EXCEPT ![rChannel] = "half"] ELSE rSocket
  /\ rClosing' = TRUE
  /\ UNCHANGED <<ledger, rArmed, rConnection, rChannel, rReconnecting, rPc, rDial, rAttempt,
                 rLate, rWork>>

\* The rest of close(): the connection that is current by then.
RabbitCloseConnection ==
  /\ rClosing
  /\ rClosing' = FALSE
  /\ Requeue({rConnection} \cap Connections)
  /\ rSocket' = IF rConnection # 0 THEN [rSocket EXCEPT ![rConnection] = "closed"] ELSE rSocket
  /\ rConnection' = 0 /\ rChannel' = 0
  /\ UNCHANGED <<ledger, rArmed, rFlags, rPc, rDial, rAttempt, rLate, rWork>>

\* The process dies and starts again: a new bus, with its handler.
RabbitCrash ==
  /\ Fault
  /\ Requeue(Connections)
  /\ rSocket' = [i \in Connections |-> IF rSocket[i] = "unused" THEN "unused" ELSE "closed"]
  /\ rArmed' = {} /\ rConnection' = 0 /\ rChannel' = 0
  /\ rConnected' = FALSE /\ rReconnecting' = FALSE /\ rHandlers' = TRUE
  /\ ~rClosed /\ UNCHANGED rClosed
  /\ rPc' = "connecting" /\ rDial' = 0 /\ rAttempt' = 0 /\ rLate' = 0
  /\ rClosing' = FALSE
  /\ rChain' = [a \in Aggregates |-> << >>] /\ rRun' = [a \in Aggregates |-> "idle"]
  /\ rCounts' = [m \in Messages |-> 0]
  /\ UNCHANGED outcome

-----------------------------------------------------------------------------
(* Deliveries. *)

\* The broker hands its oldest ready message to a consumer that has room for it.
Offered(i, m) ==
  /\ i \in rConsuming /\ Cardinality(rUnacked[i]) < Prefetch
  /\ \A n \in rReady : m <= n

\* The callback appends it to the chain of its aggregate.
RabbitDeliver(i) ==
  /\ \E m \in rReady \ Poison :
       /\ Offered(i, m)
       /\ rReady' = rReady \ {m}
       /\ rUnacked' = [rUnacked EXCEPT ![i] = @ \cup {m}]
       /\ rChain' = [rChain EXCEPT ![AggregateOf[m]] = Append(@, <<m, i>>)]
  /\ UNCHANGED <<ledger, rBound, rLink, rFlags, rCall, rRun, rCounts>>

\* A body that cannot be parsed belongs to no chain, and is acknowledged.
RabbitPoison(i) ==
  /\ \E m \in rReady \cap Poison :
       /\ Offered(i, m)
       /\ rReady' = rReady \ {m}
  /\ UNCHANGED <<ledger, rUnacked, rBound, rLink, rFlags, rCall, rWork>>

\* Acknowledgements go to the channel the delivery came from.
AckOn(m, i) == rUnacked' = [rUnacked EXCEPT ![i] = @ \ {m}]

Pop(a) == rChain' = [rChain EXCEPT ![a] = Tail(@)] /\ rRun' = [rRun EXCEPT ![a] = "idle"]

\* _processDelivery finds the retries exhausted: _deadLetter publishes and
\* acknowledges, or does neither when the channel is gone.
RabbitDeadLetter(a) ==
  /\ rChain[a] # << >> /\ rRun[a] = "idle"
  /\ LET m == Head(rChain[a])[1]
         i == Head(rChain[a])[2]
     IN  /\ rCounts[m] + 1 > MaxRetries
         /\ rCounts' = [rCounts EXCEPT ![m] = 0]
         /\ IF Alive(i) THEN parked' = parked \cup {m} /\ AckOn(m, i)
            ELSE UNCHANGED <<parked, rUnacked>>
  /\ Pop(a)
  /\ UNCHANGED <<accepted, handled, discarded, failures, faults, rReady, rBound, rLink, rFlags, rCall>>

\* _processDelivery counts the delivery and invokes the handlers that are
\* registered at this moment.
RabbitInvoke(a) ==
  /\ rChain[a] # << >> /\ rRun[a] = "idle"
  /\ LET m == Head(rChain[a])[1] IN
       /\ rCounts[m] + 1 <= MaxRetries
       /\ rCounts' = [rCounts EXCEPT ![m] = @ + 1]
  /\ rRun' = [rRun EXCEPT ![a] = IF rHandlers THEN "handlers" ELSE "nothing"]
  /\ UNCHANGED <<ledger, rBroker, rLink, rFlags, rCall, rChain>>

\* Mutant: the count survives a successful delivery.
RabbitHandledKeepsCount(a) ==
  /\ rRun[a] # "idle"
  /\ LET m == Head(rChain[a])[1]
         i == Head(rChain[a])[2]
     IN  /\ handled' = IF rRun[a] = "handlers" THEN handled \cup {m} ELSE handled
         /\ IF Alive(i) THEN AckOn(m, i) ELSE UNCHANGED rUnacked
  /\ Pop(a)
  /\ UNCHANGED <<accepted, parked, discarded, failures, faults, rReady, rBound, rLink, rFlags,
                 rCall, rCounts>>

\* No handler rejected: acknowledge and forget the count.
RabbitHandled(a) ==
  /\ rRun[a] # "idle"
  /\ LET m == Head(rChain[a])[1]
         i == Head(rChain[a])[2]
     IN  /\ handled' = IF rRun[a] = "handlers" THEN handled \cup {m} ELSE handled
         /\ IF Alive(i) THEN AckOn(m, i) ELSE UNCHANGED rUnacked
         /\ rCounts' = [rCounts EXCEPT ![m] = 0]
  /\ Pop(a)
  /\ UNCHANGED <<accepted, parked, discarded, failures, faults, rReady, rBound, rLink, rFlags, rCall>>

\* Mutant: nack without requeue.
RabbitRejectedDrops(a) ==
  /\ rRun[a] = "handlers"
  /\ LET m == Head(rChain[a])[1]
         i == Head(rChain[a])[2]
     IN  /\ failures' = [failures EXCEPT ![m] = @ + 1]
         /\ IF Alive(i) THEN AckOn(m, i) ELSE UNCHANGED rUnacked
  /\ Pop(a)
  /\ UNCHANGED <<accepted, handled, parked, discarded, faults, rReady, rBound, rLink, rFlags,
                 rCall, rCounts>>

\* A handler rejected: negative acknowledgement, which requeues.
RabbitRejected(a) ==
  /\ rRun[a] = "handlers"
  /\ LET m == Head(rChain[a])[1]
         i == Head(rChain[a])[2]
     IN  /\ failures' = [failures EXCEPT ![m] = @ + 1]
         /\ IF Alive(i) THEN AckOn(m, i) /\ rReady' = rReady \cup {m}
            ELSE UNCHANGED <<rUnacked, rReady>>
  /\ Pop(a)
  /\ UNCHANGED <<accepted, handled, parked, discarded, faults, rBound, rLink, rFlags, rCall, rCounts>>

-----------------------------------------------------------------------------
RabbitConnecting ==
  RabbitOpen \/ RabbitConnected \/ RabbitRedial \/ RabbitReopen \/ RabbitReconnected
  \/ RabbitLateConsumer \/ RabbitCloseConnection
\* An attempt on a link that is already dead ends.
RabbitAttemptEnds ==
  rPc \in {"setup", "resetup"} /\ ~Alive(rDial) /\ (RabbitConnectFails \/ RabbitReconnectFails)
RabbitWork(a) == RabbitDeadLetter(a) \/ RabbitInvoke(a) \/ RabbitHandled(a)

RabbitNext ==
  \/ RabbitConnecting \/ RabbitConnectFails \/ RabbitReconnectFails
  \/ RabbitOn \/ RabbitDispatch \/ RabbitClose \/ RabbitCrash
  \/ \E i \in Connections :
       RabbitLinkDown(i, "half") \/ RabbitLinkDown(i, "closed")
       \/ RabbitDeliver(i) \/ RabbitPoison(i)
  \/ \E a \in Aggregates : RabbitWork(a) \/ RabbitRejected(a)

\* Messages that have left the queue for good.
RabbitGone ==
  accepted \ (rReady \cup UNION {rUnacked[i] : i \in Connections})
=============================================================================
