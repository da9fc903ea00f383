------------------------- MODULE BrokerBusesProofs -------------------------
(***************************************************************************)
(* What holds of the broker buses for any number of messages, aggregates,  *)
(* connections, retries and faults.                                        *)
(*                                                                         *)
(* The invariant has a part for the wired bus only.  For RabbitMQ it says  *)
(* where a message is: ready, or held by one consumer, and a delivery      *)
(* queued behind its aggregate's chain is still held as long as its        *)
(* channel is open, so that an acknowledgement on that channel can only    *)
(* take off the message of this very delivery.  For Kafka it says that     *)
(* the partition is settled up to the committed offset and untouched from  *)
(* the message after the one in hand.  For NATS, that a loop without a     *)
(* JetStream context belongs to a closed bus.                              *)
(***************************************************************************)
EXTENDS BrokerBuses, SequenceTheorems, FiniteSetTheorems, TLAPS

-----------------------------------------------------------------------------
(* The ledger.                                                             *)

\* Messages are numbered in the order in which they are accepted.
InOrder == \E k \in 0..MaxMessages : accepted = 1..k

LedgerInv ==
  /\ InOrder
  /\ handled \subseteq accepted /\ parked \subseteq accepted
  /\ failures \in [Messages -> Nat]

ParkedRejected == \A m \in parked \ Poison : failures[m] >= MaxRetries

-----------------------------------------------------------------------------
(* RabbitMQ.                                                               *)

Sockets == {"unused", "open", "half", "closed"}

RabbitTypes ==
  /\ rUnacked \in [Connections -> SUBSET Messages]
  /\ rSocket \in [Connections -> Sockets]
  /\ rConsuming \subseteq Connections
  /\ rDial \in 0..MaxConnections /\ rLate \in 0..MaxConnections
  /\ rChannel \in 0..MaxConnections /\ rConnection \in 0..MaxConnections
  /\ rChain \in [Aggregates -> Seq(Messages \X Connections)]
  /\ rRun \in [Aggregates -> {"idle", "handlers", "nothing"}]
  /\ rCounts \in [Messages -> Nat]
  /\ {rHandlers, rClosed} \subseteq BOOLEAN

\* Every message is in one place at most, and was accepted.
OnePlace ==
  /\ rReady \subseteq accepted
  /\ \A i \in Connections : rUnacked[i] \subseteq accepted /\ rUnacked[i] \cap rReady = {}
  /\ \A i, k \in Connections : i # k => rUnacked[i] \cap rUnacked[k] = {}

\* The deliveries in the chain of a: of its messages, each still held by its channel
\* while that is open, and then queued once.
ChainOf(a) ==
  /\ \A j \in 1..Len(rChain[a]) :
       /\ rChain[a][j][1] \in accepted /\ AggregateOf[rChain[a][j][1]] = a
       /\ rSocket[rChain[a][j][2]] # "unused"
       /\ rSocket[rChain[a][j][2]] = "open" =>
            /\ rChain[a][j][1] \in rUnacked[rChain[a][j][2]]
            /\ \A k \in 1..Len(rChain[a]) : rChain[a][k] = rChain[a][j] => k = j
  /\ rRun[a] # "idle" => rChain[a] # << >>
  /\ rRun[a] = "nothing" => rClosed

\* A delivery of m is being worked on.
Working(m) ==
  /\ rRun[AggregateOf[m]] # "idle"
  /\ rChain[AggregateOf[m]][1][1] = m

\* A delivery that was counted was rejected, or is the one being worked on.
RabbitCounted ==
  \A m \in Messages : rCounts[m] <= failures[m] + (IF Working(m) THEN 1 ELSE 0)

\* Only a bus with a handler consumes, until it is closed.
HandlersThere ==
  rConsuming # {} \/ rLate # 0 \/ (\E a \in Aggregates : rChain[a] # << >>) =>
    rHandlers \/ rClosed

Consuming == \A i \in rConsuming : rSocket[i] # "unused"

RabbitInv ==
  /\ RabbitTypes /\ OnePlace /\ (\A a \in Aggregates : ChainOf(a))
  /\ RabbitCounted /\ HandlersThere /\ Consuming /\ ParkedRejected

-----------------------------------------------------------------------------
(* Kafka.                                                                  *)

Done == handled \cup parked \cup Poison

KafkaTypes ==
  /\ kLog \in [Aggregates -> Seq(Messages)]
  /\ kCommitted \in [Aggregates -> Int] /\ kPosition \in [Aggregates -> Nat]
  /\ kBusy \in Aggregates \cup {NoPartition}
  /\ kCounts \in [Messages -> Nat]

\* A partition holds the accepted messages of its key, in order.
Logged ==
  /\ \A p \in Aggregates : \A j \in 1..Len(kLog[p]) :
       /\ kLog[p][j] \in accepted /\ AggregateOf[kLog[p][j]] = p
       /\ \A k \in 1..Len(kLog[p]) : j < k => kLog[p][j] < kLog[p][k]
  /\ \A n \in accepted :
       \E j \in 1..Len(kLog[AggregateOf[n]]) : kLog[AggregateOf[n]][j] = n

OffsetsInLog ==
  \A p \in Aggregates :
    kCommitted[p] \in {NoOffset} \cup 0..Len(kLog[p]) /\ kPosition[p] <= Len(kLog[p])

MessageInHand ==
  kBusy # NoPartition =>
    /\ kPc \in {"running", "closing"}
    /\ kPosition[kBusy] < Len(kLog[kBusy])
    /\ kPhase = "commit" => InHand \in Done

KafkaCounted == \A m \in Messages : kCounts[m] <= failures[m]

\* For a group that has committed before: settled up to the offset, untouched
\* beyond the message in hand.
SettledPrefix(p) ==
  /\ kCommitted[p] = kPosition[p]
  /\ \A j \in 1..kPosition[p] : kLog[p][j] \in Done
  /\ \A j \in 1..Len(kLog[p]) :
       j > kPosition[p] + 1 => kLog[p][j] \notin handled \cup parked

KafkaInv ==
  /\ KafkaTypes /\ Logged /\ OffsetsInLog /\ MessageInHand /\ KafkaCounted /\ ParkedRejected
  /\ Established => \A p \in Aggregates : SettledPrefix(p)

-----------------------------------------------------------------------------
(* NATS.                                                                   *)

NatsInv ==
  /\ nLive \subseteq accepted
  /\ nDelivered \in [Messages -> Nat]
  /\ nInbox \in [Loops -> Seq(Messages \X Nat)]
  /\ \A l \in Loops : \A j \in 1..Len(nInbox[l]) : nInbox[l][j][1] \in accepted
  /\ nPc \in {"draining", "drained"} => nClosed

BusInv ==
  /\ broker \in {"rabbitmq", "kafka", "nats"}
  /\ LedgerInv
  /\ broker = "rabbitmq" => RabbitInv
  /\ broker = "kafka" => KafkaInv
  /\ broker = "nats" => NatsInv

-----------------------------------------------------------------------------
(* Lemmas about the ledger.                                                *)

\* The next message is a new one, later than all that were accepted, and
\* accepting it keeps the numbering.
LEMMA NextIsLast ==
  ASSUME InOrder, NextMessage \in Messages
  PROVE  /\ accepted \subseteq Messages
         /\ NextMessage \notin accepted
         /\ \A n \in accepted : n < NextMessage
         /\ \E k \in 0..MaxMessages : accepted \cup {NextMessage} = 1..k
<1> USE LedgerAssumption
<1>1. PICK k \in 0..MaxMessages : accepted = 1..k  BY DEF InOrder
<1>2. k \in Nat /\ k <= MaxMessages  OBVIOUS
<1>3. Cardinality(1..k) = IF 1 > k THEN 0 ELSE k - 1 + 1  BY <1>2, FS_Interval
<1>4. NextMessage = k + 1  BY <1>1, <1>2, <1>3 DEF NextMessage
<1>5. k + 1 \in 0..MaxMessages  BY <1>2, <1>4 DEF Messages
<1>6. accepted \cup {NextMessage} = 1..(k + 1)  BY <1>1, <1>2, <1>4
<1> QED  BY <1>1, <1>2, <1>4, <1>5, <1>6 DEF Messages

\* Accepted messages are messages.
LEMMA AcceptedAreMessages ==
  ASSUME InOrder
  PROVE  accepted \subseteq Messages
BY LedgerAssumption DEF InOrder, Messages

\* A step that settles accepted messages only keeps the ledger.
LEMMA LedgerSettles ==
  ASSUME LedgerInv, accepted' = accepted,
         handled' \subseteq accepted, parked' \subseteq accepted,
         failures' \in [Messages -> Nat]
  PROVE  LedgerInv'
BY DEF LedgerInv, InOrder

\* So does the dispatch of the next message.
LEMMA LedgerAccepts ==
  ASSUME LedgerInv, NextMessage \in Messages, accepted' = accepted \cup {NextMessage},
         UNCHANGED <<handled, parked, failures>>
  PROVE  LedgerInv'
<1>1. \E k \in 0..MaxMessages : accepted' = 1..k  BY NextIsLast DEF LedgerInv
<1>2. InOrder'  BY <1>1 DEF InOrder
<1> QED  BY <1>2 DEF LedgerInv

-----------------------------------------------------------------------------
(* RabbitMQ: steps that move links and leave the chains alone.             *)

\* The queue still has m, ready or held.
InQueue(m) == m \in rReady \/ \E i \in Connections : m \in rUnacked[i]

\* What a step of the bus does to the queue.
QueueStep ==
  /\ accepted \subseteq accepted'
  /\ handled \subseteq handled' /\ parked \subseteq parked'
  /\ handled' \cup parked' \subseteq accepted
  /\ \A m \in accepted : InQueue(m)' => InQueue(m)
  /\ \A m \in accepted : InQueue(m) /\ ~InQueue(m)' /\ ~rClosed =>
       m \in handled' \cup parked' \cup Poison
  /\ \A m \in accepted' \ accepted : InQueue(m)'
  /\ rClosed => rClosed'

RabbitGoal == LedgerInv' /\ RabbitInv' /\ QueueStep

\* What the channels in S held is ready again.
Requeued(S) ==
  /\ rReady' = rReady \cup UNION {rUnacked[i] : i \in S}
  /\ rUnacked' = [i \in Connections |-> IF i \in S THEN {} ELSE rUnacked[i]]

\* No link comes back, and one that is requeued is not open.
LinksMove(S) ==
  \A i \in Connections :
    /\ rSocket'[i] = "unused" => rSocket[i] = "unused"
    /\ rSocket'[i] = "open" =>
         rSocket[i] = "unused" \/ (rSocket[i] = "open" /\ i \notin S)

\* Requeueing moves messages from consumers to the queue, and loses none.
LEMMA RequeueKeeps ==
  ASSUME RabbitTypes, OnePlace, NEW S, S \subseteq Connections, Requeued(S),
         accepted' = accepted
  PROVE  /\ OnePlace' /\ rUnacked' \in [Connections -> SUBSET Messages]
         /\ \A m : InQueue(m)' <=> InQueue(m)
<1>1. rUnacked' \in [Connections -> SUBSET Messages]  BY DEF RabbitTypes, Requeued
<1>2. \A i \in Connections : rUnacked'[i] = IF i \in S THEN {} ELSE rUnacked[i]
  BY DEF Requeued
<1>3. \A m : m \in rReady' <=> m \in rReady \/ \E i \in S : m \in rUnacked[i]
  BY DEF Requeued
<1>4. rReady' \subseteq accepted'  BY <1>3 DEF OnePlace
<1>5. \A i \in Connections : rUnacked'[i] \subseteq accepted' /\ rUnacked'[i] \cap rReady' = {}
  <2> SUFFICES ASSUME NEW i \in Connections, NEW m, m \in rUnacked'[i]
               PROVE  m \in accepted /\ m \notin rReady'
    OBVIOUS
  <2>1. i \notin S /\ m \in rUnacked[i]  BY <1>2
  <2>2. \A k \in S : m \notin rUnacked[k]  BY <2>1 DEF OnePlace
  <2> QED  BY <1>3, <2>1, <2>2 DEF OnePlace
<1>6. \A i, k \in Connections : i # k => rUnacked'[i] \cap rUnacked'[k] = {}
  <2> SUFFICES ASSUME NEW i \in Connections, NEW k \in Connections, i # k
               PROVE  rUnacked'[i] \cap rUnacked'[k] = {}
    OBVIOUS
  <2>1. rUnacked[i] \cap rUnacked[k] = {}  BY DEF OnePlace
  <2> QED  BY <1>2, <2>1
<1>7. OnePlace'  BY <1>4, <1>5, <1>6 DEF OnePlace
<1>8. \A m : InQueue(m)' <=> InQueue(m)
  BY <1>2, <1>3 DEF InQueue
<1> QED  BY <1>1, <1>7, <1>8

\* A step that moves links, requeues what they held and touches no chain.
LEMMA LinkStep ==
  ASSUME LedgerInv, RabbitInv,
         UNCHANGED <<outcome, rChain, rRun, rCounts>>,
         NEW S, S \subseteq Connections, Requeued(S), LinksMove(S),
         rSocket' \in [Connections -> Sockets], rConsuming' \subseteq Connections,
         rDial' \in 0..MaxConnections, rLate' \in 0..MaxConnections,
         rChannel' \in 0..MaxConnections, rConnection' \in 0..MaxConnections,
         rHandlers' \in BOOLEAN, rClosed' \in BOOLEAN, rClosed => rClosed',
         HandlersThere', Consuming'
  PROVE  RabbitGoal
<1>1. /\ OnePlace' /\ rUnacked' \in [Connections -> SUBSET Messages]
      /\ \A m : InQueue(m)' <=> InQueue(m)
  BY RequeueKeeps DEF RabbitInv, outcome
<1>2. RabbitTypes'  BY <1>1 DEF RabbitInv, RabbitTypes
<1>3. ASSUME NEW a \in Aggregates  PROVE ChainOf(a)'
  <2>1. ChainOf(a) /\ rChain' = rChain /\ rRun' = rRun /\ accepted' = accepted
    BY DEF RabbitInv, outcome
  <2>2. ASSUME NEW j \in 1..Len(rChain[a])
        PROVE  /\ rSocket'[rChain[a][j][2]] # "unused"
               /\ rSocket'[rChain[a][j][2]] = "open" =>
                    /\ rChain[a][j][1] \in rUnacked'[rChain[a][j][2]]
                    /\ \A k \in 1..Len(rChain[a]) : rChain[a][k] = rChain[a][j] => k = j
    <3>1. rChain[a] \in Seq(Messages \X Connections)  BY DEF RabbitInv, RabbitTypes
    <3>2. rChain[a][j] \in Messages \X Connections  BY <3>1, ElementOfSeq
    <3> DEFINE i == rChain[a][j][2]
    <3>3. i \in Connections  BY <3>2
    <3>4. rSocket[i] # "unused"  BY <2>1 DEF ChainOf
    <3>5. rSocket'[i] = "open" => rSocket[i] = "open" /\ i \notin S
      BY <3>3, <3>4 DEF LinksMove
    <3>6. i \notin S => rUnacked'[i] = rUnacked[i]  BY <3>3 DEF Requeued
    <3>7. rSocket'[i] # "unused"  BY <3>3, <3>4 DEF LinksMove
    <3>8. rSocket[i] = "open" =>
            /\ rChain[a][j][1] \in rUnacked[i]
            /\ \A k \in 1..Len(rChain[a]) : rChain[a][k] = rChain[a][j] => k = j
      BY <2>1 DEF ChainOf
    <3> QED  BY <3>5, <3>6, <3>7, <3>8
  <2> QED  BY <2>1, <2>2 DEF ChainOf
<1>4. RabbitCounted' /\ ParkedRejected'
  BY DEF RabbitInv, RabbitCounted, Working, ParkedRejected, outcome
<1>5. LedgerInv'  BY LedgerSettles DEF LedgerInv, outcome
<1>6. QueueStep  BY <1>1 DEF QueueStep, LedgerInv, outcome
<1> QED  BY <1>1, <1>2, <1>3, <1>4, <1>5, <1>6 DEF RabbitGoal, RabbitInv

\* The same for a step that requeues nothing.
LEMMA QuietLinkStep ==
  ASSUME LedgerInv, RabbitInv,
         UNCHANGED <<outcome, rChain, rRun, rCounts, rReady, rUnacked>>,
         \A i \in Connections :
           /\ rSocket'[i] = "unused" => rSocket[i] = "unused"
           /\ rSocket'[i] = "open" => rSocket[i] \in {"unused", "open"},
         rSocket' \in [Connections -> Sockets], rConsuming' \subseteq Connections,
         rDial' \in 0..MaxConnections, rLate' \in 0..MaxConnections,
         rChannel' \in 0..MaxConnections, rConnection' \in 0..MaxConnections,
         rHandlers' \in BOOLEAN, rClosed' \in BOOLEAN, rClosed => rClosed',
         HandlersThere', Consuming'
  PROVE  RabbitGoal
<1>1. Requeued({})  BY DEF Requeued, RabbitInv, RabbitTypes
<1>2. LinksMove({})  BY DEF LinksMove
<1>3. {} \subseteq Connections  OBVIOUS
<1> QED  BY <1>1, <1>2, <1>3, LinkStep

-----------------------------------------------------------------------------
(* RabbitMQ: connecting, reconnecting, closing, losing links.              *)

\* The types that the link steps need, once more, in the form the provers use.
LEMMA LinkTypes ==
  ASSUME RabbitInv
  PROVE  /\ rSocket \in [Connections -> Sockets] /\ rConsuming \subseteq Connections
         /\ rUnacked \in [Connections -> SUBSET Messages]
         /\ rDial \in 0..MaxConnections /\ rLate \in 0..MaxConnections
         /\ rChannel \in 0..MaxConnections /\ rConnection \in 0..MaxConnections
         /\ rHandlers \in BOOLEAN /\ rClosed \in BOOLEAN
         /\ \A i \in 0..MaxConnections : Alive(i) => i \in Connections
         /\ Connections \subseteq 0..MaxConnections
         /\ 0 \in 0..MaxConnections
BY RabbitAssumption DEF RabbitInv, RabbitTypes, Alive, Connections

\* connect() and the reconnection loop open links and set consumers up on them.
LEMMA ConnectingSteps ==
  ASSUME LedgerInv, RabbitInv,
         RabbitOpen \/ RabbitReopen \/ RabbitConnected \/ RabbitReconnected \/ RabbitRedial
  PROVE  RabbitGoal
<1> USE LinkTypes
<1> USE DEF ledger, outcome, rBroker, rLink, rFlags, rCall, rWork
<1>1. CASE RabbitOpen \/ RabbitReopen
  <2>1. PICK i \in Connections :
          /\ Fresh(i) /\ rSocket' = [rSocket EXCEPT ![i] = "open"]
          /\ rConnection' = i /\ rDial' = i
    BY <1>1 DEF RabbitOpen, RabbitReopen
  <2>2. /\ UNCHANGED <<outcome, rChain, rRun, rCounts, rReady, rUnacked>>
        /\ UNCHANGED <<rConsuming, rLate, rChannel, rHandlers, rClosed>>
    BY <1>1 DEF RabbitOpen, RabbitReopen
  <2>3. rSocket' \in [Connections -> Sockets]  BY <2>1 DEF Sockets
  <2>4. \A k \in Connections :
           /\ rSocket'[k] = "unused" => rSocket[k] = "unused"
           /\ rSocket'[k] = "open" => rSocket[k] \in {"unused", "open"}
    BY <2>1 DEF Fresh
  <2>5. HandlersThere'  BY <2>2 DEF RabbitInv, HandlersThere
  <2>6. Consuming'  BY <2>2, <2>4 DEF RabbitInv, Consuming
  <2>7. rDial' \in 0..MaxConnections /\ rConnection' \in 0..MaxConnections  BY <2>1
  <2>8. rConsuming' \subseteq Connections /\ rLate' \in 0..MaxConnections
        /\ rChannel' \in 0..MaxConnections /\ rHandlers' \in BOOLEAN /\ rClosed' \in BOOLEAN
    BY <2>2
  <2> QED  BY <2>2, <2>3, <2>4, <2>5, <2>6, <2>7, <2>8, QuietLinkStep
<1>2. CASE RabbitConnected \/ RabbitReconnected
  <2>1. /\ Alive(rDial) /\ SetupConsumer(rDial)
        /\ UNCHANGED <<outcome, rChain, rRun, rCounts, rReady, rUnacked>>
        /\ rChannel' = rDial
        /\ UNCHANGED <<rSocket, rDial, rLate, rConnection, rHandlers, rClosed>>
    BY <1>2 DEF RabbitConnected, RabbitReconnected
  <2>2. rDial \in Connections /\ rSocket[rDial] = "open"  BY <2>1 DEF Alive
  <2>3. rConsuming' \subseteq Connections  BY <2>1, <2>2 DEF SetupConsumer
  <2>4. HandlersThere'  BY <2>1 DEF RabbitInv, HandlersThere, SetupConsumer
  <2>5. Consuming'  BY <2>1, <2>2 DEF RabbitInv, Consuming, SetupConsumer
  <2>6. \A i \in Connections :
           /\ rSocket'[i] = "unused" => rSocket[i] = "unused"
           /\ rSocket'[i] = "open" => rSocket[i] \in {"unused", "open"}
    BY <2>1
  <2> QED  BY <2>1, <2>3, <2>4, <2>5, <2>6, QuietLinkStep
<1>3. CASE RabbitRedial
  <2>1. /\ UNCHANGED <<outcome, rChain, rRun, rCounts, rReady, rUnacked>>
        /\ UNCHANGED <<rSocket, rConsuming, rChannel, rDial, rLate, rConnection, rHandlers, rClosed>>
    BY <1>3 DEF RabbitRedial
  <2>2. HandlersThere' /\ Consuming'  BY <2>1 DEF RabbitInv, HandlersThere, Consuming
  <2> QED  BY <2>1, <2>2, QuietLinkStep
<1> QED  BY <1>1, <1>2, <1>3

\* An attempt that fails closes at most the link it dialed.
LEMMA FailingSteps ==
  ASSUME LedgerInv, RabbitInv, RabbitConnectFails \/ RabbitReconnectFails
  PROVE  RabbitGoal
<1> USE LinkTypes
<1> USE DEF ledger, outcome, rBroker, rLink, rFlags, rCall, rWork
<1>1. CASE RabbitConnectFails
  <2>1. /\ UNCHANGED <<outcome, rChain, rRun, rCounts, rReady, rUnacked>>
        /\ UNCHANGED <<rConsuming, rDial, rLate, rHandlers, rClosed>>
        /\ rConnection' = 0 /\ rChannel' = 0
        /\ rSocket' = [rSocket EXCEPT ![rDial] = "closed"] \/ rSocket' = rSocket
    BY <1>1 DEF RabbitConnectFails
  <2>2. rSocket' \in [Connections -> Sockets]  BY <2>1 DEF Sockets
  <2>3. \A i \in Connections :
           /\ rSocket'[i] = "unused" => rSocket[i] = "unused"
           /\ rSocket'[i] = "open" => rSocket[i] \in {"unused", "open"}
    BY <2>1
  <2>4. HandlersThere' /\ Consuming'  BY <2>1, <2>3 DEF RabbitInv, HandlersThere, Consuming
  <2> QED  BY <2>1, <2>2, <2>3, <2>4, QuietLinkStep
<1>2. CASE RabbitReconnectFails
  <2>1. /\ UNCHANGED <<outcome, rChain, rRun, rCounts, rReady, rUnacked>>
        /\ UNCHANGED <<rSocket, rDial, rLate, rConnection, rHandlers, rClosed>>
        /\ rChannel' \in {rChannel, rDial}
        /\ \/ rConsuming' = rConsuming
           \/ Alive(rDial) /\ rHandlers /\ rConsuming' = rConsuming \cup {rDial}
    BY <1>2 DEF RabbitReconnectFails
  <2>2. Alive(rDial) => rDial \in Connections /\ rSocket[rDial] = "open"  BY DEF Alive
  <2>3. rConsuming' \subseteq Connections  BY <2>1, <2>2
  <2>4. HandlersThere'  BY <2>1 DEF RabbitInv, HandlersThere
  <2>5. Consuming'  BY <2>1, <2>2 DEF RabbitInv, Consuming
  <2>6. \A i \in Connections :
           /\ rSocket'[i] = "unused" => rSocket[i] = "unused"
           /\ rSocket'[i] = "open" => rSocket[i] \in {"unused", "open"}
    BY <2>1
  <2>7. rChannel' \in 0..MaxConnections  BY <2>1
  <2> QED  BY <2>1, <2>3, <2>4, <2>5, <2>6, <2>7, QuietLinkStep
<1> QED  BY <1>1, <1>2

\* on() and the consumer it sets up in the background.
LEMMA OnSteps ==
  ASSUME LedgerInv, RabbitInv, RabbitOn \/ RabbitLateConsumer
  PROVE  RabbitGoal
<1> USE LinkTypes
<1> USE DEF ledger, outcome, rBroker, rLink, rFlags, rCall, rWork
<1>1. /\ UNCHANGED <<outcome, rChain, rRun, rCounts, rReady, rUnacked>>
      /\ UNCHANGED <<rSocket, rChannel, rDial, rConnection, rClosed>>
      /\ rLate' \in {rChannel, 0}
      /\ \/ rHandlers' = TRUE /\ rConsuming' = rConsuming
         \/ rHandlers' = rHandlers /\ rConsuming' = rConsuming /\ rLate' = 0
         \/ /\ rHandlers' = rHandlers /\ Alive(rLate) /\ rLate' = 0
            /\ rConsuming' = rConsuming \cup {rLate}
  BY DEF RabbitOn, RabbitLateConsumer
<1>2. Alive(rLate) => rLate \in Connections /\ rSocket[rLate] = "open" /\ rLate # 0
  BY DEF Alive
<1>3. rConsuming' \subseteq Connections  BY <1>1, <1>2
<1>4. HandlersThere'  BY <1>1, <1>2 DEF RabbitInv, HandlersThere
<1>5. Consuming'  BY <1>1, <1>2 DEF RabbitInv, Consuming
<1>6. \A i \in Connections :
         /\ rSocket'[i] = "unused" => rSocket[i] = "unused"
         /\ rSocket'[i] = "open" => rSocket[i] \in {"unused", "open"}
  BY <1>1
<1>7. rLate' \in 0..MaxConnections /\ rHandlers' \in BOOLEAN  BY <1>1
<1> QED  BY <1>1, <1>3, <1>4, <1>5, <1>6, <1>7, QuietLinkStep

\* A lost connection or channel, and the two halves of close(): what the
\* link held is requeued.
LEMMA ClosingSteps ==
  ASSUME LedgerInv, RabbitInv,
         \/ RabbitClose \/ RabbitCloseConnection
         \/ \E i \in Connections : RabbitLinkDown(i, "half") \/ RabbitLinkDown(i, "closed")
  PROVE  RabbitGoal
<1> USE LinkTypes
<1> USE DEF ledger, outcome, rBroker, rLink, rFlags, rCall, rWork
<1>1. ASSUME NEW S, S \subseteq Connections, Requeue(S),
             UNCHANGED <<outcome, rChain, rRun, rCounts, rDial, rLate>>,
             \/ rSocket' = rSocket /\ \A i \in S : rSocket[i] # "open"
             \/ \E i \in S, s \in {"half", "closed"} :
                  S = {i} /\ rSocket' = [rSocket EXCEPT ![i] = s],
             rChannel' \in {rChannel, 0}, rConnection' \in {rConnection, 0},
             \/ UNCHANGED <<rHandlers, rClosed>>
             \/ rHandlers' = FALSE /\ rClosed' = TRUE
      PROVE  RabbitGoal
  <2>1. Requeued(S)  BY <1>1 DEF Requeue, Requeued
  <2>2. rConsuming' \subseteq rConsuming  BY <1>1 DEF Requeue
  <2>3. rSocket' \in [Connections -> Sockets]  BY <1>1 DEF Sockets
  <2>4. LinksMove(S)
    <3>1. CASE rSocket' = rSocket /\ \A i \in S : rSocket[i] # "open"
      BY <3>1 DEF LinksMove
    <3>2. CASE \E i \in S, s \in {"half", "closed"} :
                 S = {i} /\ rSocket' = [rSocket EXCEPT ![i] = s]
      BY <3>2 DEF LinksMove
    <3> QED  BY <1>1, <3>1, <3>2
  <2>5. rClosed' \in BOOLEAN /\ rHandlers' \in BOOLEAN /\ (rClosed => rClosed')
    <3>1. CASE rHandlers' = rHandlers /\ rClosed' = rClosed  BY <3>1
    <3>2. CASE rHandlers' = FALSE /\ rClosed' = TRUE  BY <3>2
    <3> QED  BY <1>1, <3>1, <3>2
  <2>6. HandlersThere'
    <3>1. rChain' = rChain /\ rLate' = rLate  BY <1>1
    <3>2. rHandlers \/ rClosed => rHandlers' \/ rClosed'  BY <1>1
    <3> QED  BY <2>2, <3>1, <3>2 DEF RabbitInv, HandlersThere
  <2>7. Consuming'
    <3>1. \A i \in Connections : rSocket'[i] = "unused" => rSocket[i] = "unused"
      BY <2>4 DEF LinksMove
    <3> QED  BY <2>2, <3>1 DEF RabbitInv, Consuming
  <2>8. /\ rChannel' \in 0..MaxConnections /\ rConnection' \in 0..MaxConnections
        /\ rDial' \in 0..MaxConnections /\ rLate' \in 0..MaxConnections
        /\ rConsuming' \subseteq Connections
    BY <1>1, <2>2
  <2> QED  BY <1>1, <2>1, <2>3, <2>4, <2>5, <2>6, <2>7, <2>8, LinkStep
<1>2. CASE RabbitClose
  <2>1. /\ Requeue({rChannel} \cap Connections)
        /\ UNCHANGED <<outcome, rChain, rRun, rCounts, rDial, rLate>>
        /\ UNCHANGED <<rChannel, rConnection>>
        /\ rHandlers' = FALSE /\ rClosed' = TRUE
    BY <1>2 DEF RabbitClose
  <2>2. CASE Alive(rChannel)
    <3>1. rChannel \in Connections  BY <2>2
    <3>2. {rChannel} \cap Connections = {rChannel}  BY <3>1
    <3>3. rSocket' = [rSocket EXCEPT ![rChannel] = "half"]  BY <1>2, <2>2 DEF RabbitClose
    <3>4. {rChannel} \subseteq Connections /\ Requeue({rChannel})  BY <2>1, <3>1, <3>2
    <3>5. \E i \in {rChannel}, s \in {"half", "closed"} :
                  {rChannel} = {i} /\ rSocket' = [rSocket EXCEPT ![i] = s]
      BY <3>3
    <3> QED  BY <1>1, <2>1, <3>4, <3>5
  <2>3. CASE ~Alive(rChannel)
    <3>1. rSocket' = rSocket  BY <1>2, <2>3 DEF RabbitClose
    <3>2. \A i \in {rChannel} \cap Connections : rSocket[i] # "open"
      BY <2>3, RabbitAssumption DEF Alive, Connections
    <3>3. {rChannel} \cap Connections \subseteq Connections  OBVIOUS
    <3> QED  BY <1>1, <2>1, <3>1, <3>2, <3>3
  <2> QED  BY <2>2, <2>3
<1>3. CASE RabbitCloseConnection
  <2>1. /\ Requeue({rConnection} \cap Connections)
        /\ UNCHANGED <<outcome, rChain, rRun, rCounts, rDial, rLate>>
        /\ UNCHANGED <<rHandlers, rClosed>>
        /\ rChannel' = 0 /\ rConnection' = 0
    BY <1>3 DEF RabbitCloseConnection
  <2>2. CASE rConnection # 0
    <3>1. rConnection \in Connections  BY <2>2, RabbitAssumption DEF Connections
    <3>2. {rConnection} \cap Connections = {rConnection}  BY <3>1
    <3>3. rSocket' = [rSocket EXCEPT ![rConnection] = "closed"]
      BY <1>3, <2>2 DEF RabbitCloseConnection
    <3>4. {rConnection} \subseteq Connections /\ Requeue({rConnection})  BY <2>1, <3>1, <3>2
    <3>5. \E i \in {rConnection}, s \in {"half", "closed"} :
                  {rConnection} = {i} /\ rSocket' = [rSocket EXCEPT ![i] = s]
      BY <3>3
    <3> QED  BY <1>1, <2>1, <3>4, <3>5
  <2>3. CASE rConnection = 0
    <3>1. rSocket' = rSocket  BY <1>3, <2>3 DEF RabbitCloseConnection
    <3>2. {rConnection} \cap Connections = {}  BY <2>3, RabbitAssumption DEF Connections
    <3>3. Requeue({})  BY <2>1, <3>2
    <3> QED  BY <1>1, <2>1, <3>1, <3>3
  <2> QED  BY <2>2, <2>3
<1>4. ASSUME NEW i \in Connections, NEW s \in {"half", "closed"}, RabbitLinkDown(i, s)
      PROVE  RabbitGoal
  <2>1. /\ Requeue({i}) /\ rSocket' = [rSocket EXCEPT ![i] = s]
        /\ UNCHANGED <<outcome, rChain, rRun, rCounts, rDial, rLate>>
        /\ UNCHANGED <<rHandlers, rClosed, rChannel, rConnection>>
    BY <1>4 DEF RabbitLinkDown
  <2>2. {i} \subseteq Connections  OBVIOUS
  <2>3. \E k \in {i}, t \in {"half", "closed"} :
          {i} = {k} /\ rSocket' = [rSocket EXCEPT ![k] = t]
    BY <2>1
  <2> QED  BY <1>1, <2>1, <2>2, <2>3
<1> QED  BY <1>2, <1>3, <1>4

-----------------------------------------------------------------------------
(* RabbitMQ: crash, dispatch and deliveries.                               *)

\* A crash empties the chains and requeues everything.
LEMMA CrashStep ==
  ASSUME LedgerInv, RabbitInv, RabbitCrash
  PROVE  RabbitGoal
<1> USE DEF outcome
<1>1. Requeued(Connections) /\ accepted' = accepted  BY DEF RabbitCrash, Requeue, Requeued
<1>2. /\ OnePlace' /\ rUnacked' \in [Connections -> SUBSET Messages]
      /\ \A m : InQueue(m)' <=> InQueue(m)
  BY <1>1, RequeueKeeps DEF RabbitInv
<1>3. /\ rChain' = [a \in Aggregates |-> << >>] /\ rRun' = [a \in Aggregates |-> "idle"]
      /\ rCounts' = [m \in Messages |-> 0]
      /\ rConsuming' = {} /\ rHandlers' = TRUE /\ rClosed' = rClosed
      /\ rDial' = 0 /\ rLate' = 0 /\ rChannel' = 0 /\ rConnection' = 0
      /\ UNCHANGED <<handled, parked, discarded, failures>>
  BY LinkTypes DEF RabbitCrash, Requeue
<1>4. rSocket' \in [Connections -> Sockets]  BY DEF RabbitCrash, Sockets
<1>5. RabbitTypes'
  <2>1. rChain' \in [Aggregates -> Seq(Messages \X Connections)]  BY <1>3
  <2>2. rRun' \in [Aggregates -> {"idle", "handlers", "nothing"}]  BY <1>3
  <2>3. rCounts' \in [Messages -> Nat]  BY <1>3
  <2>4. {rHandlers', rClosed'} \subseteq BOOLEAN  BY <1>3, LinkTypes
  <2> QED  BY <1>2, <1>3, <1>4, <2>1, <2>2, <2>3, <2>4, LinkTypes DEF RabbitTypes
<1>6. ASSUME NEW a \in Aggregates  PROVE ChainOf(a)'
  <2>1. rChain'[a] = << >> /\ rRun'[a] = "idle"  BY <1>3
  <2> QED  BY <2>1 DEF ChainOf
<1>7. RabbitCounted'
  <2> SUFFICES ASSUME NEW m \in Messages
               PROVE  rCounts'[m] <= failures'[m] + (IF Working(m)' THEN 1 ELSE 0)
    BY DEF RabbitCounted
  <2>1. rCounts'[m] = 0  BY <1>3
  <2>2. failures'[m] \in Nat  BY <1>3 DEF LedgerInv
  <2> QED  BY <2>1, <2>2
<1>8. HandlersThere' /\ Consuming'  BY <1>3 DEF HandlersThere, Consuming
<1>9. ParkedRejected'  BY <1>3 DEF RabbitInv, ParkedRejected
<1>10. LedgerInv'  BY <1>1, <1>3, LedgerSettles DEF LedgerInv
<1>11. QueueStep  BY <1>1, <1>2, <1>3 DEF QueueStep, LedgerInv
<1> QED  BY <1>2, <1>5, <1>6, <1>7, <1>8, <1>9, <1>10, <1>11 DEF RabbitGoal, RabbitInv

\* A published message joins the queue, where nothing has it yet.
LEMMA DispatchStep ==
  ASSUME LedgerInv, RabbitInv, RabbitDispatch
  PROVE  RabbitGoal
<1> USE DEF rLink, rFlags, rCall, rWork
<1> DEFINE n == NextMessage
<1>1. /\ n \in Messages /\ accepted' = accepted \cup {n} /\ rReady' = rReady \cup {n}
      /\ UNCHANGED <<handled, parked, discarded, failures>>
      /\ UNCHANGED <<rUnacked, rSocket, rConsuming, rConnection, rChannel, rDial, rLate>>
      /\ UNCHANGED <<rHandlers, rClosed, rChain, rRun, rCounts>>
  BY DEF RabbitDispatch
<1>2. n \notin accepted  BY <1>1, NextIsLast DEF LedgerInv
<1> HIDE DEF n
<1>3. OnePlace'
  <2>1. \A i \in Connections : n \notin rUnacked[i]  BY <1>2 DEF RabbitInv, OnePlace
  <2> QED  BY <1>1, <2>1 DEF RabbitInv, OnePlace
<1>4. RabbitTypes'  BY <1>1 DEF RabbitInv, RabbitTypes
<1>5. ASSUME NEW a \in Aggregates  PROVE ChainOf(a)'
  BY <1>1 DEF RabbitInv, ChainOf
<1>6. RabbitCounted' /\ ParkedRejected'
  BY <1>1 DEF RabbitInv, RabbitCounted, Working, ParkedRejected
<1>7. HandlersThere' /\ Consuming'  BY <1>1 DEF RabbitInv, HandlersThere, Consuming
<1>8. LedgerInv'  BY <1>1, LedgerAccepts DEF n
<1>9. QueueStep
  <2>1. \A m \in accepted : InQueue(m)' <=> InQueue(m)  BY <1>1, <1>2 DEF InQueue
  <2>2. \A m \in accepted' \ accepted : m \in rReady'  BY <1>1
  <2>3. \A m \in accepted' \ accepted : InQueue(m)'  BY <2>2 DEF InQueue
  <2> QED  BY <1>1, <2>1, <2>3 DEF QueueStep, LedgerInv
<1> QED  BY <1>3, <1>4, <1>5, <1>6, <1>7, <1>8, <1>9 DEF RabbitGoal, RabbitInv

\* What is acknowledged as unreadable leaves the queue without being counted.
LEMMA PoisonStep ==
  ASSUME LedgerInv, RabbitInv, NEW i \in Connections, RabbitPoison(i)
  PROVE  RabbitGoal
<1> USE DEF ledger, rLink, rFlags, rCall, rWork
<1>1. PICK m \in rReady \cap Poison : rReady' = rReady \ {m}  BY DEF RabbitPoison
<1>2. /\ UNCHANGED <<accepted, handled, parked, discarded, failures>>
      /\ UNCHANGED <<rUnacked, rSocket, rConsuming, rConnection, rChannel, rDial, rLate>>
      /\ UNCHANGED <<rHandlers, rClosed, rChain, rRun, rCounts>>
  BY DEF RabbitPoison
<1>3. OnePlace'  BY <1>1, <1>2 DEF RabbitInv, OnePlace
<1>4. RabbitTypes'  BY <1>2 DEF RabbitInv, RabbitTypes
<1>5. ASSUME NEW a \in Aggregates  PROVE ChainOf(a)'
  BY <1>2 DEF RabbitInv, ChainOf
<1>6. RabbitCounted' /\ ParkedRejected'
  BY <1>2 DEF RabbitInv, RabbitCounted, Working, ParkedRejected
<1>7. HandlersThere' /\ Consuming'  BY <1>2 DEF RabbitInv, HandlersThere, Consuming
<1>8. LedgerInv'  BY <1>2, LedgerSettles DEF LedgerInv
<1>9. QueueStep
  <2>1. \A k \in accepted : InQueue(k)' => InQueue(k)  BY <1>1, <1>2 DEF InQueue
  <2>2. \A k \in accepted : InQueue(k) /\ ~InQueue(k)' => k = m  BY <1>1, <1>2 DEF InQueue
  <2> QED  BY <1>1, <1>2, <2>1, <2>2 DEF QueueStep, LedgerInv
<1> QED  BY <1>3, <1>4, <1>5, <1>6, <1>7, <1>8, <1>9 DEF RabbitGoal, RabbitInv

\* A delivery moves a message from the queue to a consumer and to the end of
\* its aggregate's chain, where it is the only delivery held by that channel.
LEMMA DeliverStep ==
  ASSUME LedgerInv, RabbitInv, NEW i \in Connections, RabbitDeliver(i)
  PROVE  RabbitGoal
<1> USE DEF ledger, rLink, rFlags, rCall
<1>1. PICK m \in rReady \ Poison :
        /\ Offered(i, m)
        /\ rReady' = rReady \ {m}
        /\ rUnacked' = [rUnacked EXCEPT ![i] = @ \cup {m}]
        /\ rChain' = [rChain EXCEPT ![AggregateOf[m]] = Append(@, <<m, i>>)]
  BY DEF RabbitDeliver
<1>2. /\ UNCHANGED <<accepted, handled, parked, discarded, failures>>
      /\ UNCHANGED <<rSocket, rConsuming, rConnection, rChannel, rDial, rLate>>
      /\ UNCHANGED <<rHandlers, rClosed, rRun, rCounts>>
  BY DEF RabbitDeliver
<1>3. i \in rConsuming /\ rSocket[i] # "unused"  BY <1>1 DEF Offered, RabbitInv, Consuming
<1>4. m \in accepted /\ m \in Messages
  BY AcceptedAreMessages DEF RabbitInv, OnePlace, LedgerInv
<1> DEFINE b == AggregateOf[m]
<1>5. b \in Aggregates  BY <1>4, LedgerAssumption
<1>6. rUnacked \in [Connections -> SUBSET Messages]
      /\ rChain \in [Aggregates -> Seq(Messages \X Connections)]
  BY DEF RabbitInv, RabbitTypes
<1>7. \A k \in Connections : rUnacked'[k] = IF k = i THEN rUnacked[i] \cup {m} ELSE rUnacked[k]
  BY <1>1, <1>6
<1>8. OnePlace'
  <2>1. \A k \in Connections : m \notin rUnacked[k]  BY DEF RabbitInv, OnePlace
  <2>2. rReady' \subseteq accepted'  BY <1>1, <1>2 DEF RabbitInv, OnePlace
  <2>3. \A k \in Connections : rUnacked'[k] \subseteq accepted' /\ rUnacked'[k] \cap rReady' = {}
    BY <1>1, <1>2, <1>4, <1>7 DEF RabbitInv, OnePlace
  <2>4. \A k, l \in Connections : k # l => rUnacked'[k] \cap rUnacked'[l] = {}
    BY <1>7, <2>1 DEF RabbitInv, OnePlace
  <2> QED  BY <2>2, <2>3, <2>4 DEF OnePlace
<1>9. <<m, i>> \in Messages \X Connections  BY <1>4
<1>10. /\ rChain'[b] = Append(rChain[b], <<m, i>>)
       /\ \A a \in Aggregates : a # b => rChain'[a] = rChain[a]
  BY <1>1, <1>5, <1>6
<1>11. rChain[b] \in Seq(Messages \X Connections)  BY <1>5, <1>6
<1>12. /\ rChain'[b] \in Seq(Messages \X Connections) /\ rChain'[b] # << >>
       /\ Len(rChain'[b]) = Len(rChain[b]) + 1 /\ Len(rChain[b]) \in Nat
       /\ \A j \in 1..Len(rChain[b]) : rChain'[b][j] = rChain[b][j]
       /\ rChain'[b][Len(rChain[b]) + 1] = <<m, i>>
  <2> DEFINE D == Messages \X Connections
             d == <<m, i>>
             s == rChain[b]
             t == rChain'[b]
  <2>1. d \in D /\ s \in Seq(D) /\ t = Append(s, d)  BY <1>9, <1>10, <1>11
  <2> HIDE DEF D, d, s, t
  <2>2. /\ t \in Seq(D) /\ t # << >> /\ Len(t) = Len(s) + 1
        /\ \A j \in 1..Len(s) : t[j] = s[j]
        /\ t[Len(s) + 1] = d
    BY <2>1, AppendProperties
  <2>3. Len(s) \in Nat  BY <2>1, LenProperties
  <2> QED  BY <2>2, <2>3 DEF D, d, s, t
<1>13. rChain' \in [Aggregates -> Seq(Messages \X Connections)]
  <2>1. \A a \in Aggregates : rChain'[a] \in Seq(Messages \X Connections)
    BY <1>6, <1>10, <1>12
  <2>2. rChain' = [a \in Aggregates |-> rChain'[a]]  BY <1>1, <1>6
  <2> QED  BY <2>1, <2>2
<1>14. RabbitTypes'
  <2>1. rUnacked' \in [Connections -> SUBSET Messages]  BY <1>1, <1>4, <1>6
  <2> QED  BY <1>2, <1>13, <2>1 DEF RabbitInv, RabbitTypes
<1>15. ASSUME NEW a \in Aggregates  PROVE ChainOf(a)'
  <2>1. ChainOf(a)  BY DEF RabbitInv
  <2>2. \A k \in Connections : rUnacked[k] \subseteq rUnacked'[k]  BY <1>7
  <2>3. \A j \in 1..Len(rChain[a]) : rChain[a][j][2] \in Connections
    <3>1. rChain[a] \in Seq(Messages \X Connections)  BY <1>6
    <3>2. \A j \in 1..Len(rChain[a]) : rChain[a][j] \in Messages \X Connections
      BY <3>1, ElementOfSeq
    <3> QED  BY <3>2
  <2>4. CASE a # b
    <3>1. rChain'[a] = rChain[a]  BY <1>10, <2>4
    <3>2. rRun' = rRun /\ rSocket' = rSocket /\ rClosed' = rClosed /\ accepted' = accepted
      BY <1>2
    <3> QED  BY <2>1, <2>2, <2>3, <3>1, <3>2 DEF ChainOf
  <2>5. CASE a = b
    <3> DEFINE N == Len(rChain[b])
    <3>1. \A j \in 1..N : rChain[b][j] = <<m, i>> => rSocket[i] # "open"
      BY <2>1, <2>5 DEF ChainOf, RabbitInv, OnePlace
    <3>2. N \in Nat /\ Len(rChain'[a]) = N + 1  BY <1>12, <2>5
    <3>3. \A j \in 1..(N + 1) : j \in 1..N \/ j = N + 1  BY <3>2
    <3>4. \A j \in 1..N : rChain'[a][j] = rChain[a][j]  BY <1>12, <2>5
    <3>5. rChain'[a][N + 1] = <<m, i>>  BY <1>12, <2>5
    <3>6. rSocket' = rSocket /\ rRun' = rRun /\ rClosed' = rClosed /\ accepted' = accepted
      BY <1>2
    <3> HIDE DEF N
    <3>7. ASSUME NEW j \in 1..(N + 1)
          PROVE  /\ rChain'[a][j][1] \in accepted /\ AggregateOf[rChain'[a][j][1]] = a
                 /\ rSocket[rChain'[a][j][2]] # "unused"
                 /\ rSocket[rChain'[a][j][2]] = "open" =>
                      /\ rChain'[a][j][1] \in rUnacked'[rChain'[a][j][2]]
                      /\ \A k \in 1..(N + 1) : rChain'[a][k] = rChain'[a][j] => k = j
      <4>1. CASE j = N + 1
        <5>1. rChain'[a][j] = <<m, i>>  BY <3>5, <4>1
        <5>2. m \in rUnacked'[i]  BY <1>7
        <5>3. \A k \in 1..(N + 1) :
                rSocket[i] = "open" /\ rChain'[a][k] = <<m, i>> => k = N + 1
          BY <3>1, <3>3, <3>4, <2>5
        <5> QED  BY <1>3, <1>4, <2>5, <4>1, <5>1, <5>2, <5>3
      <4>2. CASE j \in 1..N
        <5>1. rChain'[a][j] = rChain[a][j] /\ rChain[a][j][2] \in Connections
          BY <2>3, <2>5, <3>4, <4>2 DEF N
        <5>2. /\ rChain[a][j][1] \in accepted /\ AggregateOf[rChain[a][j][1]] = a
              /\ rSocket[rChain[a][j][2]] # "unused"
              /\ rSocket[rChain[a][j][2]] = "open" =>
                   /\ rChain[a][j][1] \in rUnacked[rChain[a][j][2]]
                   /\ \A k \in 1..N : rChain[a][k] = rChain[a][j] => k = j
          BY <2>1, <2>5, <4>2 DEF ChainOf, N
        <5>3. rSocket[rChain[a][j][2]] = "open" => rChain[a][j] # <<m, i>>
          BY <2>5, <3>1, <4>2
        <5>4. rSocket[rChain[a][j][2]] = "open" =>
                \A k \in 1..(N + 1) : rChain'[a][k] = rChain[a][j] => k = j
          BY <3>3, <3>4, <3>5, <5>2, <5>3
        <5> QED  BY <2>2, <5>1, <5>2, <5>4
      <4> QED  BY <3>3, <4>1, <4>2
    <3>8. rRun[a] = "nothing" => rClosed  BY <2>1 DEF ChainOf
    <3>9. rChain'[a] # << >>  BY <1>12, <2>5
    <3> QED  BY <3>2, <3>6, <3>7, <3>8, <3>9 DEF ChainOf
  <2> QED  BY <2>4, <2>5
<1>16. RabbitCounted'
  <2>1. ASSUME NEW n \in Messages  PROVE Working(n)' <=> Working(n)
    <3>1. AggregateOf[n] \in Aggregates  BY LedgerAssumption
    <3>2. CASE AggregateOf[n] # b
      BY <1>2, <1>10, <3>1, <3>2 DEF Working
    <3>3. CASE AggregateOf[n] = b /\ rRun[b] = "idle"
      BY <1>2, <3>3 DEF Working
    <3>4. CASE AggregateOf[n] = b /\ rRun[b] # "idle"
      <4>1. rChain[b] # << >>  BY <1>5, <3>4 DEF RabbitInv, ChainOf
      <4>2. Len(rChain[b]) # 0 /\ Len(rChain[b]) \in Nat  BY <1>11, <4>1, EmptySeq
      <4>3. 1 \in 1..Len(rChain[b])  BY <4>2
      <4>4. rChain'[b][1] = rChain[b][1]  BY <1>12, <4>3
      <4> QED  BY <1>2, <3>4, <4>4 DEF Working
    <3> QED  BY <3>2, <3>3, <3>4
  <2> QED  BY <1>2, <2>1 DEF RabbitInv, RabbitCounted
<1>17. HandlersThere'
  <2>1. rHandlers \/ rClosed  BY <1>3 DEF RabbitInv, HandlersThere
  <2> QED  BY <1>2, <2>1 DEF HandlersThere
<1>18. Consuming' /\ ParkedRejected'  BY <1>2 DEF RabbitInv, Consuming, ParkedRejected
<1>19. LedgerInv'  BY <1>2, LedgerSettles DEF LedgerInv
<1>20. QueueStep
  <2>1. \A k \in accepted : InQueue(k)' <=> InQueue(k)
    <3> SUFFICES ASSUME NEW k \in accepted  PROVE InQueue(k)' <=> InQueue(k)
      OBVIOUS
    <3>1. CASE k = m
      <4>1. k \in rUnacked'[i]  BY <1>7, <3>1
      <4> QED  BY <3>1, <4>1 DEF InQueue
    <3>2. CASE k # m
      <4>1. k \in rReady' <=> k \in rReady  BY <1>1, <3>2
      <4>2. \A l \in Connections : k \in rUnacked'[l] <=> k \in rUnacked[l]  BY <1>7, <3>2
      <4> QED  BY <4>1, <4>2 DEF InQueue
    <3> QED  BY <3>1, <3>2
  <2> QED  BY <1>2, <2>1 DEF QueueStep, LedgerInv
<1> QED
  BY <1>8, <1>14, <1>15, <1>16, <1>17, <1>18, <1>19, <1>20 DEF RabbitGoal, RabbitInv

-----------------------------------------------------------------------------
(* RabbitMQ: working on the head of a chain.                               *)

\* The head of a chain is the delivery of an accepted message of the
\* aggregate, and a message of the aggregate that is worked on is the head's.
LEMMA HeadOfChain ==
  ASSUME LedgerInv, RabbitInv, NEW a \in Aggregates, rChain[a] # << >>
  PROVE  /\ Head(rChain[a]) = rChain[a][1]
         /\ rChain[a][1] \in Messages \X Connections
         /\ rChain[a] \in Seq(Messages \X Connections)
         /\ rChain[a][1][1] \in accepted /\ rChain[a][1][1] \in Messages
         /\ AggregateOf[rChain[a][1][1]] = a
         /\ rChain[a][1][2] \in Connections
         /\ 1 \in 1..Len(rChain[a])
<1>1. rChain[a] \in Seq(Messages \X Connections)  BY DEF RabbitInv, RabbitTypes
<1>2. Len(rChain[a]) \in Nat /\ Len(rChain[a]) # 0  BY <1>1, EmptySeq, LenProperties
<1>3. 1 \in 1..Len(rChain[a])  BY <1>2
<1>4. rChain[a][1] \in Messages \X Connections  BY <1>1, <1>3, ElementOfSeq
<1>5. Head(rChain[a]) = rChain[a][1]  BY <1>1
<1>6. ChainOf(a)  BY DEF RabbitInv
<1>7. rChain[a][1][1] \in accepted /\ AggregateOf[rChain[a][1][1]] = a
  BY <1>3, <1>6 DEF ChainOf
<1> QED  BY <1>1, <1>3, <1>4, <1>5, <1>7

\* The delivery at the head is finished: it is acknowledged, or put back, on
\* its own channel if that is still open.  Nothing but its message leaves the
\* queue, and every delivery behind it is still held.
LEMMA PopStep ==
  ASSUME LedgerInv, RabbitInv, NEW a \in Aggregates, rChain[a] # << >>,
         NEW m, NEW i, m = rChain[a][1][1], i = rChain[a][1][2],
         Pop(a),
         \/ Alive(i) /\ AckOn(m, i) /\ rReady' \in {rReady, rReady \cup {m}}
         \/ ~Alive(i) /\ UNCHANGED <<rUnacked, rReady>>,
         accepted' = accepted,
         UNCHANGED <<rSocket, rConsuming, rConnection, rChannel, rDial, rLate>>,
         UNCHANGED <<rHandlers, rClosed>>
  PROVE  /\ OnePlace' /\ HandlersThere' /\ Consuming'
         /\ \A b \in Aggregates : ChainOf(b)'
         /\ rUnacked' \in [Connections -> SUBSET Messages]
         /\ rChain' \in [Aggregates -> Seq(Messages \X Connections)]
         /\ rRun' \in [Aggregates -> {"idle", "handlers", "nothing"}]
         /\ \A n : InQueue(n)' => InQueue(n)
         /\ \A n : InQueue(n) /\ ~InQueue(n)' => n = m
         /\ \A n : n \in rReady' /\ n = m => InQueue(n)'
         /\ \A n \in Messages : Working(n)' <=> Working(n) /\ AggregateOf[n] # a
<1>1. /\ m \in accepted /\ m \in Messages /\ AggregateOf[m] = a /\ i \in Connections
      /\ 1 \in 1..Len(rChain[a]) /\ rChain[a] \in Seq(Messages \X Connections)
      /\ rChain[a][1] = <<m, i>>
  <2>1. rChain[a][1] \in Messages \X Connections  BY HeadOfChain
  <2>2. rChain[a][1] = <<m, i>>  BY <2>1
  <2> QED  BY <2>2, HeadOfChain
<1>2. rUnacked \in [Connections -> SUBSET Messages]
      /\ rChain \in [Aggregates -> Seq(Messages \X Connections)]
      /\ rRun \in [Aggregates -> {"idle", "handlers", "nothing"}]
  BY DEF RabbitInv, RabbitTypes
<1>3. i # 0  BY <1>1 DEF Connections
<1>4. \A k \in Connections : \A n :
        n \in rUnacked'[k] <=> n \in rUnacked[k] /\ ~(rSocket[i] = "open" /\ k = i /\ n = m)
  BY <1>1, <1>2, <1>3 DEF Alive, AckOn
<1>5. rUnacked' \in [Connections -> SUBSET Messages]
  <2>1. CASE AckOn(m, i)
    <3>1. rUnacked[i] \ {m} \in SUBSET Messages  BY <1>1, <1>2
    <3> QED  BY <1>1, <1>2, <2>1, <3>1 DEF AckOn
  <2>2. CASE rUnacked' = rUnacked  BY <1>2, <2>2
  <2> QED  BY <2>1, <2>2
<1>6. rSocket[i] = "open" => m \in rUnacked[i]
  BY <1>1 DEF RabbitInv, ChainOf
<1>7. \A n : n \in rReady' <=> n \in rReady \/ (n = m /\ m \in rReady')
  OBVIOUS
<1>8. m \in rReady' => m \in rReady \/ rSocket[i] = "open"
  BY DEF Alive
<1>9. OnePlace'
  <2>1. rReady' \subseteq accepted'  BY <1>1, <1>7 DEF RabbitInv, OnePlace
  <2>2. ASSUME NEW k \in Connections
        PROVE  rUnacked'[k] \subseteq accepted' /\ rUnacked'[k] \cap rReady' = {}
    <3>1. rUnacked[k] \subseteq accepted /\ rUnacked[k] \cap rReady = {}
      BY DEF RabbitInv, OnePlace
    <3>2. k # i => rUnacked[k] \cap rUnacked[i] = {}
      BY <1>1 DEF RabbitInv, OnePlace
    <3>3. m \in rReady' => m \notin rUnacked'[k]
      BY <1>4, <1>6, <1>8, <3>1, <3>2
    <3> QED  BY <1>4, <1>7, <3>1, <3>3
  <2>3. ASSUME NEW k \in Connections, NEW l \in Connections, k # l
        PROVE  rUnacked'[k] \cap rUnacked'[l] = {}
    <3>1. rUnacked[k] \cap rUnacked[l] = {}  BY <2>3 DEF RabbitInv, OnePlace
    <3> QED  BY <1>4, <3>1
  <2> QED  BY <2>1, <2>2, <2>3 DEF OnePlace
<1>10. /\ rChain'[a] = Tail(rChain[a]) /\ rRun'[a] = "idle"
       /\ \A b \in Aggregates : b # a => rChain'[b] = rChain[b] /\ rRun'[b] = rRun[b]
  BY <1>2 DEF Pop
<1>11. /\ rChain'[a] \in Seq(Messages \X Connections)
       /\ Len(rChain'[a]) = Len(rChain[a]) - 1 /\ Len(rChain[a]) \in Nat
       /\ \A j \in 1..Len(rChain'[a]) : rChain'[a][j] = rChain[a][j + 1]
  <2> DEFINE D == Messages \X Connections
             s == rChain[a]
             t == rChain'[a]
  <2>1. s \in Seq(D) /\ s # << >> /\ t = Tail(s)  BY <1>1, <1>10
  <2> HIDE DEF D, s, t
  <2>2. /\ t \in Seq(D) /\ Len(t) = Len(s) - 1
        /\ \A j \in 1..Len(t) : t[j] = s[j + 1]
    BY <2>1, HeadTailProperties
  <2>3. Len(s) \in Nat  BY <2>1, LenProperties
  <2> QED  BY <2>2, <2>3 DEF D, s, t
<1>12. rChain' \in [Aggregates -> Seq(Messages \X Connections)]
  <2>1. \A b \in Aggregates : rChain'[b] \in Seq(Messages \X Connections)
    BY <1>2, <1>10, <1>11
  <2>2. rChain' = [b \in Aggregates |-> rChain'[b]]  BY <1>2 DEF Pop
  <2> QED  BY <2>1, <2>2
<1>13. rRun' \in [Aggregates -> {"idle", "handlers", "nothing"}]  BY <1>2 DEF Pop
<1>14. ASSUME NEW b \in Aggregates  PROVE ChainOf(b)'
  <2>1. ChainOf(b)  BY DEF RabbitInv
  <2>2. CASE b # a
    <3>1. rChain'[b] = rChain[b] /\ rRun'[b] = rRun[b]  BY <1>10, <2>2
    <3>2. ASSUME NEW j \in 1..Len(rChain[b]), rSocket[rChain[b][j][2]] = "open"
          PROVE  rChain[b][j][1] \in rUnacked'[rChain[b][j][2]]
      <4>1. AggregateOf[rChain[b][j][1]] = b
            /\ rChain[b][j][1] \in rUnacked[rChain[b][j][2]]
        BY <2>1, <3>2 DEF ChainOf
      <4>2. rChain[b][j][1] # m  BY <1>1, <2>2, <4>1
      <4>3. rChain[b] \in Seq(Messages \X Connections)  BY <1>2
      <4>4. rChain[b][j] \in Messages \X Connections  BY <4>3, ElementOfSeq
      <4>5. rChain[b][j][2] \in Connections  BY <4>4
      <4> QED  BY <1>4, <4>1, <4>2, <4>5
    <3> QED  BY <2>1, <3>1, <3>2 DEF ChainOf
  <2>3. CASE b = a
    <3> DEFINE N == Len(rChain[a])
    <3>1. N \in Nat /\ Len(rChain'[a]) = N - 1  BY <1>11
    <3>2. \A j \in 1..(N - 1) : rChain'[a][j] = rChain[a][j + 1]  BY <1>11, <3>1
    <3>3. \A j \in 1..(N - 1) : j + 1 \in 1..N /\ j + 1 # 1  BY <3>1
    <3>4. \A j \in 1..N :
            /\ rChain[a][j][1] \in accepted /\ AggregateOf[rChain[a][j][1]] = a
            /\ rSocket[rChain[a][j][2]] # "unused"
            /\ rSocket[rChain[a][j][2]] = "open" =>
                 /\ rChain[a][j][1] \in rUnacked[rChain[a][j][2]]
                 /\ \A k \in 1..N : rChain[a][k] = rChain[a][j] => k = j
      BY <2>1, <2>3 DEF ChainOf
    <3>5. \A j \in 1..N : rChain[a][j] \in Messages \X Connections
      <4>1. rChain[a] \in Seq(Messages \X Connections)  BY <1>1
      <4> QED  BY <4>1, ElementOfSeq
    <3>6. 1 \in 1..N  BY <1>1
    <3> HIDE DEF N
    <3>7. ASSUME NEW j \in 1..(N - 1)
          PROVE  /\ rChain'[a][j][1] \in accepted /\ AggregateOf[rChain'[a][j][1]] = a
                 /\ rSocket[rChain'[a][j][2]] # "unused"
                 /\ rSocket[rChain'[a][j][2]] = "open" =>
                      /\ rChain'[a][j][1] \in rUnacked'[rChain'[a][j][2]]
                      /\ \A k \in 1..(N - 1) : rChain'[a][k] = rChain'[a][j] => k = j
      <4> DEFINE d == rChain[a][j + 1]
      <4>1. rChain'[a][j] = d  BY <3>2
      <4>2. j + 1 \in 1..N /\ j + 1 # 1  BY <3>3
      <4>3. d \in Messages \X Connections  BY <3>5, <4>2
      <4>4. /\ d[1] \in accepted /\ AggregateOf[d[1]] = a /\ rSocket[d[2]] # "unused"
            /\ rSocket[d[2]] = "open" =>
                 d[1] \in rUnacked[d[2]] /\ \A k \in 1..N : rChain[a][k] = d => k = j + 1
        BY <3>4, <4>2
      <4>5. rSocket[d[2]] = "open" => d # <<m, i>>
        BY <1>1, <3>6, <4>2, <4>4
      <4>6. rSocket[d[2]] = "open" => ~(d[2] = i /\ d[1] = m)
        BY <4>3, <4>5
      <4>7. rSocket[d[2]] = "open" => d[1] \in rUnacked'[d[2]]
        BY <1>4, <4>3, <4>4, <4>6
      <4>8. rSocket[d[2]] = "open" =>
              \A k \in 1..(N - 1) : rChain'[a][k] = d => k = j
        <5> SUFFICES ASSUME rSocket[d[2]] = "open", NEW k \in 1..(N - 1), rChain'[a][k] = d
                     PROVE  k = j
          OBVIOUS
        <5>1. k + 1 \in 1..N /\ rChain[a][k + 1] = d  BY <3>2, <3>3
        <5>2. k + 1 = j + 1  BY <4>4, <5>1
        <5> QED  BY <3>1, <5>2
      <4> HIDE DEF d
      <4> QED  BY <4>1, <4>4, <4>7, <4>8
    <3>8. rRun'[a] = "idle"  BY <1>10
    <3> QED  BY <2>3, <3>1, <3>7, <3>8 DEF ChainOf
  <2> QED  BY <2>2, <2>3
<1>15. HandlersThere'
  <2>1. \A b \in Aggregates : rChain'[b] # << >> => \E c \in Aggregates : rChain[c] # << >>
    BY <1>10
  <2> QED  BY <2>1 DEF RabbitInv, HandlersThere
<1>16. Consuming'  BY DEF RabbitInv, Consuming
<1>17. \A n : InQueue(n)' => InQueue(n)
  <2> SUFFICES ASSUME NEW n, InQueue(n)'  PROVE InQueue(n)
    OBVIOUS
  <2>1. CASE n \in rReady'
    <3>1. n \in rReady \/ (n = m /\ rSocket[i] = "open")  BY <1>7, <1>8, <2>1
    <3> QED  BY <1>1, <1>6, <3>1 DEF InQueue
  <2>2. CASE \E k \in Connections : n \in rUnacked'[k]
    BY <1>4, <2>2 DEF InQueue
  <2> QED  BY <2>1, <2>2 DEF InQueue
<1>18. \A n : InQueue(n) /\ ~InQueue(n)' => n = m
  BY <1>4, <1>7 DEF InQueue
<1>19. \A n : n \in rReady' /\ n = m => InQueue(n)'  BY DEF InQueue
<1>20. \A n \in Messages : Working(n)' <=> Working(n) /\ AggregateOf[n] # a
  BY <1>10, LedgerAssumption DEF Working
<1> QED  BY <1>5, <1>9, <1>12, <1>13, <1>14, <1>15, <1>16, <1>17, <1>18, <1>19, <1>20

\* Parking, acknowledging or putting back the head of a chain.
LEMMA SettlingSteps ==
  ASSUME LedgerInv, RabbitInv, NEW a \in Aggregates,
         RabbitDeadLetter(a) \/ RabbitHandled(a) \/ RabbitRejected(a)
  PROVE  RabbitGoal
<1> USE DEF rLink, rFlags, rCall
<1>1. rChain[a] # << >>  BY DEF RabbitDeadLetter, RabbitHandled, RabbitRejected, RabbitInv, ChainOf
<1> DEFINE m == rChain[a][1][1]
           i == rChain[a][1][2]
<1>2. /\ Head(rChain[a]) = rChain[a][1]
      /\ m \in accepted /\ m \in Messages /\ AggregateOf[m] = a /\ i \in Connections
  BY <1>1, HeadOfChain
<1>3. Pop(a)  BY DEF RabbitDeadLetter, RabbitHandled, RabbitRejected
<1>4. /\ accepted' = accepted
      /\ UNCHANGED <<rSocket, rConsuming, rConnection, rChannel, rDial, rLate>>
      /\ UNCHANGED <<rHandlers, rClosed>>
  BY DEF RabbitDeadLetter, RabbitHandled, RabbitRejected
<1>5. \/ Alive(i) /\ AckOn(m, i) /\ rReady' \in {rReady, rReady \cup {m}}
      \/ ~Alive(i) /\ UNCHANGED <<rUnacked, rReady>>
  BY <1>2 DEF RabbitDeadLetter, RabbitHandled, RabbitRejected
<1>6. /\ handled' \in {handled, handled \cup {m}} /\ parked' \in {parked, parked \cup {m}}
      /\ discarded' = discarded
      /\ failures' \in {failures, [failures EXCEPT ![m] = @ + 1]}
      /\ rCounts' \in {rCounts, [rCounts EXCEPT ![m] = 0]}
  BY <1>2 DEF RabbitDeadLetter, RabbitHandled, RabbitRejected
<1>7. rRun[a] # "idle" => Working(m)  BY <1>2 DEF Working
<1>8. rRun[a] = "idle" => ~Working(m)  BY <1>2 DEF Working
<1>9. \A n \in Messages : Working(n) /\ AggregateOf[n] = a => n = m  BY DEF Working
<1>10. failures \in [Messages -> Nat] /\ rCounts \in [Messages -> Nat]
  BY DEF LedgerInv, RabbitInv, RabbitTypes
<1>11. rRun[a] \notin {"handlers", "idle"} => rClosed
  BY DEF RabbitInv, RabbitTypes, ChainOf
<1>12. \/ /\ rRun[a] = "idle" /\ rCounts[m] + 1 > MaxRetries
          /\ rCounts' = [rCounts EXCEPT ![m] = 0] /\ UNCHANGED <<handled, failures>>
          /\ Alive(i) => parked' = parked \cup {m}
       \/ /\ rRun[a] # "idle" /\ UNCHANGED <<parked, failures>>
          /\ rCounts' = [rCounts EXCEPT ![m] = 0]
          /\ rRun[a] = "handlers" => handled' = handled \cup {m}
       \/ /\ rRun[a] # "idle" /\ UNCHANGED <<parked, handled, rCounts>>
          /\ failures' = [failures EXCEPT ![m] = @ + 1]
          /\ Alive(i) => rReady' = rReady \cup {m}
  BY <1>2 DEF RabbitDeadLetter, RabbitHandled, RabbitRejected
<1> HIDE DEF m, i
<1>13. /\ OnePlace' /\ HandlersThere' /\ Consuming'
       /\ \A b \in Aggregates : ChainOf(b)'
       /\ rUnacked' \in [Connections -> SUBSET Messages]
       /\ rChain' \in [Aggregates -> Seq(Messages \X Connections)]
       /\ rRun' \in [Aggregates -> {"idle", "handlers", "nothing"}]
       /\ \A n : InQueue(n)' => InQueue(n)
       /\ \A n : InQueue(n) /\ ~InQueue(n)' => n = m
       /\ \A n : n \in rReady' /\ n = m => InQueue(n)'
       /\ \A n \in Messages : Working(n)' <=> Working(n) /\ AggregateOf[n] # a
  <2>1. m = rChain[a][1][1] /\ i = rChain[a][1][2]  BY DEF m, i
  <2> QED  BY <1>1, <1>3, <1>4, <1>5, <2>1, PopStep
<1>14. /\ failures' \in [Messages -> Nat] /\ rCounts' \in [Messages -> Nat]
       /\ \A n \in Messages : failures'[n] >= failures[n]
       /\ \A n \in Messages : n # m => failures'[n] = failures[n] /\ rCounts'[n] = rCounts[n]
  BY <1>2, <1>6, <1>10
<1>15. RabbitTypes'
  BY <1>4, <1>13, <1>14 DEF RabbitInv, RabbitTypes
<1>16. RabbitCounted'
  <2> SUFFICES ASSUME NEW n \in Messages
               PROVE  rCounts'[n] <= failures'[n] + (IF Working(n)' THEN 1 ELSE 0)
    BY DEF RabbitCounted
  <2>1. rCounts[n] <= failures[n] + (IF Working(n) THEN 1 ELSE 0)
    BY DEF RabbitInv, RabbitCounted
  <2>2. CASE n # m
    <3>1. Working(n)' <=> Working(n)  BY <1>9, <1>13, <2>2
    <3> QED  BY <1>14, <2>1, <2>2, <3>1
  <2>3. CASE n = m
    <3>1. rCounts'[m] = 0 \/ (rCounts'[m] = rCounts[m] /\ failures'[m] = failures[m] + 1)
      BY <1>2, <1>10, <1>12
    <3>2. rCounts[m] <= failures[m] + 1  BY <1>10, <2>1, <2>3
    <3>3. rCounts'[m] <= failures'[m]  BY <1>2, <1>10, <1>14, <3>1, <3>2
    <3>4. rCounts'[m] \in Nat /\ failures'[m] \in Nat  BY <1>2, <1>14
    <3> QED  BY <2>3, <3>3, <3>4
  <2> QED  BY <2>2, <2>3
<1>17. ParkedRejected'
  <2> SUFFICES ASSUME NEW n \in parked' \ Poison  PROVE failures'[n] >= MaxRetries
    BY DEF ParkedRejected
  <2>1. CASE n \in parked
    <3>1. failures[n] >= MaxRetries  BY <2>1 DEF RabbitInv, ParkedRejected
    <3>2. n \in Messages  BY <2>1, AcceptedAreMessages DEF LedgerInv
    <3> QED  BY <1>10, <1>14, <3>1, <3>2, LedgerAssumption
  <2>2. CASE n \notin parked
    <3>1. n = m /\ rRun[a] = "idle" /\ rCounts[m] + 1 > MaxRetries /\ failures' = failures
      BY <1>6, <1>12, <2>2
    <3>2. rCounts[m] <= failures[m] + (IF Working(m) THEN 1 ELSE 0)
      BY <1>2 DEF RabbitInv, RabbitCounted
    <3>3. rCounts[m] <= failures[m]  BY <1>2, <1>8, <1>10, <3>1, <3>2
    <3> QED  BY <1>2, <1>10, <3>1, <3>3, LedgerAssumption
  <2> QED  BY <2>1, <2>2
<1>18. LedgerInv'
  BY <1>2, <1>4, <1>6, <1>14, LedgerSettles DEF LedgerInv
<1>19. QueueStep
  <2>1. ASSUME NEW n \in accepted, InQueue(n), ~InQueue(n)', ~rClosed
        PROVE  n \in handled' \cup parked' \cup Poison
    <3>1. n = m /\ m \notin rReady'  BY <1>13, <2>1
    <3>2. Alive(i)
      <4>1. SUFFICES ASSUME ~Alive(i)  PROVE FALSE
        OBVIOUS
      <4>2. rUnacked' = rUnacked /\ rReady' = rReady  BY <1>5, <4>1
      <4> QED  BY <2>1, <4>2 DEF InQueue
    <3>3. m \in handled' \cup parked'  BY <1>11, <1>12, <2>1, <3>1, <3>2
    <3> QED  BY <3>1, <3>3
  <2>2. \A n \in accepted : InQueue(n)' => InQueue(n)  BY <1>13
  <2>3. accepted' = accepted /\ handled \subseteq handled' /\ parked \subseteq parked'
        /\ handled' \cup parked' \subseteq accepted
    BY <1>2, <1>4, <1>6 DEF LedgerInv
  <2>4. rClosed => rClosed'  BY <1>4
  <2> QED  BY <2>1, <2>2, <2>3, <2>4 DEF QueueStep
<1> QED  BY <1>13, <1>15, <1>16, <1>17, <1>18, <1>19 DEF RabbitGoal, RabbitInv

\* Invoking the handlers counts the delivery that is then worked on.
LEMMA InvokeStep ==
  ASSUME LedgerInv, RabbitInv, NEW a \in Aggregates, RabbitInvoke(a)
  PROVE  RabbitGoal
<1> USE DEF ledger, rBroker, rLink, rFlags, rCall
<1>1. rChain[a] # << >> /\ rRun[a] = "idle"  BY DEF RabbitInvoke
<1> DEFINE m == rChain[a][1][1]
<1>2. Head(rChain[a]) = rChain[a][1] /\ m \in Messages /\ AggregateOf[m] = a
  BY <1>1, HeadOfChain
<1>3. /\ rCounts' = [rCounts EXCEPT ![m] = @ + 1]
      /\ rRun' = [rRun EXCEPT ![a] = IF rHandlers THEN "handlers" ELSE "nothing"]
      /\ UNCHANGED <<accepted, handled, parked, discarded, failures>>
      /\ UNCHANGED <<rReady, rUnacked, rSocket, rConsuming, rConnection, rChannel, rDial, rLate>>
      /\ UNCHANGED <<rHandlers, rClosed, rChain>>
  BY <1>2 DEF RabbitInvoke
<1>4. /\ rRun \in [Aggregates -> {"idle", "handlers", "nothing"}]
      /\ rCounts \in [Messages -> Nat] /\ failures \in [Messages -> Nat]
  BY DEF RabbitInv, RabbitTypes, LedgerInv
<1>5. RabbitTypes'
  <2>1. rRun' \in [Aggregates -> {"idle", "handlers", "nothing"}]  BY <1>3, <1>4
  <2>2. rCounts' \in [Messages -> Nat]  BY <1>2, <1>3, <1>4
  <2> QED  BY <1>3, <2>1, <2>2 DEF RabbitInv, RabbitTypes
<1>6. OnePlace' /\ HandlersThere' /\ Consuming' /\ ParkedRejected'
  BY <1>3 DEF RabbitInv, OnePlace, HandlersThere, Consuming, ParkedRejected
<1>7. ASSUME NEW b \in Aggregates  PROVE ChainOf(b)'
  <2>1. ChainOf(b)  BY DEF RabbitInv
  <2>2. rRun'[b] # "idle" => rChain[b] # << >>  BY <1>1, <1>3, <1>4, <2>1 DEF ChainOf
  <2>3. rRun'[b] = "nothing" => rClosed
    <3>1. rHandlers \/ rClosed  BY <1>1 DEF RabbitInv, HandlersThere
    <3>2. CASE b = a  BY <1>3, <1>4, <3>1, <3>2
    <3>3. CASE b # a  BY <1>3, <1>4, <2>1, <3>3 DEF ChainOf
    <3> QED  BY <3>2, <3>3
  <2> QED  BY <1>3, <2>1, <2>2, <2>3 DEF ChainOf
<1>8. RabbitCounted'
  <2> SUFFICES ASSUME NEW n \in Messages
               PROVE  rCounts'[n] <= failures'[n] + (IF Working(n)' THEN 1 ELSE 0)
    BY DEF RabbitCounted
  <2>1. rCounts[n] <= failures[n] + (IF Working(n) THEN 1 ELSE 0)
    BY DEF RabbitInv, RabbitCounted
  <2>2. AggregateOf[n] \in Aggregates  BY LedgerAssumption
  <2>3. CASE n = m
    <3>1. ~Working(n)  BY <1>1, <1>2, <2>3 DEF Working
    <3>2. Working(n)'
      <4>1. rRun'[a] # "idle"  BY <1>3, <1>4
      <4> QED  BY <1>2, <1>3, <2>3, <4>1 DEF Working
    <3>3. rCounts'[n] = rCounts[n] + 1  BY <1>2, <1>3, <1>4, <2>3
    <3>4. failures' = failures  BY <1>3
    <3> QED  BY <1>4, <2>1, <3>1, <3>2, <3>3, <3>4
  <2>4. CASE n # m
    <3>1. Working(n)' <=> Working(n)
      <4>1. CASE AggregateOf[n] = a  BY <1>1, <1>3, <2>4, <4>1 DEF Working
      <4>2. CASE AggregateOf[n] # a  BY <1>3, <1>4, <2>2, <4>2 DEF Working
      <4> QED  BY <4>1, <4>2
    <3>2. rCounts'[n] = rCounts[n] /\ failures' = failures  BY <1>3, <1>4, <2>4
    <3> QED  BY <2>1, <3>1, <3>2
  <2> QED  BY <2>3, <2>4
<1>9. LedgerInv'  BY <1>3, LedgerSettles DEF LedgerInv
<1>10. QueueStep
  <2>1. \A n : InQueue(n)' <=> InQueue(n)  BY <1>3 DEF InQueue
  <2> QED  BY <1>3, <2>1 DEF QueueStep, LedgerInv
<1> QED  BY <1>5, <1>6, <1>7, <1>8, <1>9, <1>10 DEF RabbitGoal, RabbitInv

\* Every step of the RabbitMQ bus keeps its invariant and lets a message
\* leave the queue of an open bus only when it is handled, parked or poison.
LEMMA RabbitNextStep ==
  ASSUME LedgerInv, RabbitInv, RabbitNext
  PROVE  RabbitGoal
<1>1. CASE RabbitConnecting
  BY <1>1, ConnectingSteps, OnSteps, ClosingSteps DEF RabbitConnecting
<1>2. CASE RabbitConnectFails \/ RabbitReconnectFails  BY <1>2, FailingSteps
<1>3. CASE RabbitOn  BY <1>3, OnSteps
<1>4. CASE RabbitDispatch  BY <1>4, DispatchStep
<1>5. CASE RabbitClose  BY <1>5, ClosingSteps
<1>6. CASE RabbitCrash  BY <1>6, CrashStep
<1>7. ASSUME NEW i \in Connections,
             RabbitLinkDown(i, "half") \/ RabbitLinkDown(i, "closed")
             \/ RabbitDeliver(i) \/ RabbitPoison(i)
      PROVE  RabbitGoal
  BY <1>7, ClosingSteps, DeliverStep, PoisonStep
<1>8. ASSUME NEW a \in Aggregates, RabbitWork(a) \/ RabbitRejected(a)
      PROVE  RabbitGoal
  BY <1>8, SettlingSteps, InvokeStep DEF RabbitWork
<1> QED  BY <1>1, <1>2, <1>3, <1>4, <1>5, <1>6, <1>7, <1>8 DEF RabbitNext

-----------------------------------------------------------------------------
(* Kafka.                                                                  *)

\* The group has committed past m.
PastOffset(m) == \E p \in Aggregates : \E j \in 1..kCommitted[p] : kLog[p][j] = m

\* What a step of the bus does to the partitions.
LogStep ==
  /\ accepted \subseteq accepted'
  /\ handled \subseteq handled' /\ parked \subseteq parked'
  /\ handled' \cup parked' \subseteq accepted
  /\ Established =>
       /\ \A m : PastOffset(m) => PastOffset(m)'
       /\ \A m : PastOffset(m)' => m \in accepted
       /\ \A m : PastOffset(m)' /\ ~PastOffset(m) => m \in handled' \cup parked' \cup Poison
  /\ kClosed => kClosed'

KafkaGoal == LedgerInv' /\ KafkaInv' /\ LogStep

\* What the group has committed past was accepted.
LEMMA PastIsAccepted ==
  ASSUME KafkaInv
  PROVE  \A m : PastOffset(m) => m \in accepted
<1> SUFFICES ASSUME NEW p \in Aggregates, NEW j \in 1..kCommitted[p]
             PROVE  kLog[p][j] \in accepted
  BY DEF PastOffset
<1>1. kLog[p] \in Seq(Messages)  BY DEF KafkaInv, KafkaTypes
<1>2. Len(kLog[p]) \in Nat  BY <1>1, LenProperties
<1>3. kCommitted[p] = -1 \/ kCommitted[p] \in 0..Len(kLog[p])
  BY DEF KafkaInv, OffsetsInLog, NoOffset
<1>4. j \in 1..Len(kLog[p])  BY <1>2, <1>3
<1> QED  BY <1>4 DEF KafkaInv, Logged

\* A consumer that stays where it is or joins the group again is within its
\* partitions; in an established group that is the same place.
LEMMA PositionStays ==
  ASSUME LedgerInv, KafkaInv, kPosition' = kPosition \/ Joined
  PROVE  /\ kPosition' \in [Aggregates -> Nat]
         /\ \A p \in Aggregates :
              /\ kPosition'[p] <= Len(kLog[p])
              /\ Established => kPosition'[p] = kPosition[p]
<1>1. /\ kLog \in [Aggregates -> Seq(Messages)]
      /\ kCommitted \in [Aggregates -> Int] /\ kPosition \in [Aggregates -> Nat]
  BY DEF KafkaInv, KafkaTypes
<1>2. ASSUME NEW p \in Aggregates
      PROVE  /\ kPosition'[p] \in Nat /\ kPosition'[p] <= Len(kLog[p])
             /\ Established => kPosition'[p] = kPosition[p]
  <2>1. Len(kLog[p]) \in Nat  BY <1>1, LenProperties
  <2>2. kCommitted[p] \in {NoOffset} \cup 0..Len(kLog[p]) /\ kPosition[p] <= Len(kLog[p])
    BY DEF KafkaInv, OffsetsInLog
  <2>3. Established => kCommitted[p] = kPosition[p]  BY DEF KafkaInv, SettledPrefix
  <2>4. CASE kPosition' = kPosition  BY <1>1, <2>2, <2>4
  <2>5. CASE Joined
    <3>1. kPosition'[p] = IF kCommitted[p] = NoOffset THEN Len(kLog[p]) ELSE kCommitted[p]
      BY <2>5 DEF Joined
    <3>2. kPosition'[p] \in Nat /\ kPosition'[p] <= Len(kLog[p])
      BY <2>1, <2>2, <3>1
    <3>3. Established => kCommitted[p] # NoOffset  BY <1>1, <2>3 DEF NoOffset
    <3> QED  BY <2>3, <3>1, <3>2, <3>3
  <2> QED  BY <2>4, <2>5
<1>3. kPosition' = [p \in Aggregates |-> kPosition'[p]]  BY <1>1 DEF Joined
<1>4. kPosition' \in [Aggregates -> Nat]  BY <1>2, <1>3
<1> QED  BY <1>2, <1>4

\* A step that settles nothing and commits nothing: calls, fetches, lost
\* commits, rejoining the group, a crash.
LEMMA QuietKafkaStep ==
  ASSUME LedgerInv, KafkaInv, UNCHANGED <<outcome, kLog, kCommitted>>,
         kPosition' = kPosition \/ Joined,
         kBusy' \in Aggregates \cup {NoPartition},
         kCounts' \in {kCounts, [m \in Messages |-> 0]},
         MessageInHand', kClosed => kClosed'
  PROVE  KafkaGoal
<1> USE DEF outcome
<1>1. /\ kLog \in [Aggregates -> Seq(Messages)]
      /\ kCommitted \in [Aggregates -> Int] /\ kPosition \in [Aggregates -> Nat]
      /\ kCounts \in [Messages -> Nat] /\ failures \in [Messages -> Nat]
  BY DEF KafkaInv, KafkaTypes, LedgerInv
<1>2. /\ kPosition' \in [Aggregates -> Nat]
      /\ \A p \in Aggregates :
           /\ kPosition'[p] <= Len(kLog[p])
           /\ Established => kPosition'[p] = kPosition[p]
  BY PositionStays
<1>3. KafkaTypes'
  <2>1. kCounts' \in [Messages -> Nat]  BY <1>1
  <2> QED  BY <1>1, <1>2, <2>1 DEF KafkaTypes
<1>4. Logged' /\ ParkedRejected'  BY DEF KafkaInv, Logged, ParkedRejected
<1>5. OffsetsInLog'  BY <1>2 DEF KafkaInv, OffsetsInLog
<1>6. KafkaCounted'
  <2> SUFFICES ASSUME NEW m \in Messages  PROVE kCounts'[m] <= failures[m]
    BY DEF KafkaCounted
  <2>1. kCounts[m] <= failures[m] /\ failures[m] \in Nat  BY <1>1 DEF KafkaInv, KafkaCounted
  <2> QED  BY <2>1
<1>7. Established => \A p \in Aggregates : SettledPrefix(p)'
  BY <1>2 DEF KafkaInv, SettledPrefix, Done
<1>8. LedgerInv'  BY LedgerSettles DEF LedgerInv
<1>9. LogStep
  <2>1. \A m : PastOffset(m)' <=> PastOffset(m)  BY DEF PastOffset
  <2> QED  BY <2>1, PastIsAccepted DEF LogStep, LedgerInv
<1> QED  BY <1>3, <1>4, <1>5, <1>6, <1>7, <1>8, <1>9 DEF KafkaGoal, KafkaInv

\* connect(), on(), warmup(), close(): no message is in hand when the group
\* is joined, since only a running or a closing consumer has one.
LEMMA KafkaCallSteps ==
  ASSUME LedgerInv, KafkaInv,
         \/ KafkaConnect \/ KafkaSubscribe \/ KafkaRun \/ KafkaWarmupRestart \/ KafkaClosed
         \/ KafkaConnectFails \/ KafkaOn \/ KafkaWarmupStop \/ KafkaWarmupFails \/ KafkaClose
  PROVE  KafkaGoal
<1> USE DEF ledger, outcome, kGroup, kLoop
<1>1. /\ UNCHANGED <<accepted, handled, parked, discarded, failures>>
      /\ UNCHANGED <<kLog, kCommitted, kBusy, kPhase, kCounts>>
      /\ kPosition' = kPosition \/ Joined
  BY DEF KafkaConnect, KafkaSubscribe, KafkaRun, KafkaWarmupRestart, KafkaClosed,
         KafkaConnectFails, KafkaOn, KafkaWarmupStop, KafkaWarmupFails, KafkaClose
<1>2. kClosed => kClosed'
  BY DEF KafkaConnect, KafkaSubscribe, KafkaRun, KafkaWarmupRestart, KafkaClosed,
         KafkaConnectFails, KafkaOn, KafkaWarmupStop, KafkaWarmupFails, KafkaClose
<1>3. MessageInHand'
  <2> SUFFICES ASSUME kBusy # NoPartition  PROVE MessageInHand'
    BY <1>1 DEF MessageInHand
  <2>1. /\ kPc \in {"running", "closing"} /\ kPosition[kBusy] < Len(kLog[kBusy])
        /\ kPhase = "commit" => InHand \in Done
    BY DEF KafkaInv, MessageInHand
  <2>2. KafkaOn \/ KafkaClose
    BY <2>1 DEF KafkaConnect, KafkaSubscribe, KafkaRun, KafkaWarmupRestart, KafkaClosed,
                KafkaConnectFails, KafkaWarmupStop, KafkaWarmupFails
  <2>3. kPc' \in {"running", "closing"} /\ kPosition' = kPosition
    BY <2>1, <2>2 DEF KafkaOn, KafkaClose
  <2>4. InHand' = InHand /\ Done' = Done  BY <1>1, <2>3 DEF InHand, Done
  <2> QED  BY <1>1, <2>1, <2>3, <2>4 DEF MessageInHand
<1>4. kBusy' \in Aggregates \cup {NoPartition}  BY <1>1 DEF KafkaInv, KafkaTypes
<1> QED  BY <1>1, <1>2, <1>3, <1>4, QuietKafkaStep

\* A message is taken in hand, or dropped from it.
LEMMA KafkaHandSteps ==
  ASSUME LedgerInv, KafkaInv,
         KafkaCommitFails \/ KafkaRejoin \/ KafkaCrash \/ \E p \in Aggregates : KafkaFetch(p)
  PROVE  KafkaGoal
<1> USE DEF ledger, outcome, kGroup, kState, kOthers
<1>1. CASE KafkaCommitFails \/ KafkaRejoin \/ KafkaCrash
  <2>1. /\ UNCHANGED <<accepted, handled, parked, discarded, failures>>
        /\ UNCHANGED <<kLog, kCommitted>>
        /\ kPosition' = kPosition \/ Joined
        /\ kBusy' = NoPartition
        /\ kCounts' \in {kCounts, [m \in Messages |-> 0]}
        /\ kClosed' = kClosed
    BY <1>1 DEF KafkaCommitFails, KafkaRejoin, KafkaCrash, Throw, PutDown
  <2>2. MessageInHand'  BY <2>1 DEF MessageInHand
  <2> QED  BY <2>1, <2>2, QuietKafkaStep
<1>2. ASSUME NEW p \in Aggregates, KafkaFetch(p)  PROVE KafkaGoal
  <2>1. /\ UNCHANGED <<accepted, handled, parked, discarded, failures>>
        /\ UNCHANGED <<kLog, kCommitted, kPosition, kCounts, kPc, kClosed>>
        /\ kBusy' = p /\ kPhase' = "handling" /\ kPc = "running"
        /\ kPosition[p] < Len(kLog[p])
    BY <1>2 DEF KafkaFetch
  <2>2. MessageInHand'  BY <2>1 DEF MessageInHand
  <2> QED  BY <2>1, <2>2, QuietKafkaStep
<1> QED  BY <1>1, <1>2

\* A published message is the last of its partition.
LEMMA KafkaDispatchStep ==
  ASSUME LedgerInv, KafkaInv, KafkaDispatch
  PROVE  KafkaGoal
<1> USE DEF kState, kLoop
<1> DEFINE n == NextMessage
           b == AggregateOf[n]
<1>1. /\ n \in Messages /\ accepted' = accepted \cup {n}
      /\ kLog' = [kLog EXCEPT ![b] = Append(@, n)]
      /\ UNCHANGED <<handled, parked, discarded, failures>>
      /\ UNCHANGED <<kCommitted, kPosition, kPc, kClosed, kBusy, kPhase, kCounts>>
  BY DEF KafkaDispatch
<1>2. n \notin accepted /\ accepted \subseteq Messages /\ \A k \in accepted : k < n
  BY <1>1, NextIsLast DEF LedgerInv
<1>3. LedgerInv'  BY <1>1, LedgerAccepts
<1> HIDE DEF n
<1>4. b \in Aggregates  BY <1>1, LedgerAssumption
<1>5. kLog \in [Aggregates -> Seq(Messages)]  BY DEF KafkaInv, KafkaTypes
<1>6. /\ kLog'[b] = Append(kLog[b], n)
      /\ \A p \in Aggregates : p # b => kLog'[p] = kLog[p]
  BY <1>1, <1>4, <1>5
<1> DEFINE N == Len(kLog[b])
<1>7. /\ kLog'[b] \in Seq(Messages) /\ N \in Nat
      /\ Len(kLog'[b]) = N + 1
      /\ \A j \in 1..N : kLog'[b][j] = kLog[b][j]
      /\ kLog'[b][N + 1] = n
  <2>1. kLog[b] \in Seq(Messages)  BY <1>4, <1>5
  <2> QED  BY <1>1, <1>6, <2>1, AppendProperties, LenProperties
<1>8. \A p \in Aggregates :
        /\ kLog'[p] \in Seq(Messages) /\ Len(kLog[p]) \in Nat /\ Len(kLog'[p]) \in Nat
        /\ Len(kLog[p]) <= Len(kLog'[p])
        /\ \A j \in 1..Len(kLog[p]) : kLog'[p][j] = kLog[p][j]
  <2> SUFFICES ASSUME NEW p \in Aggregates
               PROVE  /\ kLog'[p] \in Seq(Messages) /\ Len(kLog[p]) \in Nat
                      /\ Len(kLog'[p]) \in Nat /\ Len(kLog[p]) <= Len(kLog'[p])
                      /\ \A j \in 1..Len(kLog[p]) : kLog'[p][j] = kLog[p][j]
    OBVIOUS
  <2>1. kLog[p] \in Seq(Messages)  BY <1>5
  <2>2. Len(kLog[p]) \in Nat  BY <2>1, LenProperties
  <2>3. CASE p = b  BY <1>7, <2>3
  <2>4. CASE p # b  BY <1>6, <2>1, <2>2, <2>4
  <2> QED  BY <2>3, <2>4
<1>9. KafkaTypes'
  <2>1. kLog' = [p \in Aggregates |-> kLog'[p]]  BY <1>1, <1>5
  <2>2. kLog' \in [Aggregates -> Seq(Messages)]  BY <1>8, <2>1
  <2> QED  BY <1>1, <2>2 DEF KafkaInv, KafkaTypes
<1>10. \A p \in Aggregates : \A j \in 1..Len(kLog'[p]) :
         \/ j \in 1..Len(kLog[p]) /\ kLog'[p][j] = kLog[p][j]
         \/ p = b /\ j = N + 1 /\ kLog'[p][j] = n
  <2> SUFFICES ASSUME NEW p \in Aggregates, NEW j \in 1..Len(kLog'[p])
               PROVE  \/ j \in 1..Len(kLog[p]) /\ kLog'[p][j] = kLog[p][j]
                      \/ p = b /\ j = N + 1 /\ kLog'[p][j] = n
    OBVIOUS
  <2>1. CASE p = b  BY <1>7, <2>1
  <2>2. CASE p # b  BY <1>6, <2>2
  <2> QED  BY <2>1, <2>2
<1>11. \A p \in Aggregates : \A j \in 1..Len(kLog[p]) :
         /\ kLog[p][j] \in accepted /\ AggregateOf[kLog[p][j]] = p
         /\ \A k \in 1..Len(kLog[p]) : j < k => kLog[p][j] < kLog[p][k]
  BY DEF KafkaInv, Logged
<1>12. Logged'
  <2>1. ASSUME NEW p \in Aggregates, NEW j \in 1..Len(kLog'[p])
        PROVE  /\ kLog'[p][j] \in accepted' /\ AggregateOf[kLog'[p][j]] = p
               /\ \A k \in 1..Len(kLog'[p]) : j < k => kLog'[p][j] < kLog'[p][k]
    <3>1. kLog'[p][j] \in accepted' /\ AggregateOf[kLog'[p][j]] = p
      BY <1>1, <1>10, <1>11
    <3>2. ASSUME NEW k \in 1..Len(kLog'[p]), j < k
          PROVE  kLog'[p][j] < kLog'[p][k]
      <4>1. CASE k \in 1..Len(kLog[p]) /\ kLog'[p][k] = kLog[p][k]
        <5>1. j \in 1..Len(kLog[p])  BY <1>8, <3>2, <4>1
        <5>2. kLog'[p][j] = kLog[p][j]  BY <1>8, <5>1
        <5> QED  BY <1>11, <3>2, <4>1, <5>1, <5>2
      <4>2. CASE p = b /\ k = N + 1 /\ kLog'[p][k] = n
        <5>1. j \in 1..N  BY <1>7, <3>2, <4>2
        <5>2. kLog'[p][j] = kLog[p][j] /\ kLog[p][j] \in accepted
          BY <1>7, <1>11, <4>2, <5>1
        <5> QED  BY <1>2, <4>2, <5>2
      <4> QED  BY <1>10, <4>1, <4>2
    <3> QED  BY <3>1, <3>2
  <2>2. ASSUME NEW k \in accepted'
        PROVE  \E j \in 1..Len(kLog'[AggregateOf[k]]) : kLog'[AggregateOf[k]][j] = k
    <3>1. CASE k \in accepted
      <4>1. PICK j \in 1..Len(kLog[AggregateOf[k]]) : kLog[AggregateOf[k]][j] = k
        BY <3>1 DEF KafkaInv, Logged
      <4>2. AggregateOf[k] \in Aggregates  BY <1>2, <3>1, LedgerAssumption
      <4>3. j \in 1..Len(kLog'[AggregateOf[k]]) /\ kLog'[AggregateOf[k]][j] = k
        BY <1>8, <4>1, <4>2
      <4> QED  BY <4>3
    <3>2. CASE k = n
      <4>1. N + 1 \in 1..Len(kLog'[b]) /\ kLog'[b][N + 1] = k  BY <1>7, <3>2
      <4> QED  BY <3>2, <4>1
    <3> QED  BY <1>1, <3>1, <3>2
  <2> QED  BY <2>1, <2>2 DEF Logged
<1>13. OffsetsInLog'
  <2> SUFFICES ASSUME NEW p \in Aggregates
               PROVE  /\ kCommitted[p] \in {NoOffset} \cup 0..Len(kLog'[p])
                      /\ kPosition[p] <= Len(kLog'[p])
    BY <1>1 DEF OffsetsInLog
  <2>1. kCommitted[p] \in {NoOffset} \cup 0..Len(kLog[p]) /\ kPosition[p] <= Len(kLog[p])
    BY DEF KafkaInv, OffsetsInLog
  <2>2. kPosition[p] \in Nat  BY DEF KafkaInv, KafkaTypes
  <2> QED  BY <1>8, <2>1, <2>2
<1>14. MessageInHand'
  <2> SUFFICES ASSUME kBusy # NoPartition  PROVE MessageInHand'
    BY <1>1 DEF MessageInHand
  <2>1. /\ kPc \in {"running", "closing"} /\ kPosition[kBusy] < Len(kLog[kBusy])
        /\ kPhase = "commit" => InHand \in Done
    BY DEF KafkaInv, MessageInHand
  <2>2. kBusy \in Aggregates /\ kPosition[kBusy] \in Nat  BY DEF KafkaInv, KafkaTypes
  <2>3. kPosition[kBusy] < Len(kLog'[kBusy])  BY <1>8, <2>1, <2>2
  <2>4. kPosition[kBusy] + 1 \in 1..Len(kLog[kBusy])  BY <1>8, <2>1, <2>2
  <2>5. InHand' = InHand /\ Done' = Done  BY <1>1, <1>8, <2>2, <2>4 DEF InHand, Done
  <2> QED  BY <1>1, <2>1, <2>3, <2>5 DEF MessageInHand
<1>15. KafkaCounted' /\ ParkedRejected'  BY <1>1 DEF KafkaInv, KafkaCounted, ParkedRejected
<1>16. ASSUME Established, NEW p \in Aggregates  PROVE SettledPrefix(p)'
  <2>1. SettledPrefix(p)  BY <1>16 DEF KafkaInv
  <2>2. Done' = Done /\ handled' = handled /\ parked' = parked  BY <1>1 DEF Done
  <2>3. kPosition[p] \in Nat /\ kPosition[p] <= Len(kLog[p]) /\ Len(kLog[p]) \in Nat
    BY <1>8 DEF KafkaInv, KafkaTypes, OffsetsInLog
  <2>4. \A j \in 1..kPosition[p] : kLog'[p][j] \in Done
    <3>1. \A j \in 1..kPosition[p] : j \in 1..Len(kLog[p])  BY <2>3
    <3> QED  BY <1>8, <2>1, <3>1 DEF SettledPrefix
  <2>5. \A j \in 1..Len(kLog'[p]) :
          j > kPosition[p] + 1 => kLog'[p][j] \notin handled \cup parked
    <3>1. n \notin handled \cup parked  BY <1>2 DEF LedgerInv
    <3> QED  BY <1>10, <2>1, <3>1 DEF SettledPrefix
  <2> QED  BY <1>1, <2>1, <2>2, <2>4, <2>5 DEF SettledPrefix
<1>17. LogStep
  <2>1. ASSUME NEW p \in Aggregates, NEW j \in 1..kCommitted[p]
        PROVE  kLog'[p][j] = kLog[p][j]
    <3>1. kCommitted[p] = -1 \/ kCommitted[p] \in 0..Len(kLog[p])
      BY DEF KafkaInv, OffsetsInLog, NoOffset
    <3>2. j \in 1..Len(kLog[p])  BY <1>8, <3>1
    <3> QED  BY <1>8, <3>2
  <2>2. \A m : PastOffset(m)' <=> PastOffset(m)  BY <1>1, <2>1 DEF PastOffset
  <2> QED  BY <1>1, <2>2, PastIsAccepted DEF LogStep, LedgerInv
<1> QED  BY <1>3, <1>9, <1>12, <1>13, <1>14, <1>15, <1>16, <1>17 DEF KafkaGoal, KafkaInv

\* Where the message in hand is.
LEMMA HandInLog ==
  ASSUME LedgerInv, KafkaInv, kBusy # NoPartition
  PROVE  /\ kBusy \in Aggregates
         /\ kPosition[kBusy] \in Nat /\ Len(kLog[kBusy]) \in Nat
         /\ kPosition[kBusy] < Len(kLog[kBusy])
         /\ kPosition[kBusy] + 1 \in 1..Len(kLog[kBusy])
         /\ InHand \in accepted /\ InHand \in Messages /\ AggregateOf[InHand] = kBusy
         /\ kPc \in {"running", "closing"}
<1>1. kBusy \in Aggregates /\ kPosition[kBusy] \in Nat /\ kLog[kBusy] \in Seq(Messages)
  BY DEF KafkaInv, KafkaTypes
<1>2. Len(kLog[kBusy]) \in Nat  BY <1>1, LenProperties
<1>3. kPosition[kBusy] < Len(kLog[kBusy]) /\ kPc \in {"running", "closing"}
  BY DEF KafkaInv, MessageInHand
<1>4. kPosition[kBusy] + 1 \in 1..Len(kLog[kBusy])  BY <1>1, <1>2, <1>3
<1>5. InHand \in accepted /\ AggregateOf[InHand] = kBusy
  BY <1>1, <1>4 DEF KafkaInv, Logged, InHand
<1> QED  BY <1>1, <1>2, <1>3, <1>4, <1>5, AcceptedAreMessages DEF LedgerInv

\* The handlers of the message in hand settle it, one way or the other: only
\* this message can become handled or parked, and it is the one next to the
\* committed offset.
LEMMA KafkaSettlingSteps ==
  ASSUME LedgerInv, KafkaInv, KafkaHandled \/ KafkaPoison \/ KafkaRejected
  PROVE  KafkaGoal
<1> USE DEF kGroup, kState, kOthers
<1>1. kBusy # NoPartition  BY DEF KafkaHandled, KafkaPoison, KafkaRejected, Handling
<1> DEFINE m == InHand
<1>2. /\ kBusy \in Aggregates
      /\ kPosition[kBusy] \in Nat /\ Len(kLog[kBusy]) \in Nat
      /\ kPosition[kBusy] < Len(kLog[kBusy])
      /\ kPosition[kBusy] + 1 \in 1..Len(kLog[kBusy])
      /\ m \in accepted /\ m \in Messages /\ AggregateOf[m] = kBusy
      /\ kPc \in {"running", "closing"}
  BY <1>1, HandInLog
<1>3. m = kLog[kBusy][kPosition[kBusy] + 1]  BY DEF InHand
<1>4. /\ UNCHANGED <<accepted, discarded>>
      /\ UNCHANGED <<kLog, kCommitted, kClosed>>
      /\ kPosition' = kPosition \/ Joined
      /\ kBusy' = NoPartition \/ UNCHANGED <<kPosition, kPc>>
      /\ handled' \in {handled, handled \cup {m}} /\ parked' \in {parked, parked \cup {m}}
  BY DEF KafkaHandled, KafkaPoison, KafkaRejected, Throw, PutDown
<1>5. \/ /\ UNCHANGED <<failures, kCounts, kBusy>> /\ kPhase' = "commit"
         /\ m \in handled' \cup Poison /\ (parked' = parked \/ m \in Poison)
      \/ /\ failures' = [failures EXCEPT ![m] = @ + 1]
         /\ kCounts' = [kCounts EXCEPT ![m] = @ + 1] /\ parked' = parked
         /\ kBusy' = NoPartition
      \/ /\ failures' = [failures EXCEPT ![m] = @ + 1] /\ kCounts[m] + 1 > MaxRetries
         /\ kCounts' = [kCounts EXCEPT ![m] = 0] /\ parked' = parked \cup {m}
         /\ kBusy' = kBusy /\ kPhase' = "commit"
  BY <1>2 DEF KafkaHandled, KafkaPoison, KafkaRejected, Throw, PutDown, KafkaInv, KafkaTypes
<1>6. kCounts \in [Messages -> Nat] /\ failures \in [Messages -> Nat]
      /\ \A n \in Messages : kCounts[n] <= failures[n]
  BY DEF KafkaInv, KafkaTypes, KafkaCounted, LedgerInv
<1>7. /\ kPosition' \in [Aggregates -> Nat]
      /\ \A p \in Aggregates :
           /\ kPosition'[p] <= Len(kLog[p])
           /\ Established => kPosition'[p] = kPosition[p]
  BY <1>4, PositionStays
<1> HIDE DEF m
<1>8. /\ kCounts' \in [Messages -> Nat] /\ failures' \in [Messages -> Nat]
      /\ \A n \in Messages : kCounts'[n] <= failures'[n] /\ failures[n] <= failures'[n]
  <2>1. kCounts' \in [Messages -> Nat] /\ failures' \in [Messages -> Nat]
    BY <1>2, <1>5, <1>6
  <2>2. ASSUME NEW n \in Messages
        PROVE  kCounts'[n] <= failures'[n] /\ failures[n] <= failures'[n]
    <3>1. CASE n = m  BY <1>2, <1>5, <1>6, <3>1
    <3>2. CASE n # m  BY <1>2, <1>5, <1>6, <3>2
    <3> QED  BY <3>1, <3>2
  <2> QED  BY <2>1, <2>2
<1>9. kBusy' \in {kBusy, NoPartition}  BY <1>5
<1>10. KafkaTypes'  BY <1>2, <1>4, <1>7, <1>8, <1>9 DEF KafkaInv, KafkaTypes
<1>11. Logged' /\ OffsetsInLog'  BY <1>4, <1>7 DEF KafkaInv, Logged, OffsetsInLog
<1>12. KafkaCounted'  BY <1>8 DEF KafkaCounted
<1>13. MessageInHand'
  <2>1. CASE kBusy' = NoPartition  BY <2>1 DEF MessageInHand
  <2>2. CASE kBusy' = kBusy
    <3>1. InHand' = m /\ UNCHANGED <<kPosition, kPc>>
      BY <1>1, <1>3, <1>4, <2>2 DEF InHand
    <3>2. m \in handled' \cup parked' \cup Poison  BY <1>1, <1>5, <2>2
    <3>3. InHand' \in Done'  BY <3>1, <3>2 DEF Done
    <3> QED  BY <1>2, <1>4, <2>2, <3>1, <3>3 DEF MessageInHand
  <2> QED  BY <1>9, <2>1, <2>2
<1>14. ParkedRejected'
  <2> SUFFICES ASSUME NEW n \in parked' \ Poison  PROVE failures'[n] >= MaxRetries
    BY DEF ParkedRejected
  <2>1. CASE n \in parked
    <3>1. failures[n] >= MaxRetries  BY <2>1 DEF KafkaInv, ParkedRejected
    <3>2. n \in Messages  BY <2>1, AcceptedAreMessages DEF LedgerInv
    <3> QED  BY <1>6, <1>8, <3>1, <3>2, LedgerAssumption
  <2>2. CASE n \notin parked
    <3>1. n = m /\ kCounts[m] + 1 > MaxRetries /\ failures' = [failures EXCEPT ![m] = @ + 1]
      BY <1>4, <1>5, <2>2
    <3>2. failures'[m] = failures[m] + 1  BY <1>2, <1>6, <3>1
    <3> QED  BY <1>2, <1>6, <3>1, <3>2, LedgerAssumption
  <2> QED  BY <2>1, <2>2
<1>15. ASSUME Established, NEW p \in Aggregates  PROVE SettledPrefix(p)'
  <2>1. SettledPrefix(p)  BY <1>15 DEF KafkaInv
  <2>2. Done \subseteq Done'  BY <1>4 DEF Done
  <2>3. ASSUME NEW j \in 1..Len(kLog[p]), j > kPosition[p] + 1
        PROVE  kLog[p][j] \notin handled' \cup parked'
    <3>1. kLog[p][j] \notin handled \cup parked  BY <2>1, <2>3 DEF SettledPrefix
    <3>2. kLog[p][j] # m
      <4>1. CASE p # kBusy
        <5>1. AggregateOf[kLog[p][j]] = p  BY DEF KafkaInv, Logged
        <5> QED  BY <1>2, <4>1, <5>1
      <4>2. CASE p = kBusy
        <5>1. kLog[p][kPosition[p] + 1] < kLog[p][j]
          BY <1>2, <2>3, <4>2 DEF KafkaInv, Logged
        <5>2. m < kLog[p][j]  BY <1>3, <4>2, <5>1
        <5>3. m \in Nat  BY <1>2 DEF Messages
        <5> QED  BY <5>2, <5>3
      <4> QED  BY <4>1, <4>2
    <3> QED  BY <1>4, <3>1, <3>2
  <2>4. kPosition'[p] = kPosition[p]  BY <1>7, <1>15
  <2> QED  BY <1>4, <2>1, <2>2, <2>3, <2>4 DEF SettledPrefix
<1>16. LedgerInv'  BY <1>2, <1>4, <1>8, LedgerSettles DEF LedgerInv
<1>17. LogStep
  <2>1. \A n : PastOffset(n)' <=> PastOffset(n)  BY <1>4 DEF PastOffset
  <2>2. handled' \cup parked' \subseteq accepted  BY <1>2, <1>4 DEF LedgerInv
  <2> QED  BY <1>4, <2>1, <2>2, PastIsAccepted DEF LogStep
<1> QED
  BY <1>10, <1>11, <1>12, <1>13, <1>14, <1>15, <1>16, <1>17 DEF KafkaGoal, KafkaInv

\* The commit moves the offset past the message in hand, which is settled.
LEMMA KafkaCommitStep ==
  ASSUME LedgerInv, KafkaInv, KafkaCommit
  PROVE  KafkaGoal
<1> USE DEF ledger, kState
<1>1. kBusy # NoPartition /\ kPhase = "commit"  BY DEF KafkaCommit
<1> DEFINE b == kBusy
           x == kPosition[kBusy] + 1
<1>2. /\ b \in Aggregates /\ kPosition[b] \in Nat /\ Len(kLog[b]) \in Nat
      /\ x \in 1..Len(kLog[b]) /\ x \in Nat /\ InHand \in Messages
  BY <1>1, HandInLog
<1>3. kLog[b][x] \in Done  BY <1>1 DEF KafkaInv, MessageInHand, InHand
<1>4. /\ UNCHANGED <<accepted, handled, parked, discarded, failures>>
      /\ UNCHANGED <<kLog, kClosed>>
      /\ kCommitted' = [kCommitted EXCEPT ![b] = x]
      /\ kPosition' = [kPosition EXCEPT ![b] = x]
      /\ kCounts' = [kCounts EXCEPT ![InHand] = 0]
      /\ kBusy' = NoPartition
  BY DEF KafkaCommit, PutDown
<1>5. /\ kLog \in [Aggregates -> Seq(Messages)]
      /\ kCommitted \in [Aggregates -> Int] /\ kPosition \in [Aggregates -> Nat]
      /\ kCounts \in [Messages -> Nat] /\ failures \in [Messages -> Nat]
  BY DEF KafkaInv, KafkaTypes, LedgerInv
<1>6. x = kPosition[b] + 1  OBVIOUS
<1> HIDE DEF b, x
<1>7. /\ kCommitted'[b] = x /\ kPosition'[b] = x
      /\ \A p \in Aggregates : p # b =>
           kCommitted'[p] = kCommitted[p] /\ kPosition'[p] = kPosition[p]
  BY <1>2, <1>4, <1>5
<1>8. KafkaTypes'
  <2>1. kCommitted' \in [Aggregates -> Int] /\ kPosition' \in [Aggregates -> Nat]
    BY <1>2, <1>4, <1>5
  <2>2. kCounts' \in [Messages -> Nat]  BY <1>2, <1>4, <1>5
  <2> QED  BY <1>4, <1>5, <2>1, <2>2 DEF KafkaTypes
<1>9. Logged' /\ ParkedRejected'  BY <1>4 DEF KafkaInv, Logged, ParkedRejected
<1>10. OffsetsInLog'
  <2> SUFFICES ASSUME NEW p \in Aggregates
               PROVE  /\ kCommitted'[p] \in {NoOffset} \cup 0..Len(kLog[p])
                      /\ kPosition'[p] <= Len(kLog[p])
    BY <1>4 DEF OffsetsInLog
  <2>1. CASE p = b  BY <1>2, <1>7, <2>1
  <2>2. CASE p # b  BY <1>7, <2>2 DEF KafkaInv, OffsetsInLog
  <2> QED  BY <2>1, <2>2
<1>11. MessageInHand'  BY <1>4 DEF MessageInHand
<1>12. KafkaCounted'
  <2> SUFFICES ASSUME NEW n \in Messages  PROVE kCounts'[n] <= failures[n]
    BY <1>4 DEF KafkaCounted
  <2>1. kCounts[n] <= failures[n] /\ failures[n] \in Nat  BY <1>5 DEF KafkaInv, KafkaCounted
  <2> QED  BY <1>2, <1>4, <1>5, <2>1
<1>13. ASSUME Established, NEW p \in Aggregates  PROVE SettledPrefix(p)'
  <2>1. SettledPrefix(p)  BY <1>13 DEF KafkaInv
  <2>2. Done' = Done /\ handled' = handled /\ parked' = parked /\ kLog' = kLog
    BY <1>4 DEF Done
  <2>3. CASE p # b
    <3>1. kCommitted'[p] = kCommitted[p] /\ kPosition'[p] = kPosition[p]  BY <1>7, <2>3
    <3> QED  BY <2>1, <2>2, <3>1 DEF SettledPrefix
  <2>4. CASE p = b
    <3>1. kCommitted'[p] = x /\ kPosition'[p] = x  BY <1>7, <2>4
    <3>2. \A j \in 1..x : kLog[p][j] \in Done
      <4>1. \A j \in 1..x : j \in 1..kPosition[b] \/ j = x  BY <1>2, <1>6
      <4> QED  BY <1>3, <2>1, <2>4, <4>1 DEF SettledPrefix
    <3>3. \A j \in 1..Len(kLog[p]) : j > x + 1 => kLog[p][j] \notin handled \cup parked
      <4>1. \A j \in 1..Len(kLog[p]) : j > x + 1 => j > kPosition[p] + 1
        BY <1>2, <1>6, <2>4
      <4> QED  BY <2>1, <4>1 DEF SettledPrefix
    <3> QED  BY <2>2, <3>1, <3>2, <3>3 DEF SettledPrefix
  <2> QED  BY <2>3, <2>4
<1>14. LedgerInv'  BY <1>4, LedgerSettles DEF LedgerInv
<1>15. LogStep
  <2>1. ASSUME Established
        PROVE  /\ \A n : PastOffset(n) => PastOffset(n)'
               /\ \A n : PastOffset(n)' => n \in accepted
               /\ \A n : PastOffset(n)' /\ ~PastOffset(n) => n \in Done
    <3>1. kCommitted[b] = kPosition[b]  BY <1>2, <2>1 DEF KafkaInv, SettledPrefix
    <3>2. \A j : j \in 1..x <=> j \in 1..kCommitted[b] \/ j = x  BY <1>2, <1>6, <3>1
    <3>3. ASSUME NEW n, PastOffset(n)  PROVE PastOffset(n)'
      <4>1. PICK p \in Aggregates : \E j \in 1..kCommitted[p] : kLog[p][j] = n
        BY <3>3 DEF PastOffset
      <4>2. PICK j \in 1..kCommitted[p] : kLog[p][j] = n  BY <4>1
      <4>3. j \in 1..kCommitted'[p]  BY <1>7, <3>2
      <4> QED  BY <1>4, <4>2, <4>3 DEF PastOffset
    <3>4. ASSUME NEW n, PastOffset(n)'  PROVE PastOffset(n) \/ n = kLog[b][x]
      <4>1. PICK p \in Aggregates : \E j \in 1..kCommitted'[p] : kLog[p][j] = n
        BY <1>4, <3>4 DEF PastOffset
      <4>2. PICK j \in 1..kCommitted'[p] : kLog[p][j] = n  BY <4>1
      <4>3. CASE p = b /\ j = x  BY <4>2, <4>3
      <4>4. CASE ~(p = b /\ j = x)
        <5>1. j \in 1..kCommitted[p]  BY <1>7, <3>2, <4>4
        <5> QED  BY <4>2, <5>1 DEF PastOffset
      <4> QED  BY <4>3, <4>4
    <3>5. kLog[b][x] \in accepted  BY <1>2 DEF KafkaInv, Logged
    <3> QED  BY <1>3, <3>3, <3>4, <3>5, PastIsAccepted
  <2> QED  BY <1>4, <2>1 DEF LogStep, LedgerInv, Done
<1> QED  BY <1>8, <1>9, <1>10, <1>11, <1>12, <1>13, <1>14, <1>15 DEF KafkaGoal, KafkaInv

\* Every step of the Kafka bus keeps its invariant, and commits past settled
\* messages only.
LEMMA KafkaNextStep ==
  ASSUME LedgerInv, KafkaInv, KafkaNext
  PROVE  KafkaGoal
BY KafkaCallSteps, KafkaHandSteps, KafkaDispatchStep, KafkaSettlingSteps, KafkaCommitStep
   DEF KafkaNext, KafkaCalls, KafkaWork

-----------------------------------------------------------------------------
(* NATS.                                                                   *)

\* What a step of the bus does to the stream.
StreamStep ==
  /\ accepted \subseteq accepted'
  /\ handled \subseteq handled' /\ parked \subseteq parked'
  /\ handled' \cup parked' \subseteq accepted
  /\ \A m \in accepted : m \in nLive' => m \in nLive
  /\ \A m \in accepted : m \in nLive \ nLive' /\ ~nClosed =>
       m \in handled' \cup parked' \cup discarded' \cup Poison
  /\ \A m \in accepted' \ accepted : m \in nLive'
  /\ nClosed => nClosed'

NatsGoal == LedgerInv' /\ NatsInv' /\ StreamStep

\* Steps that leave the ledger and the stream alone.
LEMMA QuietNatsStep ==
  ASSUME LedgerInv, NatsInv, UNCHANGED <<outcome, nLive>>,
         nDelivered' \in [Messages -> Nat],
         nInbox' \in [Loops -> Seq(Messages \X Nat)],
         \A l \in Loops : \A j \in 1..Len(nInbox'[l]) : nInbox'[l][j][1] \in accepted,
         nPc' \in {"draining", "drained"} => nClosed', nClosed => nClosed'
  PROVE  NatsGoal
<1> USE DEF outcome
<1>1. LedgerInv'  BY LedgerSettles DEF LedgerInv
<1>2. NatsInv'  BY DEF NatsInv
<1>3. StreamStep  BY DEF StreamStep, LedgerInv
<1> QED  BY <1>1, <1>2, <1>3 DEF NatsGoal

\* connect(), on(), close(), a crash and an ack wait that runs out.
LEMMA NatsCallSteps ==
  ASSUME LedgerInv, NatsInv,
         \/ NatsCalls \/ NatsActivateFails \/ NatsOn \/ NatsClose \/ NatsCrash
         \/ \E m \in Messages : NatsAckWaitOver(m)
  PROVE  NatsGoal
<1> USE DEF ledger, outcome, nServer, nState
<1>1. /\ UNCHANGED <<accepted, handled, parked, discarded, failures, nLive, nDelivered>>
      /\ nInbox' = nInbox \/ nInbox' = [l \in Loops |-> << >>]
  BY DEF NatsCalls, NatsConnect, NatsActivate, NatsLateSubscription, NatsDrained,
         NatsActivateFails, NatsOn, NatsClose, NatsCrash, NatsAckWaitOver
<1>2. /\ nPc' \in {"draining", "drained"} => nClosed'
      /\ nClosed => nClosed'
  BY DEF NatsCalls, NatsConnect, NatsActivate, NatsLateSubscription, NatsDrained, NatsInv,
         NatsActivateFails, NatsOn, NatsClose, NatsCrash, NatsAckWaitOver
<1>3. /\ nInbox' \in [Loops -> Seq(Messages \X Nat)]
      /\ \A l \in Loops : \A j \in 1..Len(nInbox'[l]) : nInbox'[l][j][1] \in accepted
  <2>1. CASE nInbox' = nInbox  BY <2>1 DEF NatsInv
  <2>2. CASE nInbox' = [l \in Loops |-> << >>]
    <3>1. \A l \in Loops : nInbox'[l] = << >> /\ Len(nInbox'[l]) = 0  BY <2>2
    <3>2. nInbox' \in [Loops -> Seq(Messages \X Nat)]  BY <2>2
    <3> QED  BY <3>1, <3>2
  <2> QED  BY <1>1, <2>1, <2>2
<1>4. nDelivered' \in [Messages -> Nat]  BY <1>1 DEF NatsInv
<1> QED  BY <1>1, <1>2, <1>3, <1>4, QuietNatsStep

\* A published message joins the stream.
LEMMA NatsDispatchStep ==
  ASSUME LedgerInv, NatsInv, NatsDispatch
  PROVE  NatsGoal
<1> USE DEF nState
<1> DEFINE n == NextMessage
<1>1. /\ n \in Messages /\ accepted' = accepted \cup {n} /\ nLive' = nLive \cup {n}
      /\ UNCHANGED <<handled, parked, discarded, failures, nDelivered, nInbox, nPc, nClosed>>
  BY DEF NatsDispatch
<1>2. n \notin accepted  BY <1>1, NextIsLast DEF LedgerInv
<1>3. LedgerInv'  BY <1>1, LedgerAccepts
<1> HIDE DEF n
<1>4. NatsInv'  BY <1>1 DEF NatsInv
<1>5. StreamStep  BY <1>1, <1>2 DEF StreamStep, LedgerInv
<1> QED  BY <1>3, <1>4, <1>5 DEF NatsGoal

\* A delivery puts a live message, hence an accepted one, into an inbox.
LEMMA NatsDeliverStep ==
  ASSUME LedgerInv, NatsInv, NEW l \in Loops, NEW m \in Messages, NatsDeliver(l, m)
  PROVE  NatsGoal
<1> USE DEF ledger, outcome, nState
<1>1. /\ UNCHANGED <<accepted, handled, parked, discarded, failures, nLive, nPc, nClosed>>
      /\ nDelivered' = [nDelivered EXCEPT ![m] = @ + 1]
      /\ nInbox' = [nInbox EXCEPT ![l] = Append(@, <<m, nDelivered'[m]>>)]
      /\ m \in accepted
  BY DEF NatsDeliver, NatsInv
<1>2. nDelivered \in [Messages -> Nat] /\ nInbox \in [Loops -> Seq(Messages \X Nat)]
  BY DEF NatsInv
<1>3. nDelivered' \in [Messages -> Nat]  BY <1>1, <1>2
<1> DEFINE D == Messages \X Nat
           d == <<m, nDelivered'[m]>>
           s == nInbox[l]
           t == nInbox'[l]
<1>4. d \in D /\ s \in Seq(D) /\ t = Append(s, d) /\ d[1] \in accepted  BY <1>1, <1>2, <1>3
<1>5. \A k \in Loops : k # l => nInbox'[k] = nInbox[k]  BY <1>1, <1>2
<1>6. nInbox' = [k \in Loops |-> nInbox'[k]]  BY <1>1, <1>2
<1>7. \A j \in 1..Len(s) : s[j][1] \in accepted  BY DEF NatsInv
<1> HIDE DEF D, d, s, t
<1>8. /\ t \in Seq(D) /\ Len(t) = Len(s) + 1 /\ t[Len(s) + 1] = d
      /\ \A j \in 1..Len(s) : t[j] = s[j]
  BY <1>4, AppendProperties
<1>9. Len(s) \in Nat  BY <1>4, LenProperties
<1>10. \A j \in 1..Len(t) : j \in 1..Len(s) \/ j = Len(s) + 1  BY <1>8, <1>9
<1>11. \A j \in 1..Len(t) : t[j][1] \in accepted  BY <1>4, <1>7, <1>8, <1>10
<1>12. nInbox' \in [Loops -> Seq(Messages \X Nat)]
  <2>1. \A k \in Loops : nInbox'[k] \in Seq(Messages \X Nat)  BY <1>2, <1>5, <1>8 DEF D, t
  <2> QED  BY <1>6, <2>1
<1>13. \A k \in Loops : \A j \in 1..Len(nInbox'[k]) : nInbox'[k][j][1] \in accepted
  BY <1>5, <1>11 DEF NatsInv, t
<1> QED  BY <1>1, <1>3, <1>12, <1>13, QuietNatsStep DEF NatsInv

\* A loop settles the message at the head of its inbox: it leaves the stream
\* handled, parked or discarded, unless the bus is draining.
LEMMA NatsSettlingSteps ==
  ASSUME LedgerInv, NatsInv, NEW l \in Loops, NatsSettles(l)
  PROVE  NatsGoal
<1> USE DEF outcome, nState
<1> DEFINE m == nInbox[l][1][1]
           s == nInbox[l]
           t == nInbox'[l]
<1>1. /\ nInbox[l] # << >> /\ Online /\ nInbox' = [nInbox EXCEPT ![l] = Tail(@)]
      /\ UNCHANGED <<accepted, nDelivered, nPc, nClosed>>
  BY DEF NatsSettles, NatsPoison, NatsHandled, NatsRejected, NatsExhausted, Take
<1>2. nInbox \in [Loops -> Seq(Messages \X Nat)]  BY DEF NatsInv
<1>3. s \in Seq(Messages \X Nat) /\ s # << >> /\ t = Tail(s)  BY <1>1, <1>2
<1>4. \A j \in 1..Len(s) : s[j][1] \in accepted  BY DEF NatsInv
<1>5. \A k \in Loops : k # l => nInbox'[k] = nInbox[k]  BY <1>1, <1>2
<1>6. nInbox' = [k \in Loops |-> nInbox'[k]]  BY <1>1, <1>2
<1>7. /\ handled' \in {handled, handled \cup {m}} /\ parked' \in {parked, parked \cup {m}}
      /\ discarded' \in {discarded, discarded \cup {m}}
      /\ failures' \in {failures, [failures EXCEPT ![m] = @ + 1]}
      /\ nLive' \in {nLive, nLive \ {m}}
  BY DEF NatsSettles, NatsPoison, NatsHandled, NatsRejected, NatsExhausted, TakeOff, Next1,
         DeadLetterCopy
<1>8. nLive' = nLive \/ nClosed \/ m \in handled' \cup parked' \cup discarded' \cup Poison
  <2>1. CASE NatsPoison(l)  BY <2>1 DEF NatsPoison, Next1
  <2>2. CASE NatsHandled(l)  BY <2>2 DEF NatsHandled, Next1
  <2>3. CASE NatsRejected(l)  BY <2>3 DEF NatsRejected
  <2>4. CASE NatsExhausted(l)
    <3>1. HasJetStream => m \in parked' \cup discarded'
      BY <2>4 DEF NatsExhausted, DeadLetterCopy, Next1
    <3>2. ~HasJetStream => nClosed  BY <1>1 DEF Online, NatsInv
    <3> QED  BY <3>1, <3>2
  <2> QED  BY <2>1, <2>2, <2>3, <2>4 DEF NatsSettles
<1>9. failures \in [Messages -> Nat]  BY DEF LedgerInv
<1> HIDE DEF m, s, t
<1>10. /\ t \in Seq(Messages \X Nat) /\ Len(t) = Len(s) - 1
       /\ \A j \in 1..Len(t) : t[j] = s[j + 1]
  <2> DEFINE D == Messages \X Nat
  <2>1. s \in Seq(D)  BY <1>3
  <2> HIDE DEF D
  <2>2. /\ t \in Seq(D) /\ Len(t) = Len(s) - 1
        /\ \A j \in 1..Len(t) : t[j] = s[j + 1]
    BY <1>3, <2>1, HeadTailProperties
  <2> QED  BY <2>2 DEF D
<1>11. Len(s) \in Nat /\ Len(s) # 0  BY <1>3, EmptySeq, LenProperties
<1>12. 1 \in 1..Len(s)  BY <1>11
<1>13. m \in accepted /\ m \in Messages
  BY <1>4, <1>12, AcceptedAreMessages DEF m, s, LedgerInv
<1>14. \A j \in 1..Len(t) : t[j][1] \in accepted
  <2>1. \A j \in 1..Len(t) : j + 1 \in 1..Len(s)  BY <1>10, <1>11
  <2> QED  BY <1>4, <1>10, <2>1
<1>15. failures' \in [Messages -> Nat]  BY <1>7, <1>9, <1>13
<1>16. LedgerInv'  BY <1>1, <1>7, <1>13, <1>15, LedgerSettles DEF LedgerInv
<1>17. NatsInv'
  <2>1. \A k \in Loops : nInbox'[k] \in Seq(Messages \X Nat)  BY <1>2, <1>5, <1>10 DEF t
  <2>2. nInbox' \in [Loops -> Seq(Messages \X Nat)]  BY <1>6, <2>1
  <2>3. \A k \in Loops : \A j \in 1..Len(nInbox'[k]) : nInbox'[k][j][1] \in accepted
    BY <1>5, <1>14 DEF NatsInv, t
  <2>4. nLive' \subseteq accepted  BY <1>7 DEF NatsInv
  <2> QED  BY <1>1, <2>2, <2>3, <2>4 DEF NatsInv
<1>18. StreamStep
  <2>1. handled \subseteq handled' /\ parked \subseteq parked'
        /\ handled' \cup parked' \subseteq accepted
    BY <1>7, <1>13 DEF LedgerInv
  <2>2. \A k \in accepted : k \in nLive' => k \in nLive  BY <1>7
  <2>3. \A k \in accepted : k \in nLive \ nLive' /\ ~nClosed =>
          k \in handled' \cup parked' \cup discarded' \cup Poison
    BY <1>7, <1>8
  <2> QED  BY <1>1, <2>1, <2>2, <2>3 DEF StreamStep
<1> QED  BY <1>16, <1>17, <1>18 DEF NatsGoal

\* Every step of the NATS bus keeps its invariant.
LEMMA NatsNextStep ==
  ASSUME LedgerInv, NatsInv, NatsNext
  PROVE  NatsGoal
BY NatsCallSteps, NatsDispatchStep, NatsDeliverStep, NatsSettlingSteps DEF NatsNext

-----------------------------------------------------------------------------
(* The wired bus.                                                          *)

\* Every initial state satisfies the invariant.
LEMMA BusInitInv ==
  ASSUME BusInit
  PROVE  BusInv
<1>1. broker \in {"rabbitmq", "kafka", "nats"}  BY BrokersAssumption DEF BusInit
<1>2. LedgerInv
  <2>1. accepted = 1..0  BY DEF BusInit, LedgerInit
  <2>2. 0 \in 0..MaxMessages  BY LedgerAssumption
  <2>3. InOrder  BY <2>1, <2>2 DEF InOrder
  <2> QED  BY <2>3 DEF BusInit, LedgerInit, LedgerInv
<1>3. ParkedRejected  BY DEF BusInit, LedgerInit, ParkedRejected
<1>4. RabbitInv
  <2> USE DEF BusInit, RabbitInit
  <2>1. RabbitTypes
    <3>1. rChain \in [Aggregates -> Seq(Messages \X Connections)]  OBVIOUS
    <3>2. rRun \in [Aggregates -> {"idle", "handlers", "nothing"}]  OBVIOUS
    <3>3. rCounts \in [Messages -> Nat]  OBVIOUS
    <3>4. rUnacked \in [Connections -> SUBSET Messages]  OBVIOUS
    <3>5. rSocket \in [Connections -> Sockets]  BY DEF Sockets
    <3>6. 0 \in 0..MaxConnections  BY RabbitAssumption
    <3> QED  BY <3>1, <3>2, <3>3, <3>4, <3>5, <3>6 DEF RabbitTypes
  <2>2. OnePlace  BY DEF OnePlace
  <2>3. ASSUME NEW a \in Aggregates  PROVE ChainOf(a)
    <3>1. rChain[a] = << >> /\ rRun[a] = "idle"  OBVIOUS
    <3> QED  BY <3>1 DEF ChainOf
  <2>4. RabbitCounted
    <3> SUFFICES ASSUME NEW m \in Messages
                 PROVE  rCounts[m] <= failures[m] + (IF Working(m) THEN 1 ELSE 0)
      BY DEF RabbitCounted
    <3>1. rCounts[m] = 0 /\ failures[m] = 0  BY DEF LedgerInit
    <3> QED  BY <3>1
  <2>5. HandlersThere /\ Consuming  BY DEF HandlersThere, Consuming
  <2> QED  BY <1>3, <2>1, <2>2, <2>3, <2>4, <2>5 DEF RabbitInv
<1>5. KafkaInv
  <2> USE DEF BusInit, KafkaInit, LedgerInit
  <2>1. KafkaTypes  BY DEF KafkaTypes, NoOffset
  <2>2. \A p \in Aggregates : kLog[p] = << >> /\ Len(kLog[p]) = 0  OBVIOUS
  <2>3. Logged  BY <2>2 DEF Logged
  <2>4. OffsetsInLog  BY <2>2 DEF OffsetsInLog, NoOffset
  <2>5. MessageInHand  BY DEF MessageInHand
  <2>6. KafkaCounted  BY DEF KafkaCounted
  <2>7. Established => \A p \in Aggregates : SettledPrefix(p)  BY <2>2 DEF SettledPrefix
  <2> QED  BY <1>3, <2>1, <2>3, <2>4, <2>5, <2>6, <2>7 DEF KafkaInv
<1>6. NatsInv
  <2> USE DEF BusInit, NatsInit
  <2>1. \A l \in Loops : nInbox[l] = << >> /\ Len(nInbox[l]) = 0  OBVIOUS
  <2>2. nInbox \in [Loops -> Seq(Messages \X Nat)]  OBVIOUS
  <2>3. nDelivered \in [Messages -> Nat]  OBVIOUS
  <2> QED  BY <2>1, <2>2, <2>3 DEF NatsInv
<1> QED  BY <1>1, <1>2, <1>4, <1>5, <1>6 DEF BusInv

\* A step leaves every part of the state but the wired bus's alone.
LEMMA BusNextGoal ==
  ASSUME BusInv, BusNext
  PROVE  /\ broker' = broker
         /\ \/ broker = "rabbitmq" /\ RabbitGoal /\ UNCHANGED <<kClosed, nClosed>>
            \/ broker = "kafka" /\ KafkaGoal /\ UNCHANGED <<rClosed, nClosed>>
            \/ broker = "nats" /\ NatsGoal /\ UNCHANGED <<rClosed, kClosed>>
<1>1. CASE RabbitStep
  <2>1. broker = "rabbitmq" /\ RabbitNext /\ UNCHANGED <<broker, kClosed, nClosed>>
    BY <1>1 DEF RabbitStep, OfRabbit, kafkaVars, kState, natsVars, nState
  <2>2. RabbitGoal  BY <2>1, RabbitNextStep DEF BusInv
  <2> QED  BY <2>1, <2>2
<1>2. CASE KafkaStep
  <2>1. broker = "kafka" /\ KafkaNext /\ UNCHANGED <<broker, rClosed, nClosed>>
    BY <1>2 DEF KafkaStep, OfKafka, rabbitVars, rFlags, natsVars, nState
  <2>2. KafkaGoal  BY <2>1, KafkaNextStep DEF BusInv
  <2> QED  BY <2>1, <2>2
<1>3. CASE NatsStep
  <2>1. broker = "nats" /\ NatsNext /\ UNCHANGED <<broker, rClosed, kClosed>>
    BY <1>3 DEF NatsStep, OfNats, rabbitVars, rFlags, kafkaVars, kState
  <2>2. NatsGoal  BY <2>1, NatsNextStep DEF BusInv
  <2> QED  BY <2>1, <2>2
<1> QED  BY <1>1, <1>2, <1>3 DEF BusNext

\* The invariant holds in every reachable state.
LEMMA BusInvariant == BusSpec => []BusInv
<1>1. BusInit => BusInv  BY BusInitInv
<1>2. BusInv /\ [BusNext]_busVars => BusInv'
  <2> SUFFICES ASSUME BusInv, [BusNext]_busVars  PROVE BusInv'
    OBVIOUS
  <2>1. CASE BusNext
    <3>1. broker' \in {"rabbitmq", "kafka", "nats"} /\ broker' = broker
      BY <2>1, BusNextGoal DEF BusInv
    <3> QED  BY <2>1, <3>1, BusNextGoal DEF BusInv, RabbitGoal, KafkaGoal, NatsGoal
  <2>2. CASE UNCHANGED busVars
    <3> USE <2>2 DEF busVars, ledger, rabbitVars, kafkaVars, natsVars, rBroker, rLink, rFlags,
                     rCall, rWork, kGroup, kState, kLoop, nServer, nState
    <3>1. broker' = broker  OBVIOUS
    <3>2. LedgerInv <=> LedgerInv'  BY DEF LedgerInv, InOrder
    <3>3. RabbitInv => RabbitInv'
      BY DEF RabbitInv, RabbitTypes, OnePlace, ChainOf, RabbitCounted, Working, HandlersThere,
             Consuming, ParkedRejected
    <3>4. KafkaInv => KafkaInv'
      BY DEF KafkaInv, KafkaTypes, Logged, OffsetsInLog, MessageInHand, InHand, KafkaCounted,
             ParkedRejected, SettledPrefix, Done
    <3>5. NatsInv => NatsInv'  BY DEF NatsInv
    <3> QED  BY <3>1, <3>2, <3>3, <3>4, <3>5 DEF BusInv
  <2> QED  BY <2>1, <2>2
<1> QED  BY <1>1, <1>2, PTL DEF BusSpec

\* RabbitMQ and Kafka park a message only after its handlers rejected it
\* maxRetries times, whatever connections, commits and processes were lost in
\* between: the counts kept in memory never run ahead of the rejections.  (NATS
\* is exempt: its server counts deliveries, which crashes use up as well.)
THEOREM BrokersParkAfterRetries == BusSpec => []ParkedAfterRetries
<1>1. BusInv => ParkedAfterRetries
  BY DEF BusInv, RabbitInv, KafkaInv, ParkedRejected, ParkedAfterRetries
<1> QED  BY <1>1, BusInvariant, PTL

\* In a consumer group that has committed on every partition before, a Kafka
\* partition is handled or parked in order, through failed commits,
\* rebalances and crashes.
THEOREM KafkaPartitionOrder == Established => (BusSpec => []PartitionOrder)
<1> SUFFICES ASSUME Established  PROVE BusSpec => []PartitionOrder
  OBVIOUS
<1>1. BusInv => PartitionOrder
  <2> SUFFICES ASSUME BusInv, broker = "kafka",
                      NEW m \in handled \cup parked, NEW n \in accepted \ Poison,
                      n < m, AggregateOf[n] = AggregateOf[m]
               PROVE  n \in handled \cup parked
    BY DEF PartitionOrder
  <2> DEFINE p == AggregateOf[m]
  <2>1. KafkaInv /\ LedgerInv  BY DEF BusInv
  <2>2. m \in accepted /\ m \in Messages /\ n \in Messages
    BY <2>1, AcceptedAreMessages DEF LedgerInv
  <2>3. p \in Aggregates /\ m \in Nat /\ n \in Nat  BY <2>2, LedgerAssumption DEF Messages
  <2>4. PICK j \in 1..Len(kLog[p]) : kLog[p][j] = m  BY <2>1, <2>2 DEF KafkaInv, Logged
  <2>5. PICK k \in 1..Len(kLog[p]) : kLog[p][k] = n  BY <2>1 DEF KafkaInv, Logged
  <2>6. k < j
    <3>1. ~(j < k)  BY <2>1, <2>3, <2>4, <2>5 DEF KafkaInv, Logged
    <3>2. k # j  BY <2>3, <2>4, <2>5
    <3> QED  BY <3>1, <3>2
  <2>7. SettledPrefix(p) /\ kPosition[p] \in Nat  BY <2>1, <2>3 DEF KafkaInv, KafkaTypes
  <2>8. ~(j > kPosition[p] + 1)  BY <2>4, <2>7 DEF SettledPrefix
  <2>9. k \in 1..kPosition[p]  BY <2>6, <2>7, <2>8
  <2>10. n \in Done  BY <2>5, <2>7, <2>9 DEF SettledPrefix
  <2> QED  BY <2>10 DEF Done
<1> QED  BY <1>1, BusInvariant, PTL

\* Every bus implements the at-least-once delivery of EventDelivery: a message
\* leaves the queue of an open bus only when it was handled, parked, given up
\* with an error in the log, or cannot be parsed.  For Kafka, in a consumer
\* group that has committed on every partition before.
THEOREM BrokersImplementDelivery == Established => (BusSpec => DeliveryRefined)
<1> SUFFICES ASSUME Established  PROVE BusSpec => DeliveryRefined
  OBVIOUS
<1>1. BusInit => Delivery!DeliveryInit
  <2> SUFFICES ASSUME BusInit  PROVE Delivery!DeliveryInit
    OBVIOUS
  <2>1. broker \in {"rabbitmq", "kafka", "nats"}  BY BrokersAssumption DEF BusInit
  <2>2. RabbitGone = {} /\ NatsGone = {}  BY DEF BusInit, LedgerInit, RabbitGone, NatsGone
  <2>3. KafkaGone = {}
    <3>1. \A p \in Aggregates : kCommitted[p] = 0  BY DEF BusInit, KafkaInit
    <3> QED  BY <3>1 DEF KafkaGone
  <2>4. Gone = {}  BY <2>1, <2>2, <2>3 DEF Gone
  <2>5. IsOpen = TRUE
    <3>1. rClosed = FALSE /\ kClosed = FALSE /\ nClosed = FALSE
      BY DEF BusInit, RabbitInit, KafkaInit, NatsInit
    <3> QED  BY <3>1 DEF IsOpen
  <2> QED  BY <2>4, <2>5 DEF BusInit, LedgerInit, Delivery!DeliveryInit
<1>2. BusInv /\ BusInv' /\ [BusNext]_busVars => [Delivery!DeliveryNext]_(Delivery!deliveryVars)
  <2> SUFFICES ASSUME BusInv, BusInv', [BusNext]_busVars
               PROVE  [Delivery!DeliveryNext]_(Delivery!deliveryVars)
    OBVIOUS
  <2>1. CASE UNCHANGED busVars
    <3> USE <2>1 DEF busVars, ledger, rabbitVars, kafkaVars, natsVars, rBroker, rLink, rFlags,
                     rCall, rWork, kGroup, kState, kLoop, nServer, nState
    <3>1. RabbitGone' = RabbitGone /\ KafkaGone' = KafkaGone /\ NatsGone' = NatsGone
      BY DEF RabbitGone, KafkaGone, NatsGone
    <3>2. Gone' = Gone /\ IsOpen' = IsOpen  BY <3>1 DEF Gone, IsOpen
    <3> QED  BY <3>2 DEF Delivery!deliveryVars
  <2>2. CASE BusNext
    <3>1. /\ broker' = broker
          /\ \/ broker = "rabbitmq" /\ RabbitGoal /\ UNCHANGED <<kClosed, nClosed>>
             \/ broker = "kafka" /\ KafkaGoal /\ UNCHANGED <<rClosed, nClosed>>
             \/ broker = "nats" /\ NatsGoal /\ UNCHANGED <<rClosed, kClosed>>
      BY <2>2, BusNextGoal
    <3>2. accepted \subseteq accepted' /\ handled \subseteq handled' /\ parked \subseteq parked'
          /\ handled' \subseteq accepted /\ parked' \subseteq accepted
      BY <3>1 DEF RabbitGoal, QueueStep, KafkaGoal, LogStep, NatsGoal, StreamStep
    <3>3. accepted' \subseteq Messages
      <4>1. \E k \in 0..MaxMessages : accepted' = 1..k  BY DEF BusInv, LedgerInv, InOrder
      <4> QED  BY <4>1, LedgerAssumption DEF Messages
    <3>4. IsOpen' => IsOpen
      BY <3>1 DEF IsOpen, RabbitGoal, QueueStep, KafkaGoal, LogStep, NatsGoal, StreamStep
    <3>5. /\ Gone \subseteq Gone' /\ Gone' \subseteq accepted
          /\ \A m \in Gone' \ Gone :
               IsOpen => m \in handled' \cup parked' \cup discarded' \cup Poison
      <4>1. CASE broker = "rabbitmq"
        <5>1. Gone = RabbitGone /\ Gone' = RabbitGone'  BY <3>1, <4>1 DEF Gone
        <5>2. \A m : m \in RabbitGone <=> m \in accepted /\ ~InQueue(m)
          BY DEF RabbitGone, InQueue
        <5>3. \A m : m \in RabbitGone' <=> m \in accepted' /\ ~InQueue(m)'
          BY DEF RabbitGone, InQueue
        <5>4. QueueStep  BY <3>1, <4>1 DEF RabbitGoal
        <5> QED  BY <5>1, <5>2, <5>3, <5>4 DEF QueueStep, IsOpen
      <4>2. CASE broker = "kafka"
        <5>1. Gone = KafkaGone /\ Gone' = KafkaGone'  BY <3>1, <4>2 DEF Gone
        <5>2. \A m : m \in KafkaGone <=> PastOffset(m)  BY DEF KafkaGone, PastOffset
        <5>3. \A m : m \in KafkaGone' <=> PastOffset(m)'  BY DEF KafkaGone, PastOffset
        <5>4. LogStep  BY <3>1, <4>2 DEF KafkaGoal
        <5> QED  BY <5>1, <5>2, <5>3, <5>4 DEF LogStep
      <4>3. CASE broker = "nats"
        <5>1. Gone = NatsGone /\ Gone' = NatsGone'  BY <3>1, <4>3 DEF Gone
        <5>2. StreamStep  BY <3>1, <4>3 DEF NatsGoal
        <5> QED  BY <5>1, <5>2 DEF NatsGone, StreamStep, IsOpen
      <4> QED  BY <3>1, <4>1, <4>2, <4>3
    <3>6. Delivery!DeliveryNext
      BY <3>2, <3>3, <3>4, <3>5 DEF Delivery!DeliveryNext, Delivery!Settled
    <3> QED  BY <3>6
  <2> QED  BY <2>1, <2>2
<1> QED  BY <1>1, <1>2, BusInvariant, PTL DEF BusSpec, DeliveryRefined, Delivery!DeliverySpec
=============================================================================
