----------------------------- MODULE BrokerBuses -----------------------------
(***************************************************************************)
(* The three broker buses behind one EventBus interface.  A deployment     *)
(* wires one of them, so a behaviour is a behaviour of that one; what the  *)
(* interface promises is stated once for all.                              *)
(***************************************************************************)
EXTENDS RabbitMqBus, KafkaBus, NatsBus

CONSTANT Brokers    \* the buses a deployment may wire

VARIABLE broker

ASSUME BrokersAssumption ==
  Brokers \subseteq {"rabbitmq", "kafka", "nats"} /\ MaxRetries > 0

busVars == <<broker, ledger, rabbitVars, kafkaVars, natsVars>>

BusInit ==
  /\ broker \in Brokers
  /\ LedgerInit /\ RabbitInit /\ KafkaInit /\ NatsInit
  /\ broker # "rabbitmq" => rHandlers
  /\ broker # "kafka" => kHandlers
  /\ broker # "nats" => nHandlers

\* A step of the wired bus leaves the others alone.
OfRabbit == broker = "rabbitmq" /\ UNCHANGED <<broker, kafkaVars, natsVars>>
OfKafka == broker = "kafka" /\ UNCHANGED <<broker, rabbitVars, natsVars>>
OfNats == broker = "nats" /\ UNCHANGED <<broker, rabbitVars, kafkaVars>>

RabbitStep == OfRabbit /\ RabbitNext
KafkaStep == OfKafka /\ KafkaNext
NatsStep == OfNats /\ NatsNext

BusNext == RabbitStep \/ KafkaStep \/ NatsStep

BusSpec == BusInit /\ [][BusNext]_busVars

\* The wired bus goes on: connections are made, deliveries are made, and every
\* handler settles, one way or the other.  Nobody is obliged to dispatch, to
\* close, or to call connect() again after it failed.
RabbitProgress ==
  \/ RabbitConnecting \/ RabbitAttemptEnds
  \/ \E i \in Connections : RabbitDeliver(i) \/ RabbitPoison(i)
  \/ \E a \in Aggregates : RabbitWork(a) \/ RabbitRejected(a)
KafkaProgress == KafkaStart \/ KafkaCalls \/ KafkaWork \/ KafkaPoison \/ KafkaRejected
NatsProgress ==
  NatsCalls \/ \E l \in Loops : NatsSettles(l) \/ \E m \in Messages : NatsDeliver(l, m)

BusFairness ==
  /\ WF_busVars(OfRabbit /\ RabbitProgress)
  /\ WF_busVars(OfKafka /\ KafkaProgress)
  /\ WF_busVars(OfNats /\ NatsProgress)

FairBusSpec == BusSpec /\ BusFairness

-----------------------------------------------------------------------------
Gone ==
  CASE broker = "rabbitmq" -> RabbitGone
    [] broker = "kafka" -> KafkaGone
    [] broker = "nats" -> NatsGone

IsOpen == ~(rClosed \/ kClosed \/ nClosed)

BusTypeOK == LedgerTypeOK /\ RabbitTypeOK /\ KafkaTypeOK /\ NatsTypeOK

Delivery == INSTANCE EventDelivery WITH gone <- Gone, open <- IsOpen

\* The at-least-once delivery that all three buses document: through
\* reconnections, redeliveries, rebalances and crashes, a message leaves the
\* queue of an open bus only when it was handled, parked, or given up with
\* an error in the log.
DeliveryRefined == Delivery!DeliverySpec

\* RabbitMQ and Kafka park a message only after its handlers rejected it
\* maxRetries times: deliveries that a lost connection or a failed commit
\* cut short do not use retries up.  (NATS counts deliveries, not failures.)
ParkedAfterRetries ==
  broker \in {"rabbitmq", "kafka"} =>
    \A m \in parked \ Poison : failures[m] >= MaxRetries

\* Within a Kafka partition no message is handled or parked before the earlier
\* ones are, whatever fails in between: the order that
\* partition keys by aggregate id are there for.
PartitionOrder ==
  broker = "kafka" =>
    \A m \in handled \cup parked, n \in accepted \ Poison :
      n < m /\ AggregateOf[n] = AggregateOf[m] => n \in handled \cup parked

\* What keeps a message waiting: the bus is closed or its connect() call
\* failed; a Kafka consumer without subscription, stopped by a failed
\* warmup(), or ended by an error that is not marked retriable, as a handler's
\* rejection with a value that is no `Error` is not; a NATS bus without
\* subscription, or a message whose deliveries the server has used up.
Excused(m) ==
  \/ ~IsOpen
  \/ rPc = "failed"
  \/ kPc \in {"failed", "halted", "crashed"} \/ (kConnected /\ ~kListening)
  \/ nLoops = {} /\ nPc \in {"ready", "rejected"}
  \/ nDelivered[m] = MaxRetries

\* Whatever happens, the bus comes back to where no accepted message waits: a
\* retry loop, a reconnection or a dead-letter queue never leaves one for good,
\* and a message whose handler rejected is delivered again or parked,
\* except where Excused says so.
EveryMessageSettled ==
  []<>(\A m \in accepted : m \in Gone \/ Excused(m))
=============================================================================
