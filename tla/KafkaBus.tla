------------------------------ MODULE KafkaBus ------------------------------
(***************************************************************************)
(* KafkaEventBus: connect() with its subscribe loop and its retries, the   *)
(* late subscription of warmup(), on()'s guard, the sequential eachMessage *)
(* loop with explicit offset commits, retry counts kept by offset, parking *)
(* to the dead-letter topic, and the consumer's restart after an error, or *)
(* its end.  A partition key stands for its partition.  A consumer that    *)
(* joins the group resumes at the committed offset, or at the end of the   *)
(* partition when there is none (fromBeginning: false).  Nobody connects a *)
(* bus again after close().                                                *)
(***************************************************************************)
EXTENDS MessageLedger, Integers, Sequences

CONSTANTS
  Established   \* the consumer group has committed on every partition before

NoOffset == -1
NoPartition == "none"

ASSUME KafkaAssumption ==
  Established \in BOOLEAN /\ NoPartition \notin Aggregates

VARIABLES
  kLog,          \* kLog[p]: messages of partition p
  kCommitted,    \* kCommitted[p]: the group's next offset, counted from 0
  kPosition,     \* kPosition[p]: the consumer's next offset
  kPc,           \* the connect, warmup or close call in progress
  kConnected, kClosed, kHandlers,
  kSubscribed,   \* _subscribedTopics has the topic
  kListening,    \* the current consumer object is subscribed to it
  kBusy,         \* the partition whose message eachMessage works on
  kPhase,        \* "handling", or "commit" once _handleMessage returned
  kCounts,       \* _deliveryCounts
  kWarm          \* _warmedUp

kGroup == <<kLog, kCommitted, kPosition>>
kState == <<kPc, kConnected, kClosed, kHandlers, kSubscribed, kListening, kWarm>>
kLoop == <<kBusy, kPhase, kCounts>>
kafkaVars == <<kGroup, kState, kLoop>>

KafkaInit ==
  /\ kLog = [p \in Aggregates |-> << >>]
  /\ kCommitted = [p \in Aggregates |-> IF Established THEN 0 ELSE NoOffset]
  /\ kPosition = [p \in Aggregates |-> 0]
  /\ kPc = "down" /\ kConnected = FALSE /\ kClosed = FALSE
  /\ kHandlers \in BOOLEAN
  /\ kSubscribed = FALSE /\ kListening = FALSE /\ kWarm = FALSE
  /\ kBusy = NoPartition /\ kPhase = "handling"
  /\ kCounts = [m \in Messages |-> 0]

KafkaTypeOK ==
  /\ kLog \in [Aggregates -> Seq(Messages)]
  /\ kCommitted \in [Aggregates -> -1..MaxMessages]
  /\ kPosition \in [Aggregates -> 0..MaxMessages]
  /\ kPc \in {"down", "connecting", "starting", "running", "failed", "stopped", "halted",
              "crashed", "closing", "closed"}
  /\ {kConnected, kClosed, kHandlers, kSubscribed, kListening, kWarm} \subseteq BOOLEAN
  /\ kBusy \in Aggregates \cup {NoPartition}
  /\ kPhase \in {"handling", "commit"}
  /\ kCounts \in [Messages -> Nat]

\* Where a consumer that joins the group starts.
Joined ==
  kPosition' = [p \in Aggregates |->
                  IF kCommitted[p] = NoOffset THEN Len(kLog[p]) ELSE kCommitted[p]]

-----------------------------------------------------------------------------
(* connect(), on(), warmup(), close(). *)

\* A new producer and a new consumer are connected and topics provisioned.
KafkaConnect ==
  /\ kPc \in {"down", "failed"} /\ ~kClosed
  /\ kPc' = "connecting" /\ kListening' = FALSE
  /\ UNCHANGED <<ledger, kGroup, kConnected, kClosed, kHandlers, kSubscribed, kWarm, kLoop>>

\* The subscribe loop skips topics that an earlier attempt subscribed.
KafkaSubscribe ==
  /\ kPc = "connecting"
  /\ kPc' = "starting"
  /\ IF kHandlers /\ ~kSubscribed THEN kSubscribed' = TRUE /\ kListening' = TRUE
     ELSE UNCHANGED <<kSubscribed, kListening>>
  /\ UNCHANGED <<ledger, kGroup, kConnected, kClosed, kHandlers, kWarm, kLoop>>

\* _runConsumerLoop: the group is joined and the first fetch has started.
KafkaRun ==
  /\ kPc = "starting"
  /\ Joined
  /\ kPc' = "running" /\ kConnected' = TRUE
  /\ UNCHANGED <<ledger, kLog, kCommitted, kClosed, kHandlers, kSubscribed, kListening, kWarm,
                 kLoop>>

KafkaConnectFails ==
  /\ kPc \in {"connecting", "starting"} /\ Fault
  /\ kPc' = "failed"
  /\ UNCHANGED <<outcome, kGroup, kConnected, kClosed, kHandlers,
                 kSubscribed, kListening, kWarm, kLoop>>

\* on() throws once connect() has started, unless the topic is subscribed.
KafkaOn ==
  /\ ~kClosed /\ ~kHandlers
  /\ kPc \in {"down", "failed"} \/ kSubscribed
  /\ kHandlers' = TRUE
  /\ UNCHANGED <<ledger, kGroup, kPc, kConnected, kClosed, kSubscribed, kListening, kWarm, kLoop>>

\* warmup() stops the consumer, which lets the message in hand finish.
KafkaWarmupStop ==
  /\ kConnected /\ ~kClosed /\ ~kWarm /\ kPc \in {"running", "halted", "crashed"}
  /\ kBusy = NoPartition
  /\ kPc' = "stopped"
  /\ UNCHANGED <<ledger, kGroup, kConnected, kClosed, kHandlers, kSubscribed, kListening, kWarm,
                 kLoop>>

\* It subscribes the warm-up topic, restarts the loop and sees its message.
KafkaWarmupRestart ==
  /\ kPc = "stopped" /\ ~kClosed
  /\ Joined
  /\ kPc' = "running" /\ kWarm' = TRUE
  /\ UNCHANGED <<ledger, kLog, kCommitted, kConnected, kClosed, kHandlers, kSubscribed,
                 kListening, kLoop>>

\* The warm-up topic cannot be provisioned or subscribed: the call rejects
\* and leaves the consumer stopped.
KafkaWarmupFails ==
  /\ kPc = "stopped" /\ Fault
  /\ kPc' = "halted"
  /\ UNCHANGED <<outcome, kGroup, kConnected, kClosed, kHandlers, kSubscribed, kListening, kWarm,
                 kLoop>>

\* close() waits in consumer.stop() for the message in hand, then clears
\* the handlers.  Domain.init awaits connect() before anyone can ask the
\* domain to shut down, so close() meets no connect() or warmup() in progress.
KafkaClose ==
  /\ ~kClosed /\ kPc \in {"down", "failed", "running", "halted", "crashed"}
  /\ kClosed' = TRUE /\ kConnected' = FALSE /\ kPc' = "closing"
  /\ UNCHANGED <<ledger, kGroup, kHandlers, kSubscribed, kListening, kWarm, kLoop>>

KafkaClosed ==
  /\ kPc = "closing" /\ kBusy = NoPartition
  /\ kPc' = "closed"
  /\ kHandlers' = FALSE /\ kSubscribed' = FALSE /\ kListening' = FALSE
  /\ UNCHANGED <<ledger, kGroup, kConnected, kClosed, kWarm, kLoop>>

KafkaDispatch ==
  /\ ~kClosed /\ kConnected
  /\ NextMessage \in Messages
  /\ accepted' = accepted \cup {NextMessage}
  /\ kLog' = [kLog EXCEPT ![AggregateOf[NextMessage]] = Append(@, NextMessage)]
  /\ UNCHANGED <<handled, parked, discarded, failures, faults, kCommitted, kPosition, kState, kLoop>>

-----------------------------------------------------------------------------
(* The eachMessage loop. *)

KafkaFetch(p) ==
  /\ kPc = "running" /\ kListening /\ kBusy = NoPartition
  /\ kPosition[p] < Len(kLog[p])
  /\ kBusy' = p /\ kPhase' = "handling"
  /\ UNCHANGED <<ledger, kGroup, kState, kCounts>>

\* The message in hand.
InHand == kLog[kBusy][kPosition[kBusy] + 1]

Handling == kBusy # NoPartition /\ kPhase = "handling"

\* No handler rejected.
KafkaHandled ==
  /\ Handling /\ InHand \notin Poison
  /\ handled' = handled \cup {InHand}
  /\ kPhase' = "commit"
  /\ UNCHANGED <<accepted, parked, discarded, failures, faults, kGroup, kState, kBusy, kCounts>>

\* A body that is not JSON is parked if that works, and skipped either way.
KafkaPoison ==
  /\ Handling /\ InHand \in Poison
  /\ \/ parked' = parked \cup {InHand} /\ UNCHANGED faults
     \/ Fault /\ UNCHANGED parked
  /\ kPhase' = "commit"
  /\ UNCHANGED <<accepted, handled, discarded, failures, kGroup, kState, kBusy, kCounts>>

\* eachMessage is over.
PutDown == kBusy' = NoPartition /\ kPhase' = "handling"

\* eachMessage ends with an error.  kafkajs restarts the consumer, which joins
\* the group again, if the error is marked retriable; any other one (a rejection
\* that is no `Error`, an error of kafkajs of that kind) ends the consumer, while
\* the bus stays connected.  A stopping consumer only stops.
Throw ==
  /\ PutDown
  /\ \/ kPc = "running" /\ Joined /\ UNCHANGED kPc
     \/ kPc = "running" /\ kPc' = "crashed" /\ UNCHANGED kPosition
     \/ kPc = "closing" /\ UNCHANGED <<kPc, kPosition>>

\* What no error and no restart changes.
kOthers == <<kLog, kCommitted, kConnected, kClosed, kHandlers, kSubscribed, kListening, kWarm>>

\* Mutant: the consumer moves on in memory when eachMessage fails.
KafkaRejectedSkips ==
  /\ Handling /\ InHand \notin Poison
  /\ failures' = [failures EXCEPT ![InHand] = @ + 1]
  /\ kPosition' = [kPosition EXCEPT ![kBusy] = @ + 1]
  /\ PutDown
  /\ UNCHANGED <<accepted, handled, parked, discarded, faults, kLog, kCommitted, kState, kCounts>>

\* A handler rejected.  Within the cap, or when parking fails, the error is
\* thrown on and the offset stays; beyond the cap the message is parked.
KafkaRejected ==
  /\ Handling /\ InHand \notin Poison
  /\ failures' = [failures EXCEPT ![InHand] = @ + 1]
  /\ LET attempt == kCounts[InHand] + 1 IN
       \/ /\ attempt <= MaxRetries
          /\ kCounts' = [kCounts EXCEPT ![InHand] = attempt]
          /\ Throw
          /\ UNCHANGED <<parked, faults>>
       \/ /\ attempt > MaxRetries
          /\ parked' = parked \cup {InHand}
          /\ kCounts' = [kCounts EXCEPT ![InHand] = 0]
          /\ kPhase' = "commit"
          /\ UNCHANGED <<kBusy, faults, kPc, kPosition>>
       \/ /\ attempt > MaxRetries /\ Fault
          /\ kCounts' = [kCounts EXCEPT ![InHand] = attempt]
          /\ Throw
          /\ UNCHANGED parked
  /\ UNCHANGED <<accepted, handled, discarded, kOthers>>

KafkaCommit ==
  /\ kBusy # NoPartition /\ kPhase = "commit"
  /\ kCommitted' = [kCommitted EXCEPT ![kBusy] = kPosition[kBusy] + 1]
  /\ kPosition' = [kPosition EXCEPT ![kBusy] = @ + 1]
  /\ kCounts' = [kCounts EXCEPT ![InHand] = 0]
  /\ PutDown
  /\ UNCHANGED <<ledger, kLog, kState>>

\* commitOffsets rejects: eachMessage ends, and the offset stays.
KafkaCommitFails ==
  /\ kBusy # NoPartition /\ kPhase = "commit" /\ Fault
  /\ Throw
  /\ UNCHANGED <<outcome, kOthers, kCounts>>

\* The consumer leaves the group (a rebalance) and joins it again.
KafkaRejoin ==
  /\ kPc = "running" /\ Fault
  /\ Joined
  /\ PutDown
  /\ UNCHANGED <<outcome, kLog, kCommitted, kState, kCounts>>

\* The process dies and starts again with its handlers.
KafkaCrash ==
  /\ ~kClosed /\ Fault
  /\ kPc' = "down" /\ kConnected' = FALSE /\ kHandlers' = TRUE
  /\ kSubscribed' = FALSE /\ kListening' = FALSE /\ kWarm' = FALSE
  /\ kCounts' = [m \in Messages |-> 0]
  /\ PutDown
  /\ UNCHANGED <<outcome, kGroup, kClosed>>

-----------------------------------------------------------------------------
KafkaStart == kPc = "down" /\ KafkaConnect
KafkaCalls == KafkaSubscribe \/ KafkaRun \/ KafkaWarmupRestart \/ KafkaClosed
KafkaWork ==
  KafkaHandled \/ KafkaCommit \/ \E p \in Aggregates : KafkaFetch(p)

KafkaNext ==
  \/ KafkaConnect \/ KafkaCalls \/ KafkaConnectFails \/ KafkaOn \/ KafkaWarmupStop
  \/ KafkaWarmupFails \/ KafkaClose
  \/ KafkaDispatch \/ KafkaWork \/ KafkaPoison \/ KafkaRejected \/ KafkaCommitFails
  \/ KafkaRejoin \/ KafkaCrash

\* Messages the group has committed past.
KafkaGone ==
  UNION {{kLog[p][j] : j \in 1..kCommitted[p]} : p \in Aggregates}
=============================================================================
