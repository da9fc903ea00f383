------------------------------ MODULE NatsBus ------------------------------
(***************************************************************************)
(* NatsEventBus: connect() marks the bus connected before its              *)
(* subscriptions exist, a durable JetStream consumer whose server counts   *)
(* deliveries and stops at maxDeliver, one sequential loop per             *)
(* subscription that acknowledges, requests redelivery or terminates, and  *)
(* close() with its drain.                                                 *)
(***************************************************************************)
EXTENDS MessageLedger, Sequences

\* on() during connect() makes a second subscription of the same durable.
Loops == 1..2

VARIABLES
  nLive,         \* messages neither acknowledged nor terminated
  nOutstanding,  \* of these, the ones delivered whose ack wait is running
  nDelivered,    \* nDelivered[m]: deliveries the server has made
  nInbox,        \* nInbox[l]: <<message, delivery count>> in the iterator of loop l
  nLoops,        \* subscriptions with a running loop
  nPc,           \* "down", "activating", "ready", "rejected", "draining", "drained"
  nConnected, nClosed, nHandlers,
  nNamed,        \* _subscribedEventNames has the event name
  nLate          \* a late on() is creating its subscription

nServer == <<nLive, nOutstanding, nDelivered>>
nState == <<nPc, nConnected, nClosed, nHandlers, nNamed, nLate>>
natsVars == <<nServer, nState, nInbox, nLoops>>

NatsInit ==
  /\ nLive = {} /\ nOutstanding = {} /\ nDelivered = [m \in Messages |-> 0]
  /\ nInbox = [l \in Loops |-> << >>] /\ nLoops = {}
  /\ nPc = "down" /\ nConnected = FALSE /\ nClosed = FALSE
  /\ nHandlers \in BOOLEAN /\ nNamed = FALSE /\ nLate = FALSE

NatsTypeOK ==
  /\ nOutstanding \subseteq nLive /\ nLive \subseteq Messages
  /\ nDelivered \in [Messages -> 0..MaxRetries]
  /\ nInbox \in [Loops -> Seq(Messages \X (1..MaxRetries))]
  /\ nLoops \subseteq Loops
  /\ nPc \in {"down", "activating", "ready", "rejected", "draining", "drained"}
  /\ {nConnected, nClosed, nHandlers, nNamed, nLate} \subseteq BOOLEAN

\* _js, which close() clears before it drains.
HasJetStream == nPc \in {"activating", "ready", "rejected"}

\* The connection still carries what the loops send.
Online == HasJetStream \/ nPc = "draining"

-----------------------------------------------------------------------------
(* connect(), on(), dispatch(), close(). *)

NatsConnect ==
  /\ nPc = "down" /\ ~nClosed
  /\ nPc' = "activating" /\ nConnected' = TRUE
  /\ UNCHANGED <<ledger, nServer, nClosed, nHandlers, nNamed, nLate, nInbox, nLoops>>

\* _createSubscriptionForEvent succeeds: one more loop on the durable.
Subscribe == nLoops' = nLoops \cup {Cardinality(nLoops) + 1}

\* _activateSubscriptions, for the event name if it has a handler.
NatsActivate ==
  /\ nPc = "activating"
  /\ nPc' = "ready"
  /\ IF nHandlers THEN nNamed' = TRUE /\ Subscribe ELSE UNCHANGED <<nNamed, nLoops>>
  /\ UNCHANGED <<ledger, nServer, nConnected, nClosed, nHandlers, nLate, nInbox>>

\* The stream or a subscription cannot be created: connect() rejects, and a
\* second call finds the bus connected and does nothing.
NatsActivateFails ==
  /\ nPc = "activating" /\ Fault
  /\ nPc' = "rejected"
  /\ nNamed' \in {nNamed, nHandlers}
  /\ UNCHANGED <<outcome, nServer, nConnected, nClosed, nHandlers, nLate, nInbox, nLoops>>

NatsOn ==
  /\ ~nClosed /\ ~nHandlers
  /\ nHandlers' = TRUE
  /\ IF nConnected /\ ~nNamed THEN nNamed' = TRUE /\ nLate' = TRUE
     ELSE UNCHANGED <<nNamed, nLate>>
  /\ UNCHANGED <<ledger, nServer, nPc, nConnected, nClosed, nInbox, nLoops>>

\* The subscription of a late on(): an error is only logged.
NatsLateSubscription ==
  /\ nLate
  /\ nLate' = FALSE
  /\ \/ HasJetStream /\ Subscribe /\ UNCHANGED faults
     \/ (IF HasJetStream THEN Fault ELSE UNCHANGED faults) /\ UNCHANGED nLoops
  /\ UNCHANGED <<outcome, nServer, nPc, nConnected, nClosed, nHandlers, nNamed, nInbox>>

NatsDispatch ==
  /\ nConnected /\ HasJetStream
  /\ NextMessage \in Messages
  /\ accepted' = accepted \cup {NextMessage}
  /\ nLive' = nLive \cup {NextMessage}
  /\ UNCHANGED <<handled, parked, discarded, failures, faults, nOutstanding, nDelivered, nState,
                 nInbox, nLoops>>

NatsClose ==
  /\ ~nClosed
  /\ nClosed' = TRUE /\ nConnected' = FALSE
  /\ nPc' = IF nPc = "down" THEN "drained" ELSE "draining"
  /\ UNCHANGED <<ledger, nServer, nHandlers, nNamed, nLate, nInbox, nLoops>>

\* The drain is over: the connection is closed and the handlers are cleared.
NatsDrained ==
  /\ nPc = "draining"
  /\ nPc' = "drained"
  /\ nHandlers' = FALSE /\ nNamed' = FALSE
  /\ nOutstanding' = {} /\ nLoops' = {} /\ nInbox' = [l \in Loops |-> << >>]
  /\ UNCHANGED <<ledger, nLive, nDelivered, nConnected, nClosed, nLate>>

NatsCrash ==
  /\ ~nClosed /\ Fault
  /\ nPc' = "down" /\ nConnected' = FALSE /\ nHandlers' = TRUE
  /\ nNamed' = FALSE /\ nLate' = FALSE
  /\ nOutstanding' = {} /\ nLoops' = {} /\ nInbox' = [l \in Loops |-> << >>]
  /\ UNCHANGED <<outcome, nLive, nDelivered, nClosed>>

-----------------------------------------------------------------------------
(* Deliveries and the consumer loops. *)

\* The server delivers to one member of the queue group, maxDeliver times at
\* most; a message put back may be overtaken.
NatsDeliver(l, m) ==
  /\ l \in nLoops /\ HasJetStream
  /\ m \in nLive \ nOutstanding /\ nDelivered[m] < MaxRetries
  /\ nDelivered[m] = 0 => \A n \in nLive : n < m => nDelivered[n] > 0
  /\ nDelivered' = [nDelivered EXCEPT ![m] = @ + 1]
  /\ nOutstanding' = nOutstanding \cup {m}
  /\ nInbox' = [nInbox EXCEPT ![l] = Append(@, <<m, nDelivered'[m]>>)]
  /\ UNCHANGED <<ledger, nLive, nState, nLoops>>

\* The ack wait passes while the message still waits for the loop.
NatsAckWaitOver(m) ==
  /\ m \in nOutstanding /\ Fault
  /\ nOutstanding' = nOutstanding \ {m}
  /\ UNCHANGED <<outcome, nLive, nDelivered, nState, nInbox, nLoops>>

Next1(l) == nInbox[l][1][1]
Count1(l) == nInbox[l][1][2]
Take(l) == nInbox' = [nInbox EXCEPT ![l] = Tail(@)]

\* An ack or a term: it reaches the server, or is lost with the connection.
TakeOff(m) ==
  /\ nOutstanding' = nOutstanding \ {m}
  /\ \/ nLive' = nLive \ {m} /\ UNCHANGED faults
     \/ Fault /\ UNCHANGED nLive

NatsPoison(l) ==
  /\ Online /\ nInbox[l] # << >> /\ Next1(l) \in Poison
  /\ TakeOff(Next1(l)) /\ Take(l)
  /\ UNCHANGED <<outcome, nDelivered, nState, nLoops>>

NatsHandled(l) ==
  /\ Online /\ nInbox[l] # << >> /\ Next1(l) \notin Poison
  /\ handled' = handled \cup {Next1(l)}
  /\ TakeOff(Next1(l)) /\ Take(l)
  /\ UNCHANGED <<accepted, parked, discarded, failures, nDelivered, nState, nLoops>>

\* A handler rejected and deliveries are left: nak with a delay.
NatsRejected(l) ==
  /\ Online /\ nInbox[l] # << >> /\ Next1(l) \notin Poison
  /\ Count1(l) < MaxRetries
  /\ failures' = [failures EXCEPT ![Next1(l)] = @ + 1]
  /\ nOutstanding' = nOutstanding \ {Next1(l)}
  /\ Take(l)
  /\ UNCHANGED <<accepted, handled, parked, discarded, faults, nLive, nDelivered, nState, nLoops>>

\* _publishToDeadLetter: without _js it returns without a word.
DeadLetterCopy(m) ==
  \/ HasJetStream /\ parked' = parked \cup {m} /\ UNCHANGED discarded
  \/ HasJetStream /\ faults < MaxFaults /\ discarded' = discarded \cup {m} /\ UNCHANGED parked
  \/ ~HasJetStream /\ UNCHANGED <<parked, discarded>>

\* The last delivery failed: copy to the dead-letter subject, then term.
NatsExhausted(l) ==
  /\ Online /\ nInbox[l] # << >> /\ Next1(l) \notin Poison
  /\ Count1(l) >= MaxRetries
  /\ failures' = [failures EXCEPT ![Next1(l)] = @ + 1]
  /\ DeadLetterCopy(Next1(l))
  /\ TakeOff(Next1(l)) /\ Take(l)
  /\ UNCHANGED <<accepted, handled, nDelivered, nState, nLoops>>

-----------------------------------------------------------------------------
NatsCalls == NatsConnect \/ NatsActivate \/ NatsLateSubscription \/ NatsDrained
NatsSettles(l) == NatsPoison(l) \/ NatsHandled(l) \/ NatsRejected(l) \/ NatsExhausted(l)

NatsNext ==
  \/ NatsCalls \/ NatsActivateFails \/ NatsOn \/ NatsDispatch \/ NatsClose \/ NatsCrash
  \/ \E l \in Loops : NatsSettles(l) \/ \E m \in Messages : NatsDeliver(l, m)
  \/ \E m \in Messages : NatsAckWaitOver(m)

\* Messages acknowledged or terminated.
NatsGone == accepted \ nLive
=============================================================================
