---------------------------- MODULE MessageLedger ----------------------------
(***************************************************************************)
(* What the three broker buses have in common: one subscribed event name,  *)
(* whose messages the broker keeps in publish order, and the record of     *)
(* what became of each.  A message is handled when one invocation of every *)
(* registered handler (Promise.allSettled) had no rejection; a rejection   *)
(* of any of them is one failure of the delivery.                          *)
(***************************************************************************)
EXTENDS Naturals, FiniteSets

CONSTANTS
  MaxMessages,  \* events dispatched, 1 .. MaxMessages in this order
  Poison,       \* messages whose body is not JSON
  AggregateOf,  \* metadata.aggregateId, which is also the partition key
  Aggregates,
  MaxRetries,   \* resilience.maxRetries
  MaxFaults     \* connection losses, failed calls and crashes considered

Messages == 1..MaxMessages

ASSUME LedgerAssumption ==
  /\ MaxMessages \in Nat /\ MaxRetries \in Nat /\ MaxFaults \in Nat
  /\ Poison \subseteq Messages
  /\ AggregateOf \in [Messages -> Aggregates]

VARIABLES
  accepted,   \* messages the broker confirmed and routed to the queue
  handled,    \* messages all handlers have processed at least once
  parked,     \* messages in the dead-letter queue, topic or subject
  discarded,  \* messages given up whose dead-letter copy failed, with an error logged
  failures,   \* failures[m]: deliveries of m that ended in a rejection
  faults      \* faults that have happened

ledger == <<accepted, handled, parked, discarded, failures, faults>>
\* What a fault leaves alone.
outcome == <<accepted, handled, parked, discarded, failures>>

LedgerInit ==
  /\ accepted = {} /\ handled = {} /\ parked = {} /\ discarded = {}
  /\ failures = [m \in Messages |-> 0]
  /\ faults = 0

LedgerTypeOK ==
  /\ accepted \subseteq Messages
  /\ handled \cup parked \cup discarded \subseteq accepted
  /\ failures \in [Messages -> Nat]
  /\ faults \in 0..MaxFaults

\* The next message a producer of this event name dispatches.
NextMessage == Cardinality(accepted) + 1

Fault == faults < MaxFaults /\ faults' = faults + 1
=============================================================================
