---------------------------- MODULE EventDelivery ----------------------------
(***************************************************************************)
(* What every broker bus of the repository documents: "at-least-once       *)
(* delivery".  A message the broker accepted leaves its queue only when    *)
(* the handlers have processed it, when it is parked in a dead-letter      *)
(* queue, when nobody could ever parse it, or, with an error in the log,   *)
(* when its retries are exhausted and the dead-letter copy cannot be made. *)
(* Handling may be repeated.                                               *)
(* Once the bus is closed nothing more is promised here: what may happen   *)
(* then is the subject of properties of their own.                         *)
(***************************************************************************)
CONSTANTS Messages, Poison

VARIABLES accepted, handled, parked, discarded,
          gone,     \* messages that have left the broker's queue
          open      \* close() has not been called

deliveryVars == <<accepted, handled, parked, discarded, gone, open>>

DeliveryInit ==
  /\ accepted = {} /\ handled = {} /\ parked = {} /\ discarded = {} /\ gone = {}
  /\ open = TRUE

Settled(m) == m \in handled' \cup parked' \cup discarded' \cup Poison

\* Steps may coincide: acknowledging a message after its handlers have run
\* handles it and takes it off the queue at once.
DeliveryNext ==
  /\ accepted \subseteq accepted' /\ accepted' \subseteq Messages
  /\ handled \subseteq handled' /\ handled' \subseteq accepted
  /\ parked \subseteq parked' /\ parked' \subseteq accepted
  /\ gone \subseteq gone' /\ gone' \subseteq accepted
  /\ \A m \in gone' \ gone : open => Settled(m)
  /\ open' => open

DeliverySpec == DeliveryInit /\ [][DeliveryNext]_deliveryVars
=============================================================================
