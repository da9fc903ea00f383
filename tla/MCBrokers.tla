------------------------------ MODULE MCBrokers ------------------------------
(* A small instance of BrokerBuses: messages of one aggregate, one of them  *)
(* with a body that cannot be parsed.                                       *)
EXTENDS BrokerBuses, TLC

CONSTANT a1

MCAggregateOf == [m \in Messages |-> a1]
=============================================================================
