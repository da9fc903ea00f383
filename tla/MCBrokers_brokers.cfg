SPECIFICATION FairBusSpec
CONSTANTS
  a1 = a1
  Brokers = {"rabbitmq", "kafka", "nats"}
  MaxMessages = 3
  Poison = {2}
  Aggregates = {a1}
  AggregateOf <- MCAggregateOf
  MaxRetries = 2
  MaxFaults = 2
  MaxConnections = 3
  MaxAttempts = 2
  Prefetch = 2
  Established = TRUE
INVARIANTS ParkedAfterRetries PartitionOrder
PROPERTIES DeliveryRefined EveryMessageSettled
CHECK_DEADLOCK FALSE
