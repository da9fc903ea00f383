SPECIFICATION FairSagaSpec
CONSTANTS
  d1 = d1
  d2 = d2
  d3 = d3
  d4 = d4
  s1 = s1
  s2 = s2
  s3 = s3
  a1 = a1
  a2 = a2
  Deliveries = {d1, d2, d3, d4}
  Instances = {s1, s2, s3}
  Aggregates = {a1, a2}
  InstanceOf <- MCInstanceOf
  Commands <- MCCommands
  Starters = {d1, d3, d4}
  Atomic = {s1, s3}
  CheckThenWrite = {s2}
  Buses = {"broker", "inprocess"}
  MaxFaults = 1
INVARIANTS ReactionAllOrNothing StateBeforeCommands DoneTookEffect
PROPERTIES SagaHistoryRefined EveryEventHandled
CHECK_DEADLOCK FALSE
