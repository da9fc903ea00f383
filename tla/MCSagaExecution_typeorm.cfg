SPECIFICATION FairSagaSpec
CONSTANTS
  d1 = d1
  d2 = d2
  d3 = d3
  d4 = d4
  s1 = s1
  s2 = s2
  s3 = s3
  a1 = a1
  a2 = a2
  Deliveries = {d1, d2, d3}
  Instances = {s1}
  Aggregates = {a1}
  InstanceOf <- MCOneSaga
  Commands <- MCNoCommands
  Starters = {d1}
  Atomic = {s1}
  CheckThenWrite = {s1}
  Buses = {"broker"}
  MaxFaults = 0
INVARIANT CommittedIsKept
CHECK_DEADLOCK FALSE
