SPECIFICATION FairLifecycleSpec
CONSTANTS
  c1 = c1
  c2 = c2
  c3 = c3
  a1 = a1
  a2 = a2
  id1 = id1
  NoId = NoId
  NoCall = NoCall
  NoAggregate = NoAggregate
  Calls = {c1, c2, c3}
  Ids = {id1}
  Aggregates = {a1, a2}
  Wirings <- MCWirings
  CommandId <- MCCommandId
  MaxEvents = 1
  MaxRetries = 1
  SnapshotEvery = 1
INVARIANTS LifecycleTypeOK SequenceGapFree SnapshotsFaithful EffectAtMostOnce RecordedWasCommitted
PROPERTIES HistoryRefined EveryCallReturns
CHECK_DEADLOCK FALSE
