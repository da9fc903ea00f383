SPECIFICATION ReadsSpec
CONSTANTS
  Aggregates <- MCAggregates
  Readers <- MCReaders
  Projections <- MCProjections
  orders = orders
  totals = totals
  Views = {1, 2}
  Extractors <- MCExtractors
  History <- MCHistory
  Writers = {w1, w2}
  Chain = 1
  MaxEvents = 2
  MaxTroubles = 2
SYMMETRY WriterSymmetry
INVARIANTS StrongViewsCurrent ViewsCurrent SubscribedOnce
CHECK_DEADLOCK FALSE
