SPECIFICATION DomainSpec
CONSTANTS
  Callers = {c1, c2, c3}
  Aggregates <- MCAggregates
  Adapters <- MCAdapters
INVARIANTS ChoiceHonoured DrainedUnlessTimedOut
PROPERTY ShutdownSettles
CHECK_DEADLOCK FALSE
