SPECIFICATION FairOutboxSpec
CONSTANTS
  n1 = n1
  n2 = n2
  c1 = c1
  c2 = c2
  Nodes = {n1}
  Commands <- MCCommands
  Entries <- MCEntries
  Home <- MCOneHome
  EventsOf <- MCEventsOf
  BatchSize = 2
  Poison = {1}
  InProcessBus = FALSE
  Faults = {"bus", "mark", "load", "deadline", "crash"}
  MaxStops = 1
INVARIANTS OutboxTypeOK MarkedWasDelivered SingleFlight
PROPERTY EveryEntryDelivered
CHECK_DEADLOCK FALSE
