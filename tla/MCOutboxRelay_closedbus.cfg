SPECIFICATION OutboxSpec
CONSTANTS
  n1 = n1
  n2 = n2
  c1 = c1
  c2 = c2
  Nodes = {n1}
  Commands <- MCCommands
  Entries <- MCEntries
  Home <- MCOneHome
  EventsOf <- MCEventsOf
  BatchSize = 2
  Poison = {}
  InProcessBus = TRUE
  Faults = {"crash"}
  MaxStops = 2
INVARIANT MarkedWasDelivered
CHECK_DEADLOCK FALSE
