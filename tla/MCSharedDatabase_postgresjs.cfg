SPECIFICATION DatabaseSpec
CONSTANTS
  c1 = c1
  c2 = c2
  c3 = c3
  c4 = c4
  p1 = p1
  p2 = p2
  k1 = k1
  k2 = k2
  n1 = n1
  n2 = n2
  Clients = {c1, c2, c3, c4}
  LockKeys = {k1, k2}
  ProcessOf <- MCProcessOf
  LockNames <- MCLockNames
  MaxLosses = 1
  Workloads <- MCSagas
  EventsOf <- MCEventsOf
  Batch = 1
  PageSize = 1
  Driver = "postgres-js"
  Zone = 0
  Ttl = 1
  MaxTime = 3
INVARIANT ConflictsAreReal
CHECK_DEADLOCK FALSE
