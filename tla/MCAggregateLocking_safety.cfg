SPECIFICATION FairLockingSpec
CONSTANTS
  u1 = u1
  u2 = u2
  c1 = c1
  Keys = {k1, k2}
  NoClient = NoClient
  NoKey = NoKey
  Clients <- MCClients
  Uows <- MCUows
  ReactsTo <- MCNoReactions
  MaxAcquires = 2
  Timeouts = TRUE
  ReleaseMayFail = TRUE
INVARIANTS LockingTypeOK MutualExclusion NoOrphanLock
PROPERTIES NoOvertaking MutexRefined EveryClientFinishes
CHECK_DEADLOCK FALSE
