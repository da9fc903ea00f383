SPECIFICATION FairLockingSpec
CONSTANTS
  u1 = u1
  u2 = u2
  c1 = c1
  Keys = {k1, k2}
  NoClient = NoClient
  NoKey = NoKey
  Clients <- MCClients
  Uows <- MCUows
  ReactsTo <- MCReaction
  MaxAcquires = 1
  Timeouts = FALSE
  ReleaseMayFail = FALSE
PROPERTY EveryClientFinishes
CHECK_DEADLOCK FALSE
