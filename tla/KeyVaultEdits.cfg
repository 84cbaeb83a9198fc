SPECIFICATION EditSpec
CONSTANTS
  d1 = d1
  d2 = d2
  k1 = k1
  Device = {d1, d2}
  Creator = d1
  Key = {k1}
  Faults = {"network"}
  PushAttempts = 2
  MaxCalls = 2
  MaxFaults = 1
INVARIANT RetryExtendsHead
INVARIANT MetaIsKept
INVARIANT RemovedCannotWrite
INVARIANT SyncedWorkIsServed
PROPERTY ImplementsSharedVault
CHECK_DEADLOCK FALSE
