SPECIFICATION FairSyncSpec
CONSTANTS
  d1 = d1
  d2 = d2
  k1 = k1
  Device = {d1, d2}
  Creator = d1
  Key = {k1}
  Faults = {"network", "store", "crash"}
  PushAttempts = 2
  MaxCalls = 2
  MaxFaults = 1
INVARIANT OpenIsStored
PROPERTY StoredVaultOpens
PROPERTY Converges
CHECK_DEADLOCK FALSE
