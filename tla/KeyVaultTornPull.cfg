SPECIFICATION SyncSpec
CONSTANTS
  d1 = d1
  d2 = d2
  k1 = k1
  k2 = k2
  Device = {d1, d2}
  Creator = d1
  Key = {k1, k2}
  Faults = {"crash"}
  PushAttempts = 4
  MaxCalls = 2
  MaxFaults = 1
INVARIANT HostKeepsFacts
CHECK_DEADLOCK FALSE
