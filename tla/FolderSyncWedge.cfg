SPECIFICATION StoreSpec
CONSTANTS
  d1 = d1
  d2 = d2
  k1 = k1
  k2 = k2
  Device = {d1, d2}
  Key = {k1, k2}
  Faults = {"network"}
  PushAttempts = 4
  MaxCalls = 2
  MaxFaults = 1
  MaxSealed = 6
PROPERTY WorkIsPublished
CHECK_DEADLOCK FALSE
