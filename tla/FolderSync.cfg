SPECIFICATION BothSpec
CONSTANTS
  d1 = d1
  d2 = d2
  k1 = k1
  k2 = k2
  Device = {d1, d2}
  Key = {k1, k2}
  Faults = {"network", "crash"}
  PushAttempts = 2
  MaxCalls = 4
  MaxFaults = 1
  MaxSealed = 6
INVARIANT HeadIsReadable
INVARIANT HeadHasFile
INVARIANT SyncedWorkIsShared
INVARIANT NoRollbackIsReported
PROPERTY ImplementsSharedVault
PROPERTY WorkIsPublishedWithoutFaults
CHECK_DEADLOCK FALSE
