SPECIFICATION LimitedSpec
CONSTANTS
  d1 = d1
  d2 = d2
  a = a
  Device = {d1, d2}
  Creator = d1
  Change = {a}
  Ops = {"edit", "remove", "rotate_vek", "hybrid", "revoke", "adopt_again",
         "clear"}
  Faults = {"network", "store", "crash", "rollback"}
  PushAttempts = 2
  MaxCalls = 2
  MaxFaults = 1
  MaxDamagedCalls = 1
INVARIANT NoFalseRollback
INVARIANT HeldMskIsAccepted
INVARIANT RevokedStaysOut
PROPERTY StoredVaultOpens
PROPERTY ChangesAreKept
CHECK_DEADLOCK FALSE
