SPECIFICATION Spec
CONSTANTS
  d1 = d1
  d2 = d2
  Device = {d1, d2}
  Method = {"password", "recovery"}
  Kid = {"k1", "k2"}
  MaxCodes = 2
  MaxTries = 1
  MaxFaults = 1
INVARIANT SecretOpensItsSlot
INVARIANT EverySecretIsKnown
PROPERTY ReplacedCodeIsGone
CHECK_DEADLOCK FALSE
SYMMETRY SomeDevices
