SPECIFICATION FairSpec
CONSTANTS
  c1 = c1
  c2 = c2
  Call = {c1, c2}
  Lang = {"rust", "dart"}
  CONNECTION_ATTEMPTS = 2
  OldGrant = OldGrant
  NoCode = NoCode
INVARIANT OkTookEffectOnce
INVARIANT EffectIsReported
PROPERTY EveryCallReturns
CHECK_DEADLOCK FALSE
