SPECIFICATION FairSpec
CONSTANTS
  u1 = u1
  u2 = u2
  o1 = o1
  Unlocks = {u1, u2}
  Ops = {o1}
  None = None
  HasThinBackend = FALSE
PROPERTY AbandonedVaultLocks
CHECK_DEADLOCK FALSE
