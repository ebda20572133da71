SPECIFICATION Spec
CONSTANTS
  u1 = u1
  u2 = u2
  o1 = o1
  o2 = o2
  Unlocks = {u1, u2}
  Ops = {o1, o2}
  None = None
  HasThinBackend = TRUE
SYMMETRY Symmetry
INVARIANT WritesUseUserKey
CHECK_DEADLOCK FALSE
