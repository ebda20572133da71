SPECIFICATION Spec
CONSTANTS
  u1 = u1
  u2 = u2
  o1 = o1
  o2 = o2
  Unlocks = {u1, u2}
  Ops = {o1, o2}
  None = None
  HasThinBackend = TRUE
SYMMETRY Symmetry
INVARIANT TypeOK
INVARIANT UnlockedIsTimed
INVARIANT SubmitIsAnswered
INVARIANT OwnSessionWritesIntact
PROPERTY ImplementsKeyCustody
CHECK_DEADLOCK FALSE
