SPECIFICATION FairSpec
CONSTANTS
  c1 = c1
  c2 = c2
  c3 = c3
  s1 = s1
  s2 = s2
  x1 = x1
  Copies = {c1, c2, c3}
  Secrets = {s1, s2}
  Foreign = {x1}
  Empty = Empty
  None = None
INVARIANT TypeOK
INVARIANT OnlyOvertakenClearsDestroy
INVARIANT SecretHasItsClear
PROPERTY SecretLeaves
