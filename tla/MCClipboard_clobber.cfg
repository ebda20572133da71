SPECIFICATION Spec
CONSTANTS
  c1 = c1
  s1 = s1
  s2 = s2
  x1 = x1
  Copies = {c1}
  Secrets = {s1, s2}
  Foreign = {x1}
  Empty = Empty
  None = None
PROPERTY NeverClobbers
