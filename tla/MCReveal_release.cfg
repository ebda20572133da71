SPECIFICATION Spec
CONSTANTS
  f1 = f1
  a1 = a1
  a2 = a2
  k1 = k1
  Fields = {f1}
  Attempts = {a1, a2}
  Keys = {k1}
  None = None
SYMMETRY Symmetry
INVARIANT ReleaseHonoured
