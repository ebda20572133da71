SPECIFICATION Spec
CONSTANTS
  f1 = f1
  a1 = a1
  k1 = k1
  k2 = k2
  Fields = {f1}
  Attempts = {a1}
  Keys = {k1, k2}
  None = None
SYMMETRY Symmetry
INVARIANT NoSecretInLockedPage
