SPECIFICATION Spec
CONSTANTS
  d1 = d1
  d2 = d2
  p1 = p1
  p2 = p2
  k1 = k1
  k2 = k2
  k3 = k3
  Devices = {d1, d2}
  Passwords = {p1, p2}
  Keys = {k1, k2, k3}
  MaxExports = 1
  MaxLate = 1
  None = None
SYMMETRY Symmetry
INVARIANT TypeOK
INVARIANT UnlockedHoldsAccountKey
INVARIANT ExportsOpen
INVARIANT ExistingHasAccount
INVARIANT NewIsRegistrable
PROPERTY ImplementsVaultAccount
