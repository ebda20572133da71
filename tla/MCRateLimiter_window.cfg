SPECIFICATION Spec
CONSTANTS
  k1 = k1
  k2 = k2
  Keys = {k1, k2}
  Window = 2
  MaxHits = 2
  Horizon = 7
INVARIANT TypeOK
INVARIANT NoBurst
PROPERTY ImplementsWindow
