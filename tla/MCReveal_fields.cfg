SPECIFICATION FairSpec
CONSTANTS
  f1 = f1
  f2 = f2
  a1 = a1
  a2 = a2
  k1 = k1
  k2 = k2
  Fields = {f1, f2}
  Attempts = {a1, a2}
  Keys = {k1, k2}
  None = None
INVARIANT TypeOK
INVARIANT LockedPageShowsReplacedKeysOnly
INVARIANT NoRevealWithoutConfirmation
INVARIANT FirstReleaseHonoured
INVARIANT PlaceholderComesBack
PROPERTY ImplementsConfirmedReveal
PROPERTY TimerRevealEnds
