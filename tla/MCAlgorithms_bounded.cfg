SPECIFICATION Spec
CONSTANTS
  i1 = i1
  BotToken = BotToken
  Garbled = Garbled
  OddDigits = OddDigits
  NoObject = NoObject
  NonAscii = NonAscii
  None = None
  MaxAge = 1
  Skew = 1
  Place <- MCPlace
  Lines <- MCLines
  Signed <- MCSigned
  Recut <- MCRecut
  Now = 2
  MaxPairs = 4
  ByteBits = 2
  Rejected = Rejected
  MaxSize = 20
INVARIANT AcceptedIsSignedAndFresh
INVARIANT SignedAndFreshIsAccepted
INVARIANT DatesOfSignedDataOnly
INVARIANT IndexIsUniform
CHECK_DEADLOCK FALSE
