SPECIFICATION Spec
CONSTANTS
  d1 = d1
  d2 = d2
  i1 = i1
  i2 = i2
  i3 = i3
  e1 = e1
  e2 = e2
  Devices = {d1, d2}
  Ids = {i1, i2, i3}
  Existing = {i1}
  Edits = {e1, e2}
  Plain = {"username"}
  Absent = {}
  Corrupt = {"username"}
  MaxTouched = 1
  Garbled = Garbled
  NoName = NoName
  None = None
SYMMETRY Symmetry
INVARIANT TypeOK
INVARIANT FieldsStayHome
INVARIANT NoSilentDuplicate
PROPERTY UntouchedFieldsSurvive
