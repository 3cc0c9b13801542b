SPECIFICATION Spec
CONSTANTS
  i1 = i1
  i2 = i2
  p1 = p1
  p2 = p2
  d1 = d1
  d2 = d2
  Setup = {i1, i2}
  Name = {"tom"}
  PrintId = {p1, p2}
  Data = {d1, d2}
  Torn = Torn
  None = None
SYMMETRY VaultSymmetry
CHECK_DEADLOCK FALSE
INVARIANTS
  TypeOK
  DoneMeansReady
  ReadsWhatWasInserted
  StaysReadable
  OneKey
