SPECIFICATION Spec
CONSTANTS
  i1 = i1
  i2 = i2
  p1 = p1
  p2 = p2
  d1 = d1
  d2 = d2
  Setup = {i1, i2}
  Name = {"tom"}
  PrintId = {p1}
  Data = {d1}
  Torn = Torn
  None = None
SYMMETRY SetupSymmetry
CHECK_DEADLOCK FALSE
INVARIANT SeededCanLogIn
