SPECIFICATION Spec
CONSTANTS
  e1 = e1
  Event = {e1}
  Torn = Torn
  Faults = {"io"}
  MaxChain = 3
CHECK_DEADLOCK FALSE
INVARIANT PrevHashPointsAtPreviousLine
