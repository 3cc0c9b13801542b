SPECIFICATION Spec
CONSTANTS
  e1 = e1
  Event = {e1}
  Torn = Torn
  Faults = {"io", "kill", "power"}
  MaxChain = 5
CHECK_DEADLOCK FALSE
INVARIANT TypeOK
INVARIANT AckedKept
INVARIANT BreaksFollowFailedWrites
PROPERTY BreakIsForGood
PROPERTY ImplementsAuditTrail
