SPECIFICATION FairSpec
CONSTANTS
  u1 = u1
  u2 = u2
  d1 = d1
  d2 = d2
  v1 = v1
  a1 = a1
  Upload = {u1}
  Redemption = {d1}
  Revocation = {v1}
  View = {a1}
  Email = {"tom"}
  Limit = {1}
  Lifetime = {1}
  MaxTime = 1
  Faults = {"io", "panic", "hangup", "kill", "power"}
  None = None
INVARIANTS
  AnsweredIsOnRecord
PROPERTIES
  EveryRequestEnds
