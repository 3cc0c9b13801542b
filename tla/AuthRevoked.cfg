SPECIFICATION Spec
CONSTANTS
  amy = amy
  bob = bob
  l1 = l1
  o1 = o1
  o2 = o2
  m1 = m1
  w1 = w1
  s1 = s1
  User = {amy, bob}
  Login = {l1}
  Logout = {}
  Mint = {m1}
  Withdrawal = {w1}
  Upload = {s1}
  Faults = {}
  None = None
INVARIANT RevokedTokenCreatesNothing
