SPECIFICATION Spec
CONSTANTS
  u1 = u1
  u2 = u2
  o1 = o1
  o2 = o2
  Users = {u1, u2}
  Promises = {o1, o2}
  None = None
  AuthTTL = 1
  RefreshTTL = 2
  MaxSessions = 2
  MaxTime = 2
  MaxMishaps = 1
  MaxCalls = 2
INVARIANTS
  TokensOfOneSession
  DeceivedByCheckOnly
  RevocationBounds
  LoggedOutForGood
CHECK_DEADLOCK FALSE
SYMMETRY Symmetry
