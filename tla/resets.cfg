SPECIFICATION FairSpec
CONSTANTS
  Users = {u1, u2}
  Workers = {w1, w2}
  Passwords = {p1, p2}
  MaxTokens = 3
  MaxClock = 1
  Lifetime = 0
  MayFail = TRUE
  None = None
INVARIANTS TypeOK LinkOnItsWay
PROPERTIES ResetsAreALock
CHECK_DEADLOCK FALSE
